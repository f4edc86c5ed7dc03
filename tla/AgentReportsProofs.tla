-------------------------- MODULE AgentReportsProofs --------------------------
(***************************************************************************)
(* What agents report and what they write is read right.                       *)
(*                                                                         *)
(* The tree of agents, for any agents, types and questions, any number of hooks    *)
(* and any order in which they arrive:                                        *)
(*   - calls and children are paired one to one, and a call waits for a child   *)
(*     exactly while it has none;                                            *)
(*   - a child its own call has named stays under the agent that made the call, *)
(*     an answered question stays answered, and an agent whose outcome has been  *)
(*     told stays done unless it went on;                                     *)
(*   - a stop alone finishes no agent whose own children still run.            *)
(* None of these is inductive.  That a confirmed pair is never undone needs what  *)
(* the tracker cannot see: that the agent a call made and the caller it was made   *)
(* by are those the runner says, so that the hooks under way are part of the       *)
(* invariant (WireFits).  That no agent told done is returned to work by a late     *)
(* hook needs the runner's own order: that a caller waits for the agents it made,    *)
(* and so does nothing it could be stamped for after they ended (EndedIsQuiet).      *)
(* Each tracker operator is shown to keep a sound tree sound, before the hooks that  *)
(* are made of them.                                                         *)
(*                                                                         *)
(* The documents, however many blocks and lines they have: the sections and the      *)
(* phases a scan has so far are numbered by the headings read so far, an open fence   *)
(* is a block that ends at the last line, and what a scan has merged of the          *)
(* intervals of a report covers those merged so far.                             *)
(***************************************************************************)
EXTENDS MCAgents, Sequences, FiniteSetTheorems, SequenceTheorems, WellFoundedInduction, TLAPS

-----------------------------------------------------------------------------
(* The tree of the delegated agents.  The first part is about a tree t, as the  *)
(* operators of the tracker take it, with the calls in `out` made and not yet   *)
(* put where they wait; the second about what is under way to the workbench.    *)

Records == [known : BOOLEAN, live : BOOLEAN, since : Time, finished : Time,
            resumed : Time, outcome : BOOLEAN, held : BOOLEAN, heldAt : Time,
            spawn : Agent \cup {None}, sure : BOOLEAN,
            parent : Agent \cup {Root, None}, placed : BOOLEAN]
CallsMade == [made : BOOLEAN, caller : Agent \cup {Root, None}, child : Agent \cup {None}, sure : BOOLEAN]

TreeTyped(t) ==
    t \in [rec : [Agent -> Records], spawns : [Agent -> CallsMade], pending : Seq(Agent)]

\* An agent not heard of has no record, and one that has is live until it has finished.
RecordsTell(t) ==
    \A a \in Agent : IF t.rec[a].known THEN t.rec[a].live <=> t.rec[a].finished = 0
                     ELSE /\ ~t.rec[a].live /\ t.rec[a].finished = 0 /\ t.rec[a].resumed = 0
                          /\ t.rec[a].spawn = None /\ ~t.rec[a].sure

Paired(t) ==
    /\ \A a \in Agent, c \in Agent : t.spawns[c].child = a <=> t.rec[a].spawn = c
    /\ \A c \in Agent : t.spawns[c].child # None => t.spawns[c].made

Queued(s, c) == \E i \in DOMAIN s : s[i] = c
Once(s)      == \A i \in DOMAIN s, j \in DOMAIN s : s[i] = s[j] => i = j
WaitingAre(t, out) ==
    /\ \A c \in Agent : Queued(t.pending, c) <=> t.spawns[c].made /\ t.spawns[c].child = None /\ c \notin out
    /\ Once(t.pending)

\* Only a call's own result makes a pair sure, and it names the agent the call made.
SureIsTrue(t) ==
    /\ \A a \in Agent : t.rec[a].sure => t.rec[a].spawn = a /\ t.rec[a].parent = agents[a].caller /\ t.spawns[a].sure
    /\ \A c \in Agent : t.spawns[c].sure => t.spawns[c].child = c /\ t.rec[c].sure
MadeWas(t) ==
    \A c \in Agent : t.spawns[c].made => t.spawns[c].caller = agents[c].caller /\ agents[c].life # "none"

SoundBut(t, out) ==
    TreeTyped(t) /\ RecordsTell(t) /\ Paired(t) /\ WaitingAre(t, out) /\ SureIsTrue(t) /\ MadeWas(t)

RunnerTyped ==
    /\ clock \in Time /\ others \in 0..MaxOther
    /\ agents \in [Agent -> [caller : Agent \cup {Root, None}, type : Type, async : BOOLEAN,
                             life : Lives, runs : Nat, named : BOOLEAN]]
    /\ busy \in BOOLEAN
    /\ asked \in [Question -> Agent \cup {Root, None}]
    /\ \A a \in Agent : agents[a].life # "none" => agents[a].caller \notin {None, a}
    /\ \A a \in Agent : agents[a].life = "over" => agents[a].named
    /\ \A a \in Agent : agents[a].life \in {"running", "ended", "over"} => agents[a].runs >= 1

\* What a hook under way carries.
Was(a, p) == a \in Agent /\ agents[a].caller = p /\ agents[a].life # "none"
HookFits(h) ==
    /\ h.kind \in {"call", "tool", "ask", "answer", "result", "failed", "start", "stop", "prompt", "turnend", "notify"}
    /\ h.kind \notin {"start", "stop", "turnend"} => h.by \in Agent \cup {Root}
    /\ h.kind \in {"start", "stop"} => h.by \in Agent
    /\ h.kind = "call" => Was(h.call, h.by)
    /\ h.kind \in {"ask", "answer"} => h.question \in Question
    /\ h.kind = "result" => Was(h.call, h.by) /\ h.child = h.call /\ h.done \in BOOLEAN
    /\ h.kind = "failed" => h.call \in Agent /\ h.interrupt \in BOOLEAN /\ \E a \in Agent : agents[a].life = "failed"
    /\ h.kind = "prompt" => h.notes = {} \/ \E a \in Agent : h.notes = {a} /\ agents[a].life # "none"
    /\ h.kind = "turnend" => h.tasks \subseteq Agent
WireFits == \A m \in wire : m.at \in 1..clock /\ HookFits(m.hook)

\* The call that made an agent is heard of once, and the result of one before it made it sure.
CallsComeOnce ==
    \A m \in wire : m.hook.kind = "call" =>
        /\ \A n \in wire : n.hook.kind = "call" /\ n.hook.call = m.hook.call => n = m
        /\ spawns[m.hook.call].made => spawns[m.hook.call].sure

StateTyped ==
    /\ turn \in [ended : BOOLEAN, promptAt : Time, stopAt : Time, background : SUBSET Agent]
    /\ needs \in [for : Question \cup {None, Asking}, by : Agent \cup {Root, None}, at : Time]
    /\ seen \subseteq Question \cup Agent
    /\ heard \in [named : SUBSET Agent, told : SUBSET Agent, answered : SUBSET Question,
                  lastAt : Time, lastEnds : BOOLEAN]
    /\ heard.answered \subseteq seen
    /\ AnsweredStaysAnswered
    /\ \A a \in heard.named : rec[a].sure

\* A hook that returns its agent to work when it is stamped late, and one that ends it.
Works1(m, a) == m.hook.kind \in {"call", "tool", "ask", "answer", "result", "start"} /\ m.hook.by = a
Finishes(m, a) ==
    \/ m.hook.kind = "stop" /\ m.hook.by = a
    \/ m.hook.kind = "result" /\ m.hook.done /\ m.hook.child = a
    \/ m.hook.kind = "prompt" /\ a \in m.hook.notes

\* As long as no call failed, an agent waits for those it made, and one that ran once and
\* was finished has nothing under way that was stamped after that.
NoneFailed == \A a \in Agent : agents[a].life # "failed"
CallersWait == \A a, p \in Agent : Open(a) /\ agents[a].caller = p => agents[p].life = "running"
EndedIsQuiet ==
    \A a \in Agent : agents[a].runs <= 1 =>
        /\ rec[a].resumed = 0
        /\ rec[a].finished # 0 =>
              /\ agents[a].life \in {"ended", "over"}
              /\ \A m \in wire : Works1(m, a) => m.at <= rec[a].finished
        /\ \A e \in wire : Finishes(e, a) =>
              /\ agents[a].life \in {"ended", "over"}
              /\ \A m \in wire : Works1(m, a) => m.at <= e.at
        /\ a \in heard.told => rec[a].finished # 0

TreeInv ==
    /\ RunnerTyped /\ WireFits /\ SoundBut(Tree, {}) /\ CallsComeOnce /\ StateTyped
    /\ NoneFailed => CallersWait /\ EndedIsQuiet

\* A record that changes, and not whom it is placed under if that is settled.
RecordFits(t, a, r) ==
    /\ a \in Agent /\ r \in Records
    /\ r.spawn = t.rec[a].spawn /\ (r.sure <=> t.rec[a].sure) /\ (r.sure => r.parent = t.rec[a].parent)
    /\ IF r.known THEN r.live <=> r.finished = 0
       ELSE ~r.live /\ r.finished = 0 /\ r.resumed = 0 /\ r.spawn = None /\ ~r.sure
Turns(t, a, r, u) == u = [t EXCEPT !.rec[a] = r]

LEMMA RecordKeeps ==
    ASSUME NEW t, NEW out, SoundBut(t, out), NEW a, NEW r, RecordFits(t, a, r), NEW u, Turns(t, a, r, u)
    PROVE  /\ SoundBut(u, out)
           /\ u.rec[a] = r /\ \A b \in Agent : b # a => u.rec[b] = t.rec[b]
           /\ u.spawns = t.spawns /\ u.pending = t.pending
<1>1. /\ t \in [rec : [Agent -> Records], spawns : [Agent -> CallsMade], pending : Seq(Agent)]
      /\ RecordsTell(t) /\ Paired(t) /\ WaitingAre(t, out) /\ SureIsTrue(t) /\ MadeWas(t)
  BY DEF SoundBut, TreeTyped
<1>a. a \in Agent /\ r \in Records
  BY DEF RecordFits
<1>b. /\ r.spawn = t.rec[a].spawn /\ (r.sure <=> t.rec[a].sure) /\ (r.sure => r.parent = t.rec[a].parent)
      /\ IF r.known THEN r.live <=> r.finished = 0
         ELSE ~r.live /\ r.finished = 0 /\ r.resumed = 0 /\ r.spawn = None /\ ~r.sure
  BY DEF RecordFits
<1>2. /\ u \in [rec : [Agent -> Records], spawns : [Agent -> CallsMade], pending : Seq(Agent)]
      /\ u.rec = [t.rec EXCEPT ![a] = r] /\ u.spawns = t.spawns /\ u.pending = t.pending
  BY <1>1, <1>a DEF Turns
<1>3. RecordsTell(u)
  <2>. SUFFICES ASSUME NEW b \in Agent
                PROVE  IF u.rec[b].known THEN u.rec[b].live <=> u.rec[b].finished = 0
                       ELSE /\ ~u.rec[b].live /\ u.rec[b].finished = 0 /\ u.rec[b].resumed = 0
                            /\ u.rec[b].spawn = None /\ ~u.rec[b].sure
    BY DEF RecordsTell
  <2>1. CASE b = a
    BY <1>1, <1>2, <1>a, <1>b, <2>1
  <2>2. CASE b # a
    <3>1. u.rec[b] = t.rec[b]
      BY <1>1, <1>2, <2>2
    <3>. QED
      BY <1>1, <3>1 DEF RecordsTell
  <2>. QED
    BY <2>1, <2>2
<1>4. Paired(u)
  BY <1>1, <1>2, <1>a, <1>b DEF Paired
<1>5. WaitingAre(u, out)
  BY <1>1, <1>2 DEF WaitingAre
<1>6. SureIsTrue(u)
  BY <1>1, <1>2, <1>a, <1>b DEF SureIsTrue
<1>7. MadeWas(u)
  BY <1>1, <1>2 DEF MadeWas
<1>. QED
  BY <1>1, <1>2, <1>3, <1>4, <1>5, <1>6, <1>7, <1>a DEF SoundBut, TreeTyped

\* What no placing of an agent undoes.
Keeps(t, u) ==
    \A b \in Agent :
        /\ t.rec[b].known => u.rec[b].known
        /\ t.rec[b].sure => u.rec[b].sure
        /\ t.spawns[b].sure => u.spawns[b].sure
        /\ u.spawns[b].made <=> t.spawns[b].made
        /\ u.rec[b].finished = t.rec[b].finished /\ u.rec[b].resumed = t.rec[b].resumed

LEMMA KeepsOn ==
    ASSUME NEW t, NEW u, NEW w, Keeps(t, u), Keeps(u, w) PROVE Keeps(t, w)
  BY DEF Keeps

LEMMA RecordOf ==
    ASSUME NEW t, NEW out, SoundBut(t, out), NEW a \in Agent
    PROVE  /\ t.rec[a] \in Records /\ t.spawns[a] \in CallsMade
           /\ IF t.rec[a].known THEN t.rec[a].live <=> t.rec[a].finished = 0
              ELSE /\ ~t.rec[a].live /\ t.rec[a].finished = 0 /\ t.rec[a].resumed = 0
                   /\ t.rec[a].spawn = None /\ ~t.rec[a].sure
  BY DEF SoundBut, TreeTyped, RecordsTell

LEMMA KnownKeeps ==
    ASSUME NEW t, NEW out, SoundBut(t, out), NEW p \in Agent \cup {Root}, NEW at \in Time,
           NEW u, u = Known(t, p, at)
    PROVE  /\ SoundBut(u, out) /\ Keeps(t, u) /\ (p \in Agent => u.rec[p].known)
           /\ u.spawns = t.spawns /\ u.pending = t.pending
           /\ \A b \in Agent : u.rec[b].spawn = t.rec[b].spawn /\ (u.rec[b].sure <=> t.rec[b].sure)
<1>1. CASE p = Root \/ t.rec[p].known
  BY <1>1, NamesAssumption DEF Known, Keeps
<1>2. CASE ~(p = Root \/ t.rec[p].known)
  <2>1. PICK r : r = [Blank EXCEPT !.known = TRUE, !.live = TRUE, !.since = at, !.parent = Root]
    OBVIOUS
  <2>2. /\ r \in Records /\ r.spawn = None /\ ~r.sure /\ r.known /\ r.live /\ r.finished = 0 /\ r.resumed = 0
    <3>1. r = [known |-> TRUE, live |-> TRUE, since |-> at, finished |-> 0, resumed |-> 0,
               outcome |-> FALSE, held |-> FALSE, heldAt |-> 0,
               spawn |-> None, sure |-> FALSE, parent |-> Root, placed |-> FALSE]
      BY <2>1 DEF Blank
    <3>2. 0 \in Time
      BY HooksAssumption DEF Time
    <3>. QED
      BY <3>1, <3>2 DEF Records
  <2>3. u = [t EXCEPT !.rec[p] = r] /\ p \in Agent
    BY <1>2, <2>1 DEF Known
  <2>4. ~t.rec[p].known /\ t.rec[p].finished = 0 /\ t.rec[p].resumed = 0 /\ t.rec[p].spawn = None /\ ~t.rec[p].sure
    BY <1>2, <2>3, RecordOf
  <2>5. RecordFits(t, p, r) /\ Turns(t, p, r, u)
    BY <2>2, <2>3, <2>4 DEF RecordFits, Turns
  <2>6. /\ SoundBut(u, out) /\ u.spawns = t.spawns /\ u.pending = t.pending
        /\ u.rec[p] = r /\ \A b \in Agent : b # p => u.rec[b] = t.rec[b]
    BY <2>5, RecordKeeps
  <2>. QED
    BY <2>2, <2>3, <2>4, <2>6 DEF Keeps
<1>. QED
  BY <1>1, <1>2

\* An agent returns to work only by what was stamped after it finished.
LEMMA ReopenKeeps ==
    ASSUME NEW t, NEW out, SoundBut(t, out), NEW p \in Agent \cup {Root}, NEW at \in Time,
           p \in Agent => t.rec[p].known, NEW u, u = Reopen(t, p, at)
    PROVE  /\ SoundBut(u, out) /\ u.spawns = t.spawns
           /\ \A b \in Agent :
                /\ t.rec[b].known => u.rec[b].known
                /\ u.rec[b].spawn = t.rec[b].spawn /\ (t.rec[b].sure => u.rec[b].sure)
                /\ \/ u.rec[b].finished = t.rec[b].finished /\ u.rec[b].resumed = t.rec[b].resumed
                   \/ b = p /\ t.rec[b].finished # 0 /\ at > t.rec[b].finished /\ u.rec[b].finished = 0
<1>1. CASE p = Root \/ t.rec[p].live \/ at <= t.rec[p].finished
  BY <1>1 DEF Reopen
<1>2. CASE ~(p = Root \/ t.rec[p].live \/ at <= t.rec[p].finished)
  <2>0. p \in Agent /\ t.rec[p] \in Records /\ t.rec[p].finished # 0 /\ t.rec[p].known /\ t.rec \in [Agent -> Records]
    BY <1>2, RecordOf DEF SoundBut, TreeTyped
  <2>1. PICK r : r = [t.rec[p] EXCEPT !.resumed = t.rec[p].finished, !.live = TRUE, !.finished = 0, !.outcome = FALSE]
    OBVIOUS
  <2>2. /\ r \in Records /\ r.spawn = t.rec[p].spawn /\ (r.sure <=> t.rec[p].sure) /\ r.parent = t.rec[p].parent
        /\ r.known /\ r.live /\ r.finished = 0
    <3>1. 0 \in Time
      BY HooksAssumption DEF Time
    <3>2. t.rec[p].finished \in Time
      BY <2>0 DEF Records
    <3>. QED
      BY <2>0, <2>1, <3>1, <3>2 DEF Records
  <2>3. u = [t EXCEPT !.rec[p] = r]
    BY <1>2, <2>1 DEF Reopen
  <2>4. RecordFits(t, p, r) /\ Turns(t, p, r, u)
    BY <2>0, <2>2, <2>3 DEF RecordFits, Turns
  <2>5. /\ SoundBut(u, out) /\ u.spawns = t.spawns
        /\ u.rec[p] = r /\ \A b \in Agent : b # p => u.rec[b] = t.rec[b]
    BY <2>4, RecordKeeps
  <2>6. at > t.rec[p].finished
    BY <1>2, <2>0, HooksAssumption DEF Records, Time
  <2>. QED
    BY <2>0, <2>2, <2>5, <2>6
<1>. QED
  BY <1>1, <1>2

LEMMA UnheldKeeps ==
    ASSUME NEW t, NEW out, SoundBut(t, out), NEW p \in Agent \cup {Root}, NEW at,
           NEW u, u = Unheld(t, p, at)
    PROVE  SoundBut(u, out) /\ Keeps(t, u) /\ u.spawns = t.spawns
<1>1. CASE p = Root \/ at <= t.rec[p].heldAt
  BY <1>1 DEF Unheld, Keeps
<1>2. CASE ~(p = Root \/ at <= t.rec[p].heldAt)
  <2>0. p \in Agent /\ t.rec[p] \in Records /\ t.rec \in [Agent -> Records]
    BY <1>2, RecordOf DEF SoundBut, TreeTyped
  <2>1. PICK r : r = [t.rec[p] EXCEPT !.held = FALSE]
    OBVIOUS
  <2>2. /\ r \in Records /\ r.spawn = t.rec[p].spawn /\ (r.sure <=> t.rec[p].sure) /\ r.parent = t.rec[p].parent
        /\ (r.known <=> t.rec[p].known) /\ (r.live <=> t.rec[p].live) /\ r.finished = t.rec[p].finished
        /\ r.resumed = t.rec[p].resumed
    BY <2>0, <2>1 DEF Records
  <2>3. u = [t EXCEPT !.rec[p] = r]
    BY <1>2, <2>1 DEF Unheld
  <2>4. RecordFits(t, p, r) /\ Turns(t, p, r, u)
    BY <2>0, <2>2, <2>3, RecordOf DEF RecordFits, Turns
  <2>5. /\ SoundBut(u, out) /\ u.spawns = t.spawns
        /\ u.rec[p] = r /\ \A b \in Agent : b # p => u.rec[b] = t.rec[b]
    BY <2>4, RecordKeeps
  <2>. QED
    BY <2>0, <2>2, <2>5 DEF Keeps
<1>. QED
  BY <1>1, <1>2

LEMMA WithoutIs ==
    ASSUME NEW s \in Seq(Agent), Once(s), NEW c, NEW u, u = Without(s, c)
    PROVE  /\ u \in Seq(Agent) /\ Once(u)
           /\ \A d : Queued(u, d) <=> Queued(s, d) /\ d # c
<1>0. DOMAIN s = 1..Len(s) /\ Len(s) \in Nat /\ \A i \in 1..Len(s) : s[i] \in Agent
  OBVIOUS
<1>1. CASE ~Queued(s, c)
  <2>1. u = s
    BY <1>1 DEF Without, Queued
  <2>. QED
    BY <1>1, <2>1 DEF Queued
<1>2. CASE Queued(s, c)
  <2>1. PICK at : at = CHOOSE i \in DOMAIN s : s[i] = c
    OBVIOUS
  <2>2. at \in 1..Len(s) /\ s[at] = c
    BY <1>0, <1>2, <2>1 DEF Queued
  <2>3. u = [i \in 1..(Len(s) - 1) |-> IF i < at THEN s[i] ELSE s[i + 1]]
    BY <1>2, <2>1 DEF Without, Queued
  <2>4. \A i \in 1..(Len(s) - 1) : i \in 1..Len(s) /\ i + 1 \in 1..Len(s)
    BY <1>0
  <2>5. Len(s) - 1 \in Nat
    BY <1>0, <2>2
  <2>6. u \in Seq(Agent)
    BY <1>0, <2>3, <2>4, <2>5
  <2>7. DOMAIN u = 1..(Len(s) - 1)
    BY <2>3
  <2>8. Once(u)
    <3>. SUFFICES ASSUME NEW i \in 1..(Len(s) - 1), NEW j \in 1..(Len(s) - 1), u[i] = u[j] PROVE i = j
      BY <2>7 DEF Once
    <3>1. \A k, l \in 1..Len(s) : s[k] = s[l] => k = l
      BY <1>0 DEF Once
    <3>2. u[i] = (IF i < at THEN s[i] ELSE s[i + 1]) /\ u[j] = (IF j < at THEN s[j] ELSE s[j + 1])
      BY <2>3
    <3>3. PICK k \in 1..Len(s), l \in 1..Len(s) :
            /\ u[i] = s[k] /\ k = IF i < at THEN i ELSE i + 1
            /\ u[j] = s[l] /\ l = IF j < at THEN j ELSE j + 1
      <4>1. \E k \in 1..Len(s) : u[i] = s[k] /\ k = IF i < at THEN i ELSE i + 1
        BY <2>4, <3>2
      <4>2. \E l \in 1..Len(s) : u[j] = s[l] /\ l = IF j < at THEN j ELSE j + 1
        BY <2>4, <3>2
      <4>. QED
        BY <4>1, <4>2
    <3>4. k = l
      BY <3>1, <3>3
    <3>. QED
      BY <1>0, <2>2, <3>3, <3>4
  <2>9. \A d : Queued(u, d) => Queued(s, d) /\ d # c
    <3>. SUFFICES ASSUME NEW d, NEW i \in 1..(Len(s) - 1), u[i] = d PROVE Queued(s, d) /\ d # c
      BY <2>7 DEF Queued
    <3>1. \A k, l \in 1..Len(s) : s[k] = s[l] => k = l
      BY <1>0 DEF Once
    <3>2. d = IF i < at THEN s[i] ELSE s[i + 1]
      BY <2>3
    <3>3. PICK k \in 1..Len(s) : d = s[k] /\ k # at
      BY <1>0, <2>2, <2>4, <3>2
    <3>. QED
      BY <1>0, <2>2, <3>1, <3>3 DEF Queued
  <2>10. \A d : Queued(s, d) /\ d # c => Queued(u, d)
    <3>. SUFFICES ASSUME NEW d, NEW k \in 1..Len(s), s[k] = d, d # c PROVE Queued(u, d)
      BY <1>0 DEF Queued
    <3>1. CASE k < at
      <4>1. k \in 1..(Len(s) - 1) /\ u[k] = d
        BY <1>0, <2>2, <2>3, <3>1
      <4>. QED
        BY <2>7, <4>1 DEF Queued
    <3>2. CASE ~(k < at)
      <4>1. k # at
        BY <2>2
      <4>2. k - 1 \in 1..(Len(s) - 1) /\ ~(k - 1 < at) /\ (k - 1) + 1 = k
        BY <1>0, <2>2, <3>2, <4>1
      <4>3. u[k - 1] = d
        BY <2>3, <4>2
      <4>. QED
        BY <2>7, <4>2, <4>3 DEF Queued
    <3>. QED
      BY <3>1, <3>2
  <2>. QED
    BY <2>6, <2>8, <2>9, <2>10
<1>. QED
  BY <1>1, <1>2

\* A call that waits for a child, or has only now been made, and an agent that has none.
BindFits(t, out, a, c, sure) ==
    /\ a \in Agent /\ c \in Agent /\ t.rec[a].known /\ t.rec[a].spawn = None
    /\ t.spawns[c].made /\ t.spawns[c].child = None
    /\ sure \in BOOLEAN /\ (sure => a = c)
Binds(t, a, c, sure, u) == u = Bind(t, a, c, sure)

LEMMA BindIs ==
    ASSUME NEW t, TreeTyped(t), NEW a \in Agent, NEW c \in Agent, NEW sure \in BOOLEAN, Once(t.pending),
           NEW u, Binds(t, a, c, sure, u)
    PROVE  /\ TreeTyped(u)
           /\ u.rec[a].spawn = c /\ u.rec[a].sure = sure /\ u.rec[a].parent = t.spawns[c].caller
           /\ (u.rec[a].known <=> t.rec[a].known) /\ (u.rec[a].live <=> t.rec[a].live)
           /\ u.rec[a].finished = t.rec[a].finished /\ u.rec[a].resumed = t.rec[a].resumed
           /\ \A b \in Agent : b # a => u.rec[b] = t.rec[b]
           /\ u.spawns[c].child = a /\ u.spawns[c].sure = sure /\ (u.spawns[c].made <=> t.spawns[c].made)
           /\ u.spawns[c].caller = t.spawns[c].caller
           /\ \A d \in Agent : d # c => u.spawns[d] = t.spawns[d]
<1>1. t.rec \in [Agent -> Records] /\ t.spawns \in [Agent -> CallsMade] /\ t.pending \in Seq(Agent)
  BY DEF TreeTyped
<1>2. PICK r : r = [t.rec[a] EXCEPT !.spawn = c, !.sure = sure, !.placed = TRUE, !.parent = t.spawns[c].caller]
  OBVIOUS
<1>3. PICK s : s = [t.spawns[c] EXCEPT !.child = a, !.sure = sure]
  OBVIOUS
<1>4. PICK w : w = Without(t.pending, c)
  OBVIOUS
<1>5. t.rec[a] \in Records /\ t.spawns[c] \in CallsMade /\ t.spawns[c].caller \in Agent \cup {Root, None}
  BY <1>1 DEF CallsMade
<1>6. /\ r \in Records /\ r.spawn = c /\ r.sure = sure /\ r.parent = t.spawns[c].caller
      /\ (r.known <=> t.rec[a].known) /\ (r.live <=> t.rec[a].live)
      /\ r.finished = t.rec[a].finished /\ r.resumed = t.rec[a].resumed
  BY <1>2, <1>5 DEF Records
<1>7. /\ s \in CallsMade /\ s.child = a /\ s.sure = sure /\ (s.made <=> t.spawns[c].made)
      /\ s.caller = t.spawns[c].caller
  BY <1>3, <1>5 DEF CallsMade
<1>8. w \in Seq(Agent) /\ Once(w) /\ \A d : Queued(w, d) <=> Queued(t.pending, d) /\ d # c
  BY <1>1, <1>4, WithoutIs
<1>9. u = [rec |-> [t.rec EXCEPT ![a] = r], spawns |-> [t.spawns EXCEPT ![c] = s], pending |-> w]
  BY <1>2, <1>3, <1>4 DEF Binds, Bind
<1>10. u.rec = [t.rec EXCEPT ![a] = r] /\ u.spawns = [t.spawns EXCEPT ![c] = s] /\ u.pending = w
  BY <1>9
<1>11. TreeTyped(u)
  BY <1>1, <1>6, <1>7, <1>8, <1>9 DEF TreeTyped
<1>12. u.rec[a] = r /\ \A b \in Agent : b # a => u.rec[b] = t.rec[b]
  BY <1>1, <1>10
<1>13. u.spawns[c] = s /\ \A d \in Agent : d # c => u.spawns[d] = t.spawns[d]
  BY <1>1, <1>10
<1>. QED
  BY <1>6, <1>7, <1>8, <1>10, <1>11, <1>12, <1>13

LEMMA BindWaits ==
    ASSUME NEW t, TreeTyped(t), Once(t.pending), NEW a, NEW c, NEW sure, NEW u, Binds(t, a, c, sure, u)
    PROVE  Once(u.pending) /\ \A d : Queued(u.pending, d) <=> Queued(t.pending, d) /\ d # c
<1>1. PICK w : w = Without(t.pending, c)
  OBVIOUS
<1>2. u.pending = w
  BY <1>1 DEF Binds, Bind
<1>3. t.pending \in Seq(Agent)
  BY DEF TreeTyped
<1>4. Once(w) /\ \A d : Queued(w, d) <=> Queued(t.pending, d) /\ d # c
  BY <1>1, <1>3, WithoutIs
<1>. QED
  BY <1>2, <1>4

LEMMA BindKeeps ==
    ASSUME NEW t, NEW out, SoundBut(t, out), NEW a, NEW c, NEW sure, BindFits(t, out, a, c, sure),
           NEW u, Binds(t, a, c, sure, u)
    PROVE  /\ SoundBut(u, out \ {c}) /\ Keeps(t, u) /\ u.rec[a].spawn = c /\ u.spawns[c].child = a
           /\ \A b \in Agent : b # a => u.rec[b].spawn = t.rec[b].spawn
<1>0. /\ a \in Agent /\ c \in Agent /\ t.rec[a].known /\ t.rec[a].spawn = None
      /\ t.spawns[c].made /\ t.spawns[c].child = None
      /\ sure \in BOOLEAN /\ (sure => a = c)
  BY DEF BindFits
<1>1. /\ TreeTyped(t) /\ RecordsTell(t) /\ Paired(t) /\ WaitingAre(t, out) /\ SureIsTrue(t) /\ MadeWas(t)
      /\ Once(t.pending)
  BY DEF SoundBut, WaitingAre
<1>2. /\ TreeTyped(u)
      /\ u.rec[a].spawn = c /\ u.rec[a].sure = sure /\ u.rec[a].parent = t.spawns[c].caller
      /\ (u.rec[a].known <=> t.rec[a].known) /\ (u.rec[a].live <=> t.rec[a].live)
      /\ u.rec[a].finished = t.rec[a].finished /\ u.rec[a].resumed = t.rec[a].resumed
  BY <1>0, <1>1, BindIs
<1>3. /\ \A b \in Agent : b # a => u.rec[b] = t.rec[b]
      /\ u.spawns[c].child = a /\ u.spawns[c].sure = sure /\ (u.spawns[c].made <=> t.spawns[c].made)
      /\ u.spawns[c].caller = t.spawns[c].caller
      /\ \A d \in Agent : d # c => u.spawns[d] = t.spawns[d]
  BY <1>0, <1>1, BindIs
<1>4. Once(u.pending) /\ \A d : Queued(u.pending, d) <=> Queued(t.pending, d) /\ d # c
  BY <1>1, BindWaits
<1>5. RecordsTell(u)
  <2>. SUFFICES ASSUME NEW b \in Agent
                PROVE  IF u.rec[b].known THEN u.rec[b].live <=> u.rec[b].finished = 0
                       ELSE /\ ~u.rec[b].live /\ u.rec[b].finished = 0 /\ u.rec[b].resumed = 0
                            /\ u.rec[b].spawn = None /\ ~u.rec[b].sure
    BY DEF RecordsTell
  <2>1. CASE b = a
    BY <1>0, <1>1, <1>2, <2>1 DEF RecordsTell
  <2>2. CASE b # a
    <3>1. u.rec[b] = t.rec[b]
      BY <1>3, <2>2
    <3>. QED
      BY <1>1, <3>1 DEF RecordsTell
  <2>. QED
    BY <2>1, <2>2
<1>6. Paired(u)
  <2>1. \A b, d \in Agent : u.spawns[d].child = b <=> u.rec[b].spawn = d
    <3>. SUFFICES ASSUME NEW b \in Agent, NEW d \in Agent PROVE u.spawns[d].child = b <=> u.rec[b].spawn = d
      OBVIOUS
    <3>1. t.spawns[d].child = b <=> t.rec[b].spawn = d
      BY <1>1 DEF Paired
    <3>2. None # b /\ None # d
      BY NamesAssumption
    <3>3. CASE b = a /\ d = c
      BY <1>2, <1>3, <3>3
    <3>4. CASE b = a /\ d # c
      BY <1>0, <1>2, <1>3, <3>1, <3>2, <3>4
    <3>5. CASE b # a /\ d = c
      BY <1>0, <1>2, <1>3, <3>1, <3>2, <3>5
    <3>6. CASE b # a /\ d # c
      BY <1>3, <3>1, <3>6
    <3>. QED
      BY <3>3, <3>4, <3>5, <3>6
  <2>2. \A d \in Agent : u.spawns[d].child # None => u.spawns[d].made
    BY <1>0, <1>1, <1>3 DEF Paired
  <2>. QED
    BY <2>1, <2>2 DEF Paired
<1>7. WaitingAre(u, out \ {c})
  <2>1. \A d \in Agent : d # c => (u.spawns[d].made <=> t.spawns[d].made) /\ u.spawns[d].child = t.spawns[d].child
    BY <1>3
  <2>. QED
    BY <1>0, <1>1, <1>3, <1>4, <2>1, NamesAssumption DEF WaitingAre
<1>8. SureIsTrue(u)
  <2>0. ~t.rec[a].sure /\ ~t.spawns[c].sure
    BY <1>0, <1>1, NamesAssumption DEF SureIsTrue
  <2>1. \A b \in Agent : u.rec[b].sure =>
          u.rec[b].spawn = b /\ u.rec[b].parent = agents[b].caller /\ u.spawns[b].sure
    <3>. SUFFICES ASSUME NEW b \in Agent, u.rec[b].sure
                  PROVE  u.rec[b].spawn = b /\ u.rec[b].parent = agents[b].caller /\ u.spawns[b].sure
      OBVIOUS
    <3>1. CASE b = a
      BY <1>0, <1>1, <1>2, <1>3, <3>1 DEF MadeWas
    <3>2. CASE b # a
      <4>1. u.rec[b] = t.rec[b]
        BY <1>3, <3>2
      <4>2. t.rec[b].spawn = b /\ t.rec[b].parent = agents[b].caller /\ t.spawns[b].sure
        BY <1>1, <4>1 DEF SureIsTrue
      <4>3. b # c
        BY <2>0, <4>2
      <4>. QED
        BY <1>3, <4>1, <4>2, <4>3
    <3>. QED
      BY <3>1, <3>2
  <2>2. \A d \in Agent : u.spawns[d].sure => u.spawns[d].child = d /\ u.rec[d].sure
    <3>. SUFFICES ASSUME NEW d \in Agent, u.spawns[d].sure PROVE u.spawns[d].child = d /\ u.rec[d].sure
      OBVIOUS
    <3>1. CASE d = c
      BY <1>0, <1>2, <1>3, <3>1
    <3>2. CASE d # c
      <4>1. u.spawns[d] = t.spawns[d]
        BY <1>3, <3>2
      <4>2. t.spawns[d].child = d /\ t.rec[d].sure
        BY <1>1, <4>1 DEF SureIsTrue
      <4>3. d # a
        BY <2>0, <4>2
      <4>. QED
        BY <1>3, <4>1, <4>2, <4>3
    <3>. QED
      BY <3>1, <3>2
  <2>. QED
    BY <2>1, <2>2 DEF SureIsTrue
<1>9. MadeWas(u)
  BY <1>1, <1>3 DEF MadeWas
<1>10. Keeps(t, u)
  <2>0. ~t.rec[a].sure /\ ~t.spawns[c].sure
    BY <1>0, <1>1, NamesAssumption DEF SureIsTrue
  <2>. SUFFICES ASSUME NEW b \in Agent
                PROVE  /\ t.rec[b].known => u.rec[b].known
                       /\ t.rec[b].sure => u.rec[b].sure
                       /\ t.spawns[b].sure => u.spawns[b].sure
                       /\ u.spawns[b].made <=> t.spawns[b].made
                       /\ u.rec[b].finished = t.rec[b].finished /\ u.rec[b].resumed = t.rec[b].resumed
    BY DEF Keeps
  <2>1. b # a => u.rec[b] = t.rec[b]
    BY <1>3
  <2>2. b # c => u.spawns[b] = t.spawns[b]
    BY <1>3
  <2>. QED
    BY <1>2, <1>3, <2>0, <2>1, <2>2
<1>. QED
  BY <1>2, <1>3, <1>5, <1>6, <1>7, <1>8, <1>9, <1>10 DEF SoundBut

\* Of some times one is earliest.
LEMMA EarliestIs ==
    ASSUME NEW S, S \subseteq Nat, S # {}
    PROVE  \E n \in S : \A k \in S : n <= k
<1>1. IsWellFoundedOn(OpToRel(<, Nat), Nat)
  BY NatLessThanWellFounded
<1>2. PICK n \in S : \A k \in S : ~(<<k, n>> \in OpToRel(<, Nat))
  BY <1>1, WFMin, Zenon
<1>3. \A k \in S : ~(k < n)
  BY <1>2 DEF OpToRel
<1>. QED
  BY <1>3

\* A call is made by whichever of its hooks comes first.
LEMMA MadeKeeps ==
    ASSUME NEW t, SoundBut(t, {}), NEW c, NEW p \in Agent \cup {Root}, Was(c, p), NEW u, u = Made(t, c, p),
           NEW out, out = IF t.spawns[c].made THEN {} ELSE {c}
    PROVE  /\ SoundBut(u, out)
           /\ \A b \in Agent : u.rec[b] = t.rec[b]
           /\ u.spawns[c].made /\ u.spawns[c].caller = p
           /\ u.spawns[c].child = t.spawns[c].child
           /\ \A d \in Agent : /\ u.spawns[d].sure <=> t.spawns[d].sure
                               /\ u.spawns[d].made <=> t.spawns[d].made \/ d = c
<1>0. c \in Agent /\ agents[c].caller = p /\ agents[c].life # "none"
  BY DEF Was
<1>1. /\ t \in [rec : [Agent -> Records], spawns : [Agent -> CallsMade], pending : Seq(Agent)]
      /\ RecordsTell(t) /\ Paired(t) /\ WaitingAre(t, {}) /\ SureIsTrue(t) /\ MadeWas(t)
  BY DEF SoundBut, TreeTyped
<1>2. PICK s : s = [t.spawns[c] EXCEPT !.made = TRUE, !.caller = p]
  OBVIOUS
<1>3. s \in CallsMade /\ s.made /\ s.caller = p /\ s.child = t.spawns[c].child /\ (s.sure <=> t.spawns[c].sure)
  <2>1. t.spawns[c] \in CallsMade
    BY <1>0, <1>1
  <2>. QED
    BY <1>2, <2>1 DEF CallsMade
<1>4. u = [t EXCEPT !.spawns = [t.spawns EXCEPT ![c] = s]]
  BY <1>2 DEF Made
<1>5. /\ u \in [rec : [Agent -> Records], spawns : [Agent -> CallsMade], pending : Seq(Agent)]
      /\ u.rec = t.rec /\ u.pending = t.pending
  BY <1>0, <1>1, <1>3, <1>4
<1>6. u.spawns[c] = s /\ \A d \in Agent : d # c => u.spawns[d] = t.spawns[d]
  BY <1>0, <1>1, <1>4
<1>7. /\ u.spawns[c].made /\ u.spawns[c].caller = p /\ u.spawns[c].child = t.spawns[c].child
      /\ \A d \in Agent : /\ u.spawns[d].sure <=> t.spawns[d].sure
                          /\ u.spawns[d].made <=> t.spawns[d].made \/ d = c
                          /\ u.spawns[d].child = t.spawns[d].child
                          /\ d # c => u.spawns[d].caller = t.spawns[d].caller
  BY <1>3, <1>6
<1>8. RecordsTell(u) /\ SureIsTrue(u)
  BY <1>1, <1>5, <1>7 DEF RecordsTell, SureIsTrue
<1>9. Paired(u)
  BY <1>1, <1>5, <1>7 DEF Paired
<1>10. MadeWas(u)
  BY <1>0, <1>1, <1>7 DEF MadeWas
<1>11. WaitingAre(u, out)
  <2>1. ~t.spawns[c].made => ~Queued(t.pending, c)
    BY <1>0, <1>1 DEF WaitingAre
  <2>2. CASE t.spawns[c].made
    BY <1>1, <1>5, <1>7, <2>2 DEF WaitingAre
  <2>3. CASE ~t.spawns[c].made
    BY <1>1, <1>5, <1>7, <2>1, <2>3 DEF WaitingAre
  <2>. QED
    BY <2>2, <2>3
<1>. QED
  BY <1>5, <1>7, <1>8, <1>9, <1>10, <1>11 DEF SoundBut, TreeTyped

\* A call made that has no child is put where it waits.
LEMMA WaitsKeep ==
    ASSUME NEW t, NEW c, c \in Agent, SoundBut(t, {c}), t.spawns[c].made, t.spawns[c].child = None,
           NEW u, u = [t EXCEPT !.pending = Append(t.pending, c)]
    PROVE  /\ SoundBut(u, {}) /\ Keeps(t, u) /\ u.spawns = t.spawns /\ u.rec = t.rec
<1>1. /\ t \in [rec : [Agent -> Records], spawns : [Agent -> CallsMade], pending : Seq(Agent)]
      /\ RecordsTell(t) /\ Paired(t) /\ WaitingAre(t, {c}) /\ SureIsTrue(t) /\ MadeWas(t)
  BY DEF SoundBut, TreeTyped
<1>2. PICK w : w = Append(t.pending, c)
  OBVIOUS
<1>3. PICK s : s = t.pending
  OBVIOUS
<1>4. /\ s \in Seq(Agent) /\ w \in Seq(Agent) /\ Len(w) = Len(s) + 1 /\ Len(s) \in Nat
      /\ \A i \in 1..Len(s) : w[i] = s[i]
      /\ w[Len(s) + 1] = c /\ DOMAIN s = 1..Len(s) /\ DOMAIN w = 1..(Len(s) + 1)
  BY <1>1, <1>2, <1>3
<1>5. /\ u \in [rec : [Agent -> Records], spawns : [Agent -> CallsMade], pending : Seq(Agent)]
      /\ u.rec = t.rec /\ u.spawns = t.spawns /\ u.pending = w
  BY <1>1, <1>2, <1>4
<1>6. ~Queued(s, c) /\ Once(s)
  BY <1>1, <1>3 DEF WaitingAre
<1>7. Once(w)
  <2>. SUFFICES ASSUME NEW i \in 1..(Len(s) + 1), NEW j \in 1..(Len(s) + 1), w[i] = w[j] PROVE i = j
    BY <1>4 DEF Once
  <2>1. CASE i \in 1..Len(s) /\ j \in 1..Len(s)
    BY <1>4, <1>6, <2>1 DEF Once
  <2>2. CASE i \in 1..Len(s) /\ j = Len(s) + 1
    BY <1>4, <1>6, <2>2 DEF Queued
  <2>3. CASE j \in 1..Len(s) /\ i = Len(s) + 1
    BY <1>4, <1>6, <2>3 DEF Queued
  <2>. QED
    BY <1>4, <2>1, <2>2, <2>3
<1>8. \A d : Queued(w, d) <=> Queued(s, d) \/ d = c
  <2>. SUFFICES ASSUME NEW d PROVE Queued(w, d) <=> Queued(s, d) \/ d = c
    OBVIOUS
  <2>1. Queued(s, d) => Queued(w, d)
    BY <1>4 DEF Queued
  <2>2. d = c => Queued(w, d)
    <3>1. Len(s) + 1 \in DOMAIN w
      BY <1>4
    <3>. QED
      BY <1>4, <3>1 DEF Queued
  <2>3. Queued(w, d) => Queued(s, d) \/ d = c
    <3>1. \A i \in 1..(Len(s) + 1) : i \in 1..Len(s) \/ i = Len(s) + 1
      BY <1>4
    <3>. QED
      BY <1>4, <3>1 DEF Queued
  <2>. QED
    BY <2>1, <2>2, <2>3
<1>9. WaitingAre(u, {})
  BY <1>1, <1>3, <1>5, <1>7, <1>8 DEF WaitingAre
<1>10. RecordsTell(u) /\ SureIsTrue(u) /\ Paired(u) /\ MadeWas(u)
  BY <1>1, <1>5 DEF RecordsTell, SureIsTrue, Paired, MadeWas
<1>11. Keeps(t, u)
  BY <1>5 DEF Keeps
<1>. QED
  BY <1>5, <1>9, <1>10, <1>11 DEF SoundBut, TreeTyped

LEMMA QueueKeeps ==
    ASSUME NEW t, NEW c, c \in Agent, SoundBut(t, {c}), t.spawns[c].made, t.spawns[c].child = None,
           NEW u, u = Queue(t, c)
    PROVE  SoundBut(u, {}) /\ Keeps(t, u)
<1>1. PICK free : free = {a \in Agent : /\ t.rec[a].known /\ t.rec[a].live /\ t.rec[a].spawn = None
                                        /\ ~t.rec[a].placed
                                        /\ a # t.spawns[c].caller /\ TypeOf(a) = TypeOf(c)}
  OBVIOUS
<1>2. CASE free = {}
  BY <1>1, <1>2, WaitsKeep DEF Queue
<1>3. CASE free # {}
  <2>1. PICK a : a = CHOOSE b \in free : \A d \in free : t.rec[b].since <= t.rec[d].since
    OBVIOUS
  <2>2. \A b \in free : b \in Agent /\ t.rec[b].since \in Nat
    BY <1>1, HooksAssumption, RecordOf DEF Records, Time
  <2>3. \E b \in free : \A d \in free : t.rec[b].since <= t.rec[d].since
    <3>1. PICK S : S = {t.rec[b].since : b \in free}
      OBVIOUS
    <3>2. S \subseteq Nat /\ S # {}
      BY <1>3, <2>2, <3>1
    <3>3. PICK n \in S : \A k \in S : n <= k
      BY <3>2, EarliestIs
    <3>. QED
      BY <3>1, <3>3
  <2>4. a \in free
    BY <2>1, <2>3
  <2>5. PICK sure : sure = FALSE
    OBVIOUS
  <2>6. Binds(t, a, c, sure, u)
    BY <1>1, <1>3, <2>1, <2>5 DEF Queue, Binds
  <2>7. PICK out : out = {c}
    OBVIOUS
  <2>8. SoundBut(t, out) /\ BindFits(t, out, a, c, sure)
    BY <1>1, <2>4, <2>5, <2>7 DEF BindFits
  <2>9. SoundBut(u, out \ {c}) /\ Keeps(t, u)
    BY <2>6, <2>8, BindKeeps
  <2>10. out \ {c} = {}
    BY <2>7
  <2>. QED
    BY <2>9, <2>10
<1>. QED
  BY <1>2, <1>3

\* The oldest call of a type, if one waits.
LEMMA FirstFits ==
    ASSUME NEW t, NEW out, SoundBut(t, out), NEW a \in Agent,
           NEW c, c = First(t.pending, LAMBDA d : TypeOf(d) = TypeOf(a)), c # None
    PROVE  c \in Agent /\ Queued(t.pending, c)
<1>1. t.pending \in Seq(Agent)
  BY DEF SoundBut, TreeTyped
<1>2. PICK s : s = t.pending
  OBVIOUS
<1>3. PICK fits : fits = {i \in DOMAIN s : TypeOf(s[i]) = TypeOf(a)}
  OBVIOUS
<1>4. c = IF fits = {} THEN None ELSE s[CHOOSE i \in fits : \A j \in fits : i <= j]
  BY <1>2, <1>3 DEF First
<1>5. fits # {} /\ fits \subseteq Nat /\ fits \subseteq DOMAIN s /\ \A i \in DOMAIN s : s[i] \in Agent
  BY <1>1, <1>2, <1>3, <1>4
<1>6. PICK k : k = CHOOSE i \in fits : \A j \in fits : i <= j
  OBVIOUS
<1>7. k \in fits
  BY <1>5, <1>6, EarliestIs
<1>8. c = s[k]
  BY <1>4, <1>5, <1>6
<1>. QED
  BY <1>2, <1>5, <1>7, <1>8 DEF Queued

LEMMA MatchKeeps ==
    ASSUME NEW t, NEW out, SoundBut(t, out), NEW a, a \in Agent, t.rec[a].known, t.rec[a].spawn = None,
           NEW u, u = Match(t, a)
    PROVE  /\ SoundBut(u, out) /\ Keeps(t, u)
           /\ \A d \in Agent : d \in out => u.spawns[d].child = t.spawns[d].child
<1>1. PICK c : c = First(t.pending, LAMBDA d : TypeOf(d) = TypeOf(a))
  OBVIOUS
<1>2. CASE c # None
  <2>1. c \in Agent /\ Queued(t.pending, c)
    BY <1>1, <1>2, FirstFits
  <2>2. t.spawns[c].made /\ t.spawns[c].child = None /\ c \notin out
    BY <2>1 DEF SoundBut, WaitingAre
  <2>3. PICK sure : sure = FALSE
    OBVIOUS
  <2>4. Binds(t, a, c, sure, u)
    BY <1>1, <1>2, <2>3 DEF Match, Binds
  <2>5. BindFits(t, out, a, c, sure)
    BY <2>1, <2>2, <2>3 DEF BindFits
  <2>6. SoundBut(u, out \ {c}) /\ Keeps(t, u)
    BY <2>4, <2>5, BindKeeps
  <2>8. \A d \in Agent : d # c => u.spawns[d].child = t.spawns[d].child
    <3>1. TreeTyped(t) /\ Once(t.pending) /\ sure \in BOOLEAN
      BY <2>3 DEF SoundBut, WaitingAre
    <3>. QED
      BY <2>1, <2>4, <3>1, BindIs
  <2>7. out \ {c} = out
    BY <2>2
  <2>. QED
    BY <2>2, <2>6, <2>7, <2>8
<1>3. CASE c = None
  <2>1. PICK r : r = [t.rec[a] EXCEPT !.parent = Root, !.placed = FALSE]
    OBVIOUS
  <2>2. u = [t EXCEPT !.rec[a] = r]
    BY <1>1, <1>3, <2>1 DEF Match
  <2>3. t.rec[a] \in Records /\ (t.rec[a].live <=> t.rec[a].finished = 0)
    BY RecordOf
  <2>4. /\ r \in Records /\ r.spawn = t.rec[a].spawn /\ (r.sure <=> t.rec[a].sure)
        /\ (r.known <=> t.rec[a].known) /\ (r.live <=> t.rec[a].live)
        /\ r.finished = t.rec[a].finished /\ r.resumed = t.rec[a].resumed
    BY <2>1, <2>3 DEF Records
  <2>5. ~t.rec[a].sure
    BY NamesAssumption DEF SoundBut, SureIsTrue
  <2>6. RecordFits(t, a, r) /\ Turns(t, a, r, u)
    BY <2>2, <2>3, <2>4, <2>5 DEF RecordFits, Turns
  <2>7. /\ SoundBut(u, out) /\ u.spawns = t.spawns
        /\ u.rec[a] = r /\ \A b \in Agent : b # a => u.rec[b] = t.rec[b]
    BY <2>6, RecordKeeps
  <2>. QED
    BY <2>4, <2>7 DEF Keeps
<1>. QED
  BY <1>2, <1>3

LEMMA MatchUnplacedKeeps ==
    ASSUME NEW t, SoundBut(t, {}), NEW a, a \in Agent, t.rec[a].known, NEW u, u = MatchUnplaced(t, a)
    PROVE  SoundBut(u, {}) /\ Keeps(t, u)
<1>1. CASE t.rec[a].spawn = None
  <2>1. u = Match(t, a)
    BY <1>1 DEF MatchUnplaced
  <2>2. PICK out : out = {}
    OBVIOUS
  <2>3. SoundBut(u, out) /\ Keeps(t, u)
    BY <1>1, <2>1, <2>2, MatchKeeps
  <2>. QED
    BY <2>2, <2>3
<1>2. CASE t.rec[a].spawn # None
  BY <1>2 DEF MatchUnplaced, Keeps
<1>. QED
  BY <1>1, <1>2

\* A pair made sure, with the call its agent had and the agent its call had set loose.
Freed(t, a) == {d \in Agent : d = t.rec[a].spawn /\ d # a}
Looses(t, a, w) ==
    /\ TreeTyped(w) /\ Once(w.pending) /\ \A d : Queued(w.pending, d) <=> Queued(t.pending, d) /\ d # a
    /\ w.rec[a].spawn = a /\ w.rec[a].sure /\ w.rec[a].parent = t.spawns[a].caller
    /\ \A b \in Agent :
          /\ (w.rec[b].known <=> t.rec[b].known) /\ (w.rec[b].live <=> t.rec[b].live)
          /\ w.rec[b].finished = t.rec[b].finished /\ w.rec[b].resumed = t.rec[b].resumed
          /\ b # a => /\ (w.rec[b].sure <=> t.rec[b].sure) /\ w.rec[b].parent = t.rec[b].parent
                      /\ w.rec[b].spawn = IF b = t.spawns[a].child THEN None ELSE t.rec[b].spawn
    /\ w.spawns[a].child = a /\ w.spawns[a].sure
    /\ \A d \in Agent :
          /\ (w.spawns[d].made <=> t.spawns[d].made) /\ w.spawns[d].caller = t.spawns[d].caller
          /\ d # a => /\ (w.spawns[d].sure <=> t.spawns[d].sure)
                      /\ w.spawns[d].child = IF d = t.rec[a].spawn THEN None ELSE t.spawns[d].child

LEMMA LooseKeeps ==
    ASSUME NEW t, NEW late, SoundBut(t, late), NEW a, a \in Agent, late \subseteq {a}, t.rec[a].known, t.spawns[a].made, ~t.rec[a].sure,
           NEW w, Looses(t, a, w)
    PROVE  SoundBut(w, Freed(t, a)) /\ Keeps(t, w)
<1>1. /\ TreeTyped(t) /\ RecordsTell(t) /\ Paired(t) /\ WaitingAre(t, late) /\ SureIsTrue(t) /\ MadeWas(t)
  BY DEF SoundBut
<1>2. /\ TreeTyped(w) /\ Once(w.pending) /\ \A d : Queued(w.pending, d) <=> Queued(t.pending, d) /\ d # a
      /\ w.rec[a].spawn = a /\ w.rec[a].sure /\ w.rec[a].parent = t.spawns[a].caller
      /\ w.spawns[a].child = a /\ w.spawns[a].sure
  BY DEF Looses
<1>3. \A b \in Agent :
          /\ (w.rec[b].known <=> t.rec[b].known) /\ (w.rec[b].live <=> t.rec[b].live)
          /\ w.rec[b].finished = t.rec[b].finished /\ w.rec[b].resumed = t.rec[b].resumed
          /\ b # a => /\ (w.rec[b].sure <=> t.rec[b].sure) /\ w.rec[b].parent = t.rec[b].parent
                      /\ w.rec[b].spawn = IF b = t.spawns[a].child THEN None ELSE t.rec[b].spawn
  BY DEF Looses
<1>4. \A d \in Agent :
          /\ (w.spawns[d].made <=> t.spawns[d].made) /\ w.spawns[d].caller = t.spawns[d].caller
          /\ d # a => /\ (w.spawns[d].sure <=> t.spawns[d].sure)
                      /\ w.spawns[d].child = IF d = t.rec[a].spawn THEN None ELSE t.spawns[d].child
  BY DEF Looses
<1>5. \A b, d \in Agent : t.spawns[d].child = b <=> t.rec[b].spawn = d
  BY <1>1 DEF Paired
<1>6. None \notin Agent
  BY NamesAssumption
<1>7. RecordsTell(w)
  <2>. SUFFICES ASSUME NEW b \in Agent
                PROVE  IF w.rec[b].known THEN w.rec[b].live <=> w.rec[b].finished = 0
                       ELSE /\ ~w.rec[b].live /\ w.rec[b].finished = 0 /\ w.rec[b].resumed = 0
                            /\ w.rec[b].spawn = None /\ ~w.rec[b].sure
    BY DEF RecordsTell
  <2>1. CASE b = a
    BY <1>1, <1>3, <2>1 DEF RecordsTell
  <2>2. CASE b # a
    BY <1>1, <1>3, <2>2 DEF RecordsTell
  <2>. QED
    BY <2>1, <2>2
<1>8. Paired(w)
  <2>1. ASSUME NEW b \in Agent, NEW d \in Agent PROVE w.spawns[d].child = b <=> w.rec[b].spawn = d
    <3>1. CASE d = a /\ b = a
      BY <1>2, <3>1
    <3>2. CASE d = a /\ b # a
      BY <1>2, <1>3, <1>5, <1>6, <3>2
    <3>3. CASE d # a /\ b = a
      BY <1>2, <1>4, <1>5, <1>6, <3>3
    <3>4. CASE d # a /\ b # a
      BY <1>3, <1>4, <1>5, <1>6, <3>4
    <3>. QED
      BY <3>1, <3>2, <3>3, <3>4
  <2>2. \A d \in Agent : w.spawns[d].child # None => w.spawns[d].made
    BY <1>1, <1>4 DEF Paired
  <2>. QED
    BY <2>1, <2>2 DEF Paired
<1>9. WaitingAre(w, Freed(t, a))
  <2>. SUFFICES ASSUME NEW d \in Agent
                PROVE  Queued(w.pending, d) <=> w.spawns[d].made /\ w.spawns[d].child = None /\ d \notin Freed(t, a)
    BY <1>2 DEF WaitingAre
  <2>1. d # a => (Queued(t.pending, d) <=> t.spawns[d].made /\ t.spawns[d].child = None)
    BY <1>1 DEF WaitingAre
  <2>2. CASE d = a
    BY <1>2, <1>6, <2>2
  <2>3. CASE d # a /\ d = t.rec[a].spawn
    <3>1. t.spawns[d].child = a
      BY <1>5, <2>3
    <3>. QED
      BY <1>2, <1>6, <2>1, <2>3, <3>1 DEF Freed
  <2>4. CASE d # a /\ d # t.rec[a].spawn
    BY <1>2, <1>4, <2>1, <2>4 DEF Freed
  <2>. QED
    BY <2>2, <2>3, <2>4
<1>10. SureIsTrue(w)
  <2>1. ASSUME NEW b \in Agent, w.rec[b].sure
        PROVE  w.rec[b].spawn = b /\ w.rec[b].parent = agents[b].caller /\ w.spawns[b].sure
    <3>1. CASE b = a
      BY <1>1, <1>2, <3>1 DEF MadeWas
    <3>2. CASE b # a
      <4>1. t.rec[b].spawn = b /\ t.rec[b].parent = agents[b].caller /\ t.spawns[b].sure /\ t.spawns[b].child = b
        BY <1>1, <1>3, <2>1, <3>2 DEF SureIsTrue
      <4>2. b # t.spawns[a].child /\ b # t.rec[a].spawn
        BY <1>5, <3>2, <4>1
      <4>. QED
        BY <1>3, <1>4, <3>2, <4>1, <4>2
    <3>. QED
      BY <3>1, <3>2
  <2>2. ASSUME NEW d \in Agent, w.spawns[d].sure PROVE w.spawns[d].child = d /\ w.rec[d].sure
    <3>1. CASE d = a
      BY <1>2, <3>1
    <3>2. CASE d # a
      <4>1. t.spawns[d].child = d /\ t.rec[d].sure
        BY <1>1, <1>4, <2>2, <3>2 DEF SureIsTrue
      <4>2. d # t.rec[a].spawn
        BY <1>5, <3>2, <4>1
      <4>. QED
        BY <1>3, <1>4, <3>2, <4>1, <4>2
    <3>. QED
      BY <3>1, <3>2
  <2>. QED
    BY <2>1, <2>2 DEF SureIsTrue
<1>11. MadeWas(w)
  BY <1>1, <1>4 DEF MadeWas
<1>12. Keeps(t, w)
  <2>1. ~t.spawns[a].sure
    BY <1>1 DEF SureIsTrue
  <2>. SUFFICES ASSUME NEW b \in Agent
                PROVE  /\ t.rec[b].known => w.rec[b].known
                       /\ t.rec[b].sure => w.rec[b].sure
                       /\ t.spawns[b].sure => w.spawns[b].sure
                       /\ w.spawns[b].made <=> t.spawns[b].made
                       /\ w.rec[b].finished = t.rec[b].finished /\ w.rec[b].resumed = t.rec[b].resumed
    BY DEF Keeps
  <2>2. CASE b = a
    BY <1>2, <1>3, <1>4, <2>1, <2>2
  <2>3. CASE b # a
    BY <1>3, <1>4, <2>3
  <2>. QED
    BY <2>2, <2>3
<1>. QED
  BY <1>2, <1>7, <1>8, <1>9, <1>10, <1>11, <1>12 DEF SoundBut

\* A call's own result names its child, whatever either was matched to before.
LEMMA ConfirmKeeps ==
    ASSUME NEW t, NEW late, SoundBut(t, late), NEW a \in Agent, late \subseteq {a}, t.spawns[a].made, NEW at \in Time,
           NEW u, u = Confirm(t, a, a, at)
    PROVE  /\ SoundBut(u, {}) /\ Keeps(t, u)
           /\ u.rec[a].known /\ u.rec[a].sure /\ u.spawns[a].sure
<1>1. PICK k : k = Known(t, a, at)
  OBVIOUS
<1>2. SoundBut(k, late) /\ Keeps(t, k) /\ k.rec[a].known /\ k.spawns[a].made
  <2>1. a \in Agent \cup {Root}
    OBVIOUS
  <2>2. SoundBut(k, late) /\ Keeps(t, k) /\ k.rec[a].known /\ k.spawns = t.spawns
    BY <1>1, <2>1, KnownKeeps
  <2>. QED
    BY <2>2
<1>3. PICK old : old = k.rec[a].spawn
  OBVIOUS
<1>4. PICK other : other = k.spawns[a].child
  OBVIOUS
<1>5. /\ TreeTyped(k) /\ Paired(k) /\ SureIsTrue(k) /\ RecordsTell(k) /\ Once(k.pending) /\ k.pending \in Seq(Agent)
      /\ k.rec \in [Agent -> Records] /\ k.spawns \in [Agent -> CallsMade]
  BY <1>2 DEF SoundBut, WaitingAre, TreeTyped
<1>6. k.rec[a] \in Records /\ k.spawns[a] \in CallsMade
  BY <1>5
<1>7. old \in Agent \cup {None} /\ other \in Agent \cup {None}
  BY <1>3, <1>4, <1>6 DEF Records, CallsMade
<1>8. CASE k.rec[a].sure
  <2>1. old = a /\ k.spawns[a].sure
    BY <1>3, <1>5, <1>8 DEF SureIsTrue
  <2>2. u = k
    BY <1>1, <1>3, <1>8, <2>1 DEF Confirm
  <2>3. WaitingAre(k, {})
    <3>1. k.spawns[a].child # None /\ \A d \in late : d = a
      BY <1>5, <2>1, NamesAssumption DEF SureIsTrue
    <3>2. WaitingAre(k, late)
      BY <1>2 DEF SoundBut
    <3>. QED
      BY <3>1, <3>2 DEF WaitingAre
  <2>4. SoundBut(k, {})
    BY <1>2, <2>3 DEF SoundBut
  <2>. QED
    BY <1>2, <1>8, <2>1, <2>2, <2>4
<1>9. CASE ~k.rec[a].sure
  <2>1. old \notin {None, a} => ~k.spawns[old].sure /\ old \in Agent /\ k.spawns[old].child = a
    BY <1>3, <1>5, <1>7 DEF Paired, SureIsTrue
  <2>2. other \notin {None, a} => ~k.rec[other].sure /\ other \in Agent /\ k.rec[other].spawn = a /\ k.rec[other].known
    BY <1>4, <1>5, <1>7, NamesAssumption DEF Paired, SureIsTrue, RecordsTell
  <2>3. PICK freed : freed = IF old \notin {None, a} THEN [k EXCEPT !.spawns[old].child = None] ELSE k
    OBVIOUS
  <2>4. /\ TreeTyped(freed) /\ freed.rec = k.rec /\ freed.pending = k.pending
        /\ \A d \in Agent :
              /\ (freed.spawns[d].made <=> k.spawns[d].made) /\ freed.spawns[d].caller = k.spawns[d].caller
              /\ (freed.spawns[d].sure <=> k.spawns[d].sure)
              /\ d # a => freed.spawns[d].child = IF d = old THEN None ELSE k.spawns[d].child
    <3>1. CASE old \notin {None, a}
      <4>1. PICK s : s = [k.spawns[old] EXCEPT !.child = None]
        OBVIOUS
      <4>2. k.spawns[old] \in CallsMade /\ old \in Agent
        BY <1>5, <2>1, <3>1
      <4>3. /\ s \in CallsMade /\ s.child = None /\ (s.made <=> k.spawns[old].made)
            /\ s.caller = k.spawns[old].caller /\ (s.sure <=> k.spawns[old].sure)
        BY <4>1, <4>2 DEF CallsMade
      <4>4. k \in [rec : [Agent -> Records], spawns : [Agent -> CallsMade], pending : Seq(Agent)]
        BY <1>5 DEF TreeTyped
      <4>5. freed = [k EXCEPT !.spawns = [k.spawns EXCEPT ![old] = s]]
        BY <2>3, <3>1, <4>1
      <4>6. /\ freed \in [rec : [Agent -> Records], spawns : [Agent -> CallsMade], pending : Seq(Agent)]
            /\ freed.rec = k.rec /\ freed.pending = k.pending
        BY <4>2, <4>3, <4>4, <4>5
      <4>7. freed.spawns[old] = s /\ \A d \in Agent : d # old => freed.spawns[d] = k.spawns[d]
        BY <4>2, <4>4, <4>5
      <4>. QED
        BY <4>3, <4>6, <4>7 DEF TreeTyped
    <3>2. CASE old \in {None, a}
      <4>1. freed = k /\ \A d \in Agent : d # a => d # old
        BY <2>3, <3>2, NamesAssumption
      <4>. QED
        BY <1>5, <4>1
    <3>. QED
      BY <3>1, <3>2
  <2>5. PICK yes : yes = TRUE
    OBVIOUS
  <2>6. PICK bound : Binds(freed, a, a, yes, bound)
    BY DEF Binds
  <2>a. TreeTyped(freed) /\ Once(freed.pending) /\ yes \in BOOLEAN
    BY <1>5, <2>4, <2>5
  <2>b. bound.rec[a].sure = yes /\ bound.spawns[a].sure = yes
    BY <2>6, <2>a, BindIs
  <2>7. /\ TreeTyped(bound)
        /\ bound.rec[a].spawn = a /\ bound.rec[a].sure /\ bound.rec[a].parent = freed.spawns[a].caller
        /\ (bound.rec[a].known <=> freed.rec[a].known) /\ (bound.rec[a].live <=> freed.rec[a].live)
        /\ bound.rec[a].finished = freed.rec[a].finished /\ bound.rec[a].resumed = freed.rec[a].resumed
        /\ \A b \in Agent : b # a => bound.rec[b] = freed.rec[b]
        /\ bound.spawns[a].child = a /\ bound.spawns[a].sure /\ (bound.spawns[a].made <=> freed.spawns[a].made)
        /\ bound.spawns[a].caller = freed.spawns[a].caller
        /\ \A d \in Agent : d # a => bound.spawns[d] = freed.spawns[d]
    <3>1. bound.rec[a].sure /\ bound.spawns[a].sure
      BY <2>5, <2>b
    <3>. QED
      BY <2>6, <2>a, <3>1, BindIs
  <2>8. Once(bound.pending) /\ \A d : Queued(bound.pending, d) <=> Queued(k.pending, d) /\ d # a
    <3>1. Once(bound.pending) /\ \A d : Queued(bound.pending, d) <=> Queued(freed.pending, d) /\ d # a
      BY <2>6, <2>a, BindWaits
    <3>. QED
      BY <2>4, <3>1
  <2>9. PICK w : w = IF other \notin {None, a} THEN [bound EXCEPT !.rec[other].spawn = None] ELSE bound
    OBVIOUS
  <2>10. /\ TreeTyped(w) /\ w.pending = bound.pending /\ w.spawns = bound.spawns /\ w.rec[a] = bound.rec[a]
         /\ \A b \in Agent :
               /\ (w.rec[b].known <=> bound.rec[b].known) /\ (w.rec[b].live <=> bound.rec[b].live)
               /\ w.rec[b].finished = bound.rec[b].finished /\ w.rec[b].resumed = bound.rec[b].resumed
               /\ (w.rec[b].sure <=> bound.rec[b].sure) /\ w.rec[b].parent = bound.rec[b].parent
               /\ b # a => w.rec[b].spawn = IF b = other THEN None ELSE bound.rec[b].spawn
    <3>1. CASE other \notin {None, a}
      <4>1. PICK r : r = [bound.rec[other] EXCEPT !.spawn = None]
        OBVIOUS
      <4>2. bound \in [rec : [Agent -> Records], spawns : [Agent -> CallsMade], pending : Seq(Agent)]
        BY <2>7 DEF TreeTyped
      <4>3. bound.rec[other] \in Records /\ other \in Agent /\ other # a
        BY <2>2, <3>1, <4>2
      <4>4. /\ r \in Records /\ r.spawn = None /\ (r.known <=> bound.rec[other].known)
            /\ (r.live <=> bound.rec[other].live) /\ r.finished = bound.rec[other].finished
            /\ r.resumed = bound.rec[other].resumed /\ (r.sure <=> bound.rec[other].sure)
            /\ r.parent = bound.rec[other].parent
        BY <4>1, <4>3 DEF Records
      <4>5. w = [bound EXCEPT !.rec = [bound.rec EXCEPT ![other] = r]]
        BY <2>9, <3>1, <4>1
      <4>6. /\ w \in [rec : [Agent -> Records], spawns : [Agent -> CallsMade], pending : Seq(Agent)]
            /\ w.spawns = bound.spawns /\ w.pending = bound.pending
        BY <4>2, <4>3, <4>4, <4>5
      <4>7. w.rec[other] = r /\ \A b \in Agent : b # other => w.rec[b] = bound.rec[b]
        BY <4>2, <4>3, <4>5
      <4>. QED
        BY <4>3, <4>4, <4>6, <4>7 DEF TreeTyped
    <3>2. CASE other \in {None, a}
      <4>1. w = bound /\ \A b \in Agent : b # a => b # other
        BY <2>9, <3>2, NamesAssumption
      <4>. QED
        BY <2>7, <4>1
    <3>. QED
      BY <3>1, <3>2
  <2>11. Looses(k, a, w)
    <3>1. \A b \in Agent :
          /\ (w.rec[b].known <=> k.rec[b].known) /\ (w.rec[b].live <=> k.rec[b].live)
          /\ w.rec[b].finished = k.rec[b].finished /\ w.rec[b].resumed = k.rec[b].resumed
          /\ b # a => /\ (w.rec[b].sure <=> k.rec[b].sure) /\ w.rec[b].parent = k.rec[b].parent
                      /\ w.rec[b].spawn = IF b = k.spawns[a].child THEN None ELSE k.rec[b].spawn
      <4>. SUFFICES ASSUME NEW b \in Agent
           PROVE  /\ (w.rec[b].known <=> k.rec[b].known) /\ (w.rec[b].live <=> k.rec[b].live)
                  /\ w.rec[b].finished = k.rec[b].finished /\ w.rec[b].resumed = k.rec[b].resumed
                  /\ b # a => /\ (w.rec[b].sure <=> k.rec[b].sure) /\ w.rec[b].parent = k.rec[b].parent
                              /\ w.rec[b].spawn = IF b = k.spawns[a].child THEN None ELSE k.rec[b].spawn
        OBVIOUS
      <4>1. CASE b = a
        BY <2>4, <2>7, <2>10, <4>1
      <4>2. CASE b # a
        <5>1. bound.rec[b] = k.rec[b]
          BY <2>4, <2>7, <4>2
        <5>. QED
          BY <1>4, <2>10, <4>2, <5>1
      <4>. QED
        BY <4>1, <4>2
    <3>2. \A d \in Agent :
          /\ (w.spawns[d].made <=> k.spawns[d].made) /\ w.spawns[d].caller = k.spawns[d].caller
          /\ d # a => /\ (w.spawns[d].sure <=> k.spawns[d].sure)
                      /\ w.spawns[d].child = IF d = k.rec[a].spawn THEN None ELSE k.spawns[d].child
      <4>. SUFFICES ASSUME NEW d \in Agent
           PROVE  /\ (w.spawns[d].made <=> k.spawns[d].made) /\ w.spawns[d].caller = k.spawns[d].caller
                  /\ d # a => /\ (w.spawns[d].sure <=> k.spawns[d].sure)
                              /\ w.spawns[d].child = IF d = k.rec[a].spawn THEN None ELSE k.spawns[d].child
        OBVIOUS
      <4>1. CASE d = a
        BY <2>4, <2>7, <2>10, <4>1
      <4>2. CASE d # a
        <5>1. w.spawns[d] = freed.spawns[d]
          BY <2>7, <2>10, <4>2
        <5>. QED
          BY <1>3, <2>4, <4>2, <5>1
      <4>. QED
        BY <4>1, <4>2
    <3>. QED
      BY <2>4, <2>7, <2>8, <2>10, <3>1, <3>2 DEF Looses
  <2>12. PICK out : out = Freed(k, a)
    OBVIOUS
  <2>13. SoundBut(w, out) /\ Keeps(k, w)
    BY <1>2, <1>9, <2>11, <2>12, LooseKeeps
  <2>14. out = IF old \notin {None, a} THEN {old} ELSE {}
    BY <1>3, <1>7, <2>12, NamesAssumption DEF Freed
  <2>15. w.rec[a].sure /\ w.spawns[a].sure /\ w.rec[a].known
    BY <1>2, <2>11 DEF Looses
  <2>16. old \notin {None, a} => w.spawns[old].child = None /\ w.spawns[old].made
    <3>1. old \notin {None, a} => k.spawns[old].made
      BY <1>5, <2>1, NamesAssumption DEF Paired
    <3>. QED
      BY <1>3, <2>1, <2>11, <3>1 DEF Looses
  <2>17. other \notin {None, a} => w.rec[other].spawn = None /\ w.rec[other].known
    BY <1>4, <2>2, <2>11 DEF Looses
  <2>18. ASSUME NEW x, Keeps(w, x)
         PROVE  Keeps(t, x) /\ x.rec[a].known /\ x.rec[a].sure /\ x.spawns[a].sure
    <3>1. Keeps(k, x)
      BY <2>13, <2>18, KeepsOn
    <3>2. Keeps(t, x)
      BY <1>2, <3>1, KeepsOn
    <3>. QED
      BY <2>15, <2>18, <3>2 DEF Keeps
  <2>19. CASE old \notin {None, a} /\ other \notin {None, a} /\ TypeOf(old) = TypeOf(other)
    <3>1. PICK no : no = FALSE
      OBVIOUS
    <3>2. u = Bind(w, other, old, FALSE)
      BY <1>1, <1>3, <1>4, <1>9, <2>1, <2>2, <2>3, <2>5, <2>6, <2>9, <2>19 DEF Confirm, Binds
    <3>3. Binds(w, other, old, no, u) /\ BindFits(w, out, other, old, no)
      BY <2>1, <2>2, <2>16, <2>17, <2>19, <3>1, <3>2 DEF Binds, BindFits
    <3>4. SoundBut(u, out \ {old}) /\ Keeps(w, u)
      BY <2>13, <3>3, BindKeeps
    <3>5. out \ {old} = {}
      BY <2>14, <2>19
    <3>. QED
      BY <2>18, <3>4, <3>5
  <2>20. CASE ~(old \notin {None, a} /\ other \notin {None, a} /\ TypeOf(old) = TypeOf(other))
    <3>1. PICK placed : placed = IF other \notin {None, a} THEN Match(w, other) ELSE w
      OBVIOUS
    <3>2. /\ SoundBut(placed, out) /\ Keeps(w, placed)
          /\ \A d \in Agent : d \in out => placed.spawns[d].child = w.spawns[d].child
      <4>1. CASE other \notin {None, a}
        <5>1. placed = Match(w, other) /\ other \in Agent
          BY <2>2, <3>1, <4>1
        <5>. QED
          BY <2>13, <2>17, <4>1, <5>1, MatchKeeps
      <4>2. CASE other \in {None, a}
        BY <2>13, <3>1, <4>2 DEF Keeps
      <4>. QED
        BY <4>1, <4>2
    <3>3. u = IF old \notin {None, a} THEN [placed EXCEPT !.pending = Append(placed.pending, old)] ELSE placed
      BY <1>1, <1>3, <1>4, <1>9, <2>1, <2>2, <2>3, <2>5, <2>6, <2>9, <2>20, <3>1 DEF Confirm, Binds
    <3>4. CASE old \notin {None, a}
      <4>1. out = {old} /\ old \in Agent
        BY <2>1, <2>14, <3>4
      <4>2. SoundBut(placed, {old}) /\ placed.spawns[old].child = None
        BY <2>16, <3>2, <3>4, <4>1
      <4>3. placed.spawns[old].made
        BY <2>16, <3>2, <3>4, <4>1 DEF Keeps
      <4>4. u = [placed EXCEPT !.pending = Append(placed.pending, old)]
        BY <3>3, <3>4
      <4>5. SoundBut(u, {}) /\ Keeps(placed, u)
        BY <4>1, <4>2, <4>3, <4>4, WaitsKeep
      <4>6. Keeps(w, u)
        BY <3>2, <4>5, KeepsOn
      <4>. QED
        BY <2>18, <4>5, <4>6
    <3>5. CASE old \in {None, a}
      <4>1. u = placed /\ out = {}
        BY <2>14, <3>3, <3>5
      <4>. QED
        BY <2>18, <3>2, <4>1
    <3>. QED
      BY <3>4, <3>5
  <2>. QED
    BY <2>19, <2>20
<1>. QED
  BY <1>8, <1>9

\* What a hook in which p acted at `at` leaves: p may be back at work.
Returns(t, u, p, at) ==
    \A b \in Agent :
        /\ t.rec[b].known => u.rec[b].known
        /\ t.rec[b].sure => u.rec[b].sure
        /\ t.spawns[b].sure => u.spawns[b].sure
        /\ u.spawns[b].made <=> t.spawns[b].made
        /\ \/ u.rec[b].finished = t.rec[b].finished /\ u.rec[b].resumed = t.rec[b].resumed
           \/ b = p /\ t.rec[b].finished # 0 /\ at > t.rec[b].finished

LEMMA ReturnsOn ==
    ASSUME NEW t, NEW u, NEW w, NEW p, NEW at, Returns(t, u, p, at), Keeps(u, w)
    PROVE  Returns(t, w, p, at)
  BY DEF Returns, Keeps

LEMMA CallerKeeps ==
    ASSUME NEW t, SoundBut(t, {}), NEW p \in Agent \cup {Root}, NEW at \in Time, NEW u, u = Caller(t, p, at)
    PROVE  SoundBut(u, {}) /\ Returns(t, u, p, at) /\ (p \in Agent => u.rec[p].known) /\ u.spawns = t.spawns
<1>1. PICK out : out = {}
  OBVIOUS
<1>2. PICK k : k = Known(t, p, at)
  OBVIOUS
<1>3. /\ SoundBut(k, out) /\ Keeps(t, k) /\ (p \in Agent => k.rec[p].known) /\ k.spawns = t.spawns
  BY <1>1, <1>2, KnownKeeps
<1>4. u = Reopen(k, p, at)
  BY <1>2 DEF Caller
<1>5. /\ SoundBut(u, out) /\ u.spawns = k.spawns
      /\ \A b \in Agent :
            /\ k.rec[b].known => u.rec[b].known
            /\ u.rec[b].spawn = k.rec[b].spawn /\ (k.rec[b].sure => u.rec[b].sure)
            /\ \/ u.rec[b].finished = k.rec[b].finished /\ u.rec[b].resumed = k.rec[b].resumed
               \/ b = p /\ k.rec[b].finished # 0 /\ at > k.rec[b].finished /\ u.rec[b].finished = 0
  BY <1>3, <1>4, ReopenKeeps
<1>6. Returns(t, u, p, at)
  BY <1>3, <1>5 DEF Returns, Keeps
<1>. QED
  BY <1>1, <1>3, <1>5, <1>6

\* A hook that ends an agent: it keeps the time it finished first, and is not live.
Ended(t, u, a, at) ==
    \A b \in Agent :
        /\ t.rec[b].known => u.rec[b].known
        /\ t.rec[b].sure => u.rec[b].sure
        /\ b # a => /\ u.rec[b].finished = t.rec[b].finished /\ u.rec[b].resumed = t.rec[b].resumed
                    /\ (u.rec[b].live <=> t.rec[b].live) /\ u.rec[b].parent = t.rec[b].parent
        /\ b = a => /\ u.rec[b].resumed = t.rec[b].resumed
                    /\ u.rec[b].finished = IF t.rec[b].finished = 0 THEN at ELSE t.rec[b].finished
                    /\ ~u.rec[b].live

LEMMA FinishKeeps ==
    ASSUME NEW t, NEW a, NEW at, SoundBut(t, {}), a \in Agent, at \in Time, at # 0, t.rec[a].known,
           NEW r, r \in Records, r.spawn = t.rec[a].spawn, r.sure <=> t.rec[a].sure, r.parent = t.rec[a].parent,
           r.known, ~r.live, r.finished = IF t.rec[a].finished = 0 THEN at ELSE t.rec[a].finished,
           r.resumed = t.rec[a].resumed, NEW u, Turns(t, a, r, u)
    PROVE  SoundBut(u, {}) /\ Ended(t, u, a, at) /\ u.spawns = t.spawns
<1>1. RecordFits(t, a, r)
  BY DEF RecordFits
<1>2. PICK out : out = {}
  OBVIOUS
<1>3. /\ SoundBut(u, out) /\ u.spawns = t.spawns
      /\ u.rec[a] = r /\ \A b \in Agent : b # a => u.rec[b] = t.rec[b]
  BY <1>1, <1>2, RecordKeeps
<1>4. Ended(t, u, a, at)
  BY <1>3 DEF Ended
<1>. QED
  BY <1>2, <1>3, <1>4

\* An agent's outcome finishes it, unless it was told before the agent returned to work.
LEMMA OutcomeKeeps ==
    ASSUME NEW t, NEW a, NEW at, SoundBut(t, {}), a \in Agent, at \in Time, at # 0, t.rec[a].known,
           NEW u, u = Outcome(t, a, at)
    PROVE  /\ SoundBut(u, {}) /\ u.spawns = t.spawns
           /\ IF t.rec[a].resumed # 0 /\ at <= t.rec[a].resumed THEN u = t ELSE Ended(t, u, a, at)
<1>1. CASE t.rec[a].resumed # 0 /\ at <= t.rec[a].resumed
  BY <1>1 DEF Outcome, Stale
<1>2. CASE ~(t.rec[a].resumed # 0 /\ at <= t.rec[a].resumed)
  <2>1. PICK f : f = [t.rec[a] EXCEPT !.live = FALSE, !.finished = IF t.rec[a].finished = 0 THEN at ELSE t.rec[a].finished]
    OBVIOUS
  <2>2. PICK r : r = [f EXCEPT !.outcome = TRUE]
    OBVIOUS
  <2>3. u = [t EXCEPT !.rec[a] = r]
    BY <1>2, <2>1, <2>2 DEF Outcome, Stale, Finish
  <2>4. t.rec[a] \in Records
    BY RecordOf
  <2>5. PICK fin : fin = IF t.rec[a].finished = 0 THEN at ELSE t.rec[a].finished
    OBVIOUS
  <2>6. fin \in Time
    BY <2>4, <2>5 DEF Records
  <2>7. /\ f \in Records /\ f.spawn = t.rec[a].spawn /\ (f.sure <=> t.rec[a].sure) /\ f.parent = t.rec[a].parent
        /\ (f.known <=> t.rec[a].known) /\ ~f.live /\ f.finished = fin /\ f.resumed = t.rec[a].resumed
    BY <2>1, <2>4, <2>5, <2>6 DEF Records
  <2>8. /\ r \in Records /\ r.spawn = f.spawn /\ (r.sure <=> f.sure) /\ r.parent = f.parent
        /\ (r.known <=> f.known) /\ ~r.live /\ r.finished = f.finished /\ r.resumed = f.resumed
    BY <2>2, <2>7 DEF Records
  <2>9. /\ r \in Records /\ r.spawn = t.rec[a].spawn /\ (r.sure <=> t.rec[a].sure) /\ r.parent = t.rec[a].parent
        /\ r.known /\ ~r.live /\ r.finished = IF t.rec[a].finished = 0 THEN at ELSE t.rec[a].finished
    BY <2>5, <2>7, <2>8
  <2>10. r.resumed = t.rec[a].resumed /\ Turns(t, a, r, u)
    BY <2>3, <2>7, <2>8 DEF Turns
  <2>11. SoundBut(u, {}) /\ Ended(t, u, a, at) /\ u.spawns = t.spawns
    BY <2>9, <2>10, FinishKeeps
  <2>. QED
    BY <1>2, <2>11
<1>. QED
  BY <1>1, <1>2

\* What the hook m leaves of the tree: it may return to work the agent it came from, and
\* may end the one it tells of.
Moves(t, u, m) ==
    \A b \in Agent :
        /\ t.rec[b].known => u.rec[b].known
        /\ t.rec[b].sure => u.rec[b].sure
        /\ t.spawns[b].sure => u.spawns[b].sure
        /\ u.spawns[b].made => t.spawns[b].made \/ u.spawns[b].sure \/ (m.hook.kind = "call" /\ m.hook.call = b)
        /\ NoneFailed =>
              \/ u.rec[b].finished = t.rec[b].finished /\ u.rec[b].resumed = t.rec[b].resumed
              \/ Works1(m, b) /\ t.rec[b].finished # 0 /\ m.at > t.rec[b].finished
              \/ /\ Finishes(m, b) /\ u.rec[b].resumed = t.rec[b].resumed
                 /\ u.rec[b].finished = IF t.rec[b].finished = 0 THEN m.at ELSE t.rec[b].finished

LEMMA TreeIs ==
    ASSUME TreeInv, NEW t, t = Tree
    PROVE  SoundBut(t, {}) /\ t.rec = rec /\ t.spawns = spawns /\ t.pending = pending
  BY DEF TreeInv, Tree

LEMMA BecomesSound ==
    ASSUME NEW u, SoundBut(u, {}), Becomes(u), agents' = agents
    PROVE  SoundBut(Tree, {})'
<1>1. \A t : t = Tree' => t = u
  BY DEF Tree, Becomes, SoundBut, TreeTyped
<1>2. SoundBut(u, {})'
  BY DEF SoundBut, TreeTyped, RecordsTell, Paired, WaitingAre, SureIsTrue, MadeWas
<1>. QED
  BY <1>1, <1>2

\* The tracker hears a hook, and makes of it what the hook allows.
LEMMA HearsKeep ==
    ASSUME TreeInv, NEW m \in wire, wire' = wire \ {m}, UNCHANGED runner, NEW t, t = Tree,
           NEW u, Becomes(u), SoundBut(u, {}), Moves(t, u, m), StateTyped',
           NoneFailed => \A a \in heard'.told :
               a \in heard.told \/ u.rec[a].finished # 0 \/ ~(agents[a].runs <= 1)
    PROVE  TreeInv'
<1>0. /\ RunnerTyped /\ WireFits /\ CallsComeOnce /\ (NoneFailed => CallersWait /\ EndedIsQuiet)
      /\ clock' = clock /\ others' = others /\ agents' = agents /\ busy' = busy /\ asked' = asked
  BY DEF TreeInv, runner
<1>1. t.rec = rec /\ t.spawns = spawns /\ rec' = u.rec /\ spawns' = u.spawns
  BY TreeIs DEF Becomes
<1>2. RunnerTyped'
  BY <1>0 DEF RunnerTyped
<1>3. WireFits'
  BY <1>0 DEF WireFits, HookFits, Was
<1>4. SoundBut(Tree, {})'
  BY <1>0, BecomesSound
<1>5. CallsComeOnce'
  <2>. SUFFICES ASSUME NEW n \in wire', n.hook.kind = "call"
                PROVE  /\ \A o \in wire' : o.hook.kind = "call" /\ o.hook.call = n.hook.call => o = n
                       /\ spawns'[n.hook.call].made => spawns'[n.hook.call].sure
    BY DEF CallsComeOnce
  <2>1. n \in wire /\ n # m /\ n.hook.call \in Agent
    BY <1>0 DEF WireFits, HookFits, Was
  <2>2. \A o \in wire : o.hook.kind = "call" /\ o.hook.call = n.hook.call => o = n
    BY <1>0, <2>1 DEF CallsComeOnce
  <2>3. spawns[n.hook.call].made => spawns[n.hook.call].sure
    BY <1>0, <2>1 DEF CallsComeOnce
  <2>. QED
    BY <1>1, <2>1, <2>2, <2>3 DEF Moves
<1>6. NoneFailed' => NoneFailed /\ CallersWait' /\ EndedIsQuiet'
  <2>. SUFFICES ASSUME NoneFailed' PROVE NoneFailed /\ CallersWait' /\ EndedIsQuiet'
    OBVIOUS
  <2>1. NoneFailed /\ CallersWait /\ EndedIsQuiet
    BY <1>0 DEF NoneFailed
  <2>2. CallersWait'
    BY <1>0, <2>1 DEF CallersWait, Open
  <2>3. EndedIsQuiet'
    <3>. SUFFICES ASSUME NEW a \in Agent, agents'[a].runs <= 1
         PROVE  /\ rec'[a].resumed = 0
                /\ rec'[a].finished # 0 =>
                      /\ agents'[a].life \in {"ended", "over"}
                      /\ \A n \in wire' : Works1(n, a) => n.at <= rec'[a].finished
                /\ \A e \in wire' : Finishes(e, a) =>
                      /\ agents'[a].life \in {"ended", "over"}
                      /\ \A n \in wire' : Works1(n, a) => n.at <= e.at
                /\ a \in heard'.told => rec'[a].finished # 0
      BY DEF EndedIsQuiet
    <3>1. agents[a].runs <= 1
      BY <1>0
    <3>2. /\ rec[a].resumed = 0
          /\ rec[a].finished # 0 =>
                /\ agents[a].life \in {"ended", "over"}
                /\ \A n \in wire : Works1(n, a) => n.at <= rec[a].finished
          /\ a \in heard.told => rec[a].finished # 0
      BY <2>1, <3>1 DEF EndedIsQuiet
    <3>3. \A e \in wire : Finishes(e, a) =>
             /\ agents[a].life \in {"ended", "over"}
             /\ \A n \in wire : Works1(n, a) => n.at <= e.at
      BY <2>1, <3>1 DEF EndedIsQuiet
    <3>4. m.at \in Nat /\ m.at # 0 /\ rec[a].finished \in Nat
      <4>1. m.at \in 1..clock /\ clock \in Nat
        BY <1>0, HooksAssumption DEF WireFits, RunnerTyped, Time
      <4>2. rec[a] \in Records
        BY <1>1, TreeIs, RecordOf
      <4>. QED
        BY <4>1, <4>2, HooksAssumption DEF Records, Time
    <3>5. \/ rec'[a].finished = rec[a].finished /\ rec'[a].resumed = rec[a].resumed
          \/ /\ Finishes(m, a) /\ rec'[a].resumed = rec[a].resumed
             /\ rec'[a].finished = IF rec[a].finished = 0 THEN m.at ELSE rec[a].finished
      <4>1. ~(Works1(m, a) /\ rec[a].finished # 0 /\ m.at > rec[a].finished)
        BY <3>2, <3>4
      <4>. QED
        BY <1>1, <2>1, <4>1 DEF Moves
    <3>6. rec'[a].resumed = 0
      BY <3>2, <3>5
    <3>7. rec'[a].finished # 0 =>
             /\ agents'[a].life \in {"ended", "over"}
             /\ \A n \in wire' : Works1(n, a) => n.at <= rec'[a].finished
      <4>1. CASE rec'[a].finished = rec[a].finished
        BY <1>0, <3>2, <4>1
      <4>2. CASE Finishes(m, a) /\ rec[a].finished = 0 /\ rec'[a].finished = m.at
        BY <1>0, <3>3, <4>2
      <4>. QED
        BY <3>5, <4>1, <4>2
    <3>8. \A e \in wire' : Finishes(e, a) =>
             /\ agents'[a].life \in {"ended", "over"}
             /\ \A n \in wire' : Works1(n, a) => n.at <= e.at
      BY <1>0, <3>3
    <3>9. a \in heard'.told => rec'[a].finished # 0
      BY <1>1, <2>1, <3>1, <3>2, <3>4, <3>5
    <3>. QED
      BY <3>6, <3>7, <3>8, <3>9
  <2>. QED
    BY <2>1, <2>2, <2>3
<1>. QED
  BY <1>2, <1>3, <1>4, <1>5, <1>6 DEF TreeInv

LEMMA LiveStays ==
    ASSUME NEW t, NEW u, SoundBut(t, {}), SoundBut(u, {}), NEW p, NEW at, Returns(t, u, p, at)
    PROVE  \A b \in Agent : t.rec[b].live => u.rec[b].live
<1>1. RecordsTell(t) /\ RecordsTell(u)
  BY DEF SoundBut
<1>. QED
  BY <1>1 DEF RecordsTell, Returns

\* What is known of a hook under way.
LEMMA HookIs ==
    ASSUME TreeInv, NEW m \in wire
    PROVE  m.at \in Time /\ m.at # 0 /\ HookFits(m.hook)
<1>1. clock \in Nat /\ clock \in 0..MaxHooks /\ m.at \in 1..clock /\ HookFits(m.hook)
  BY HooksAssumption DEF TreeInv, RunnerTyped, WireFits, Time
<1>. QED
  BY <1>1, HooksAssumption DEF Time

\* A hook that ends nobody keeps what the tree promises.
LEMMA ReturnsMove ==
    ASSUME NEW t, NEW u, NEW m, Returns(t, u, m.hook.by, m.at), Works1(m, m.hook.by)
    PROVE  Moves(t, u, m)
  BY DEF Returns, Moves, Works1

NeedsSet == [for : Question \cup {None, Asking}, by : Agent \cup {Root, None}, at : Time]

LEMMA ClearedIs ==
    ASSUME NEW n \in NeedsSet, NEW p, NEW q, NEW at, NEW k, k = Cleared(n, p, q, at)
    PROVE  k \in NeedsSet /\ (k.for = n.for \/ k.for = None) /\ (q \in Question => k.for # q)
<1>1. NoNeed \in NeedsSet /\ NoNeed.for = None /\ None \notin Question
  BY HooksAssumption, QuestionsAssumption DEF NoNeed, NeedsSet, Time
<1>2. CASE \/ n.for \in Question /\ n.for = q
           \/ n.for = Asking /\ n.by = p /\ at > n.at
  BY <1>1, <1>2 DEF Cleared
<1>3. CASE ~(\/ n.for \in Question /\ n.for = q
             \/ n.for = Asking /\ n.by = p /\ at > n.at)
  BY <1>3 DEF Cleared
<1>. QED
  BY <1>2, <1>3

\* A tool hook that answers nothing leaves the rest of the state in order.
LEMMA StateStays ==
    ASSUME TreeInv, NEW p, NEW at, needs' = needs \/ needs' = Cleared(needs, p, None, at),
           UNCHANGED <<turn, heard>>, seen' = seen \/ \E c \in Agent : seen' = seen \cup {c},
           \A b \in Agent : rec[b].sure => rec'[b].sure
    PROVE  StateTyped'
<1>1. StateTyped
  BY DEF TreeInv
<1>2. needs' \in NeedsSet /\ (needs'.for = needs.for \/ needs'.for = None)
  BY <1>1, ClearedIs DEF StateTyped, NeedsSet
<1>3. seen \subseteq seen' /\ seen' \subseteq Question \cup Agent
  BY <1>1 DEF StateTyped
<1>4. needs'.for \notin heard.answered
  BY <1>1, <1>2, QuestionsAssumption DEF StateTyped, AnsweredStaysAnswered
<1>5. \A a \in heard.named : rec'[a].sure
  BY <1>1 DEF StateTyped
<1>. QED
  BY <1>1, <1>2, <1>3, <1>4, <1>5 DEF StateTyped, AnsweredStaysAnswered, NeedsSet

LEMMA HookToolKeeps == ASSUME TreeInv, NEW m \in wire, HookTool(m) PROVE TreeInv' /\ WaitsForChildren
<1>1. PICK p : p = m.hook.by
  OBVIOUS
<1>2. PICK t : t = Tree
  OBVIOUS
<1>3. PICK k : k = Caller(t, p, m.at)
  OBVIOUS
<1>4. PICK u : u = Unheld(k, p, m.at)
  OBVIOUS
<1>5. /\ m.hook.kind = "tool" /\ wire' = wire \ {m} /\ UNCHANGED runner /\ Becomes(u)
      /\ needs' = Cleared(needs, p, None, m.at) /\ UNCHANGED <<turn, seen, heard>>
  BY <1>1, <1>2, <1>3, <1>4 DEF HookTool, Takes
<1>6. m.at \in Time /\ p \in Agent \cup {Root} /\ Works1(m, p)
  BY <1>1, <1>5, HookIs DEF HookFits, Works1
<1>7. SoundBut(t, {}) /\ t.rec = rec
  BY <1>2, TreeIs
<1>8. SoundBut(k, {}) /\ Returns(t, k, p, m.at)
  BY <1>3, <1>6, <1>7, CallerKeeps
<1>9. SoundBut(u, {}) /\ Keeps(k, u)
  <2>1. PICK out : out = {}
    OBVIOUS
  <2>2. SoundBut(u, out) /\ Keeps(k, u)
    BY <1>4, <1>6, <1>8, <2>1, UnheldKeeps
  <2>. QED
    BY <2>1, <2>2
<1>10. Returns(t, u, p, m.at)
  BY <1>8, <1>9, ReturnsOn
<1>11. Moves(t, u, m)
  BY <1>1, <1>6, <1>10, ReturnsMove
<1>12. rec' = u.rec /\ \A b \in Agent : rec[b].sure => rec'[b].sure
  BY <1>5, <1>7, <1>10 DEF Becomes, Returns
<1>13. StateTyped'
  BY <1>5, <1>12, StateStays
<1>14. WaitsForChildren
  BY <1>7, <1>9, <1>10, <1>12, LiveStays DEF WaitsForChildren
<1>15. heard' = heard
  BY <1>5
<1>. QED
  BY <1>2, <1>5, <1>9, <1>11, <1>13, <1>14, <1>15, HearsKeep

LEMMA HookCallKeeps == ASSUME TreeInv, NEW m \in wire, HookCall(m) PROVE TreeInv' /\ WaitsForChildren
<1>1. PICK p : p = m.hook.by
  OBVIOUS
<1>2. PICK c : c = m.hook.call
  OBVIOUS
<1>3. PICK t : t = Tree
  OBVIOUS
<1>4. PICK k : k = Caller(t, p, m.at)
  OBVIOUS
<1>5. PICK h : h = Unheld(k, p, m.at)
  OBVIOUS
<1>6. PICK d : d = Made(h, c, p)
  OBVIOUS
<1>7. PICK u : u = IF d.spawns[c].child = None THEN Queue(d, c) ELSE d
  OBVIOUS
<1>8. /\ m.hook.kind = "call" /\ wire' = wire \ {m} /\ UNCHANGED runner /\ Becomes(u)
      /\ needs' = IF c \in seen THEN needs ELSE Cleared(needs, p, None, m.at)
      /\ seen' = seen \cup {c} /\ UNCHANGED <<turn, heard>>
  BY <1>1, <1>2, <1>3, <1>4, <1>5, <1>6, <1>7 DEF HookCall, Takes
<1>9. m.at \in Time /\ p \in Agent \cup {Root} /\ Works1(m, p) /\ Was(c, p)
  BY <1>1, <1>2, <1>8, HookIs DEF HookFits, Works1
<1>10. SoundBut(t, {}) /\ t.rec = rec /\ t.spawns = spawns
  BY <1>3, TreeIs
<1>11. SoundBut(k, {}) /\ Returns(t, k, p, m.at) /\ k.spawns = t.spawns
  BY <1>4, <1>9, <1>10, CallerKeeps
<1>12. SoundBut(h, {}) /\ Keeps(k, h) /\ h.spawns = t.spawns
  <2>1. PICK out : out = {}
    OBVIOUS
  <2>2. SoundBut(h, out) /\ Keeps(k, h) /\ h.spawns = k.spawns
    BY <1>5, <1>9, <1>11, <2>1, UnheldKeeps
  <2>. QED
    BY <1>11, <2>1, <2>2
<1>13. Returns(t, h, p, m.at)
  BY <1>11, <1>12, ReturnsOn
<1>a. PICK out : out = IF h.spawns[c].made THEN {} ELSE {c}
  OBVIOUS
<1>14. /\ SoundBut(d, out)
       /\ \A b \in Agent : d.rec[b] = h.rec[b]
       /\ d.spawns[c].made /\ d.spawns[c].child = h.spawns[c].child
       /\ \A b \in Agent : /\ d.spawns[b].sure <=> h.spawns[b].sure
                           /\ d.spawns[b].made <=> h.spawns[b].made \/ b = c
  BY <1>6, <1>9, <1>12, <1>a, MadeKeeps
<1>15. SoundBut(u, {}) /\ Keeps(d, u)
  <2>0. c \in Agent
    BY <1>9 DEF Was
  <2>1. CASE h.spawns[c].made
    <3>1. spawns[c].sure
      BY <1>2, <1>8, <1>10, <1>12, <2>1 DEF TreeInv, CallsComeOnce
    <3>2. h.spawns[c].child = c
      BY <1>10, <1>12, <2>0, <3>1 DEF SoundBut, SureIsTrue
    <3>3. u = d
      BY <1>7, <1>14, <2>0, <3>2, NamesAssumption
    <3>. QED
      BY <1>14, <1>a, <2>1, <3>3 DEF Keeps
  <2>2. CASE ~h.spawns[c].made
    <3>1. h.spawns[c].child = None
      BY <1>12, <2>0, <2>2 DEF SoundBut, Paired
    <3>2. u = Queue(d, c) /\ SoundBut(d, {c}) /\ d.spawns[c].child = None
      BY <1>7, <1>14, <1>a, <2>2, <3>1
    <3>. QED
      BY <1>14, <2>0, <3>2, QueueKeeps
  <2>. QED
    BY <2>1, <2>2
<1>16. \A b \in Agent :
          /\ t.rec[b].known => u.rec[b].known
          /\ t.rec[b].sure => u.rec[b].sure
          /\ t.spawns[b].sure => u.spawns[b].sure
          /\ u.spawns[b].made <=> t.spawns[b].made \/ b = c
          /\ \/ u.rec[b].finished = t.rec[b].finished /\ u.rec[b].resumed = t.rec[b].resumed
             \/ b = p /\ t.rec[b].finished # 0 /\ m.at > t.rec[b].finished
  <2>1. \A b \in Agent :
          /\ t.rec[b].known => u.rec[b].known
          /\ t.rec[b].sure => u.rec[b].sure
          /\ \/ u.rec[b].finished = t.rec[b].finished /\ u.rec[b].resumed = t.rec[b].resumed
             \/ b = p /\ t.rec[b].finished # 0 /\ m.at > t.rec[b].finished
    <3>. SUFFICES ASSUME NEW b \in Agent
         PROVE  /\ t.rec[b].known => u.rec[b].known
                /\ t.rec[b].sure => u.rec[b].sure
                /\ \/ u.rec[b].finished = t.rec[b].finished /\ u.rec[b].resumed = t.rec[b].resumed
                   \/ b = p /\ t.rec[b].finished # 0 /\ m.at > t.rec[b].finished
      OBVIOUS
    <3>1. d.rec[b] = h.rec[b]
      BY <1>14
    <3>2. /\ t.rec[b].known => h.rec[b].known
          /\ t.rec[b].sure => h.rec[b].sure
          /\ \/ h.rec[b].finished = t.rec[b].finished /\ h.rec[b].resumed = t.rec[b].resumed
             \/ b = p /\ t.rec[b].finished # 0 /\ m.at > t.rec[b].finished
      BY <1>13 DEF Returns
    <3>3. /\ d.rec[b].known => u.rec[b].known
          /\ d.rec[b].sure => u.rec[b].sure
          /\ u.rec[b].finished = d.rec[b].finished /\ u.rec[b].resumed = d.rec[b].resumed
      BY <1>15 DEF Keeps
    <3>. QED
      BY <3>1, <3>2, <3>3
  <2>2. \A b \in Agent :
          /\ t.spawns[b].sure => u.spawns[b].sure
          /\ u.spawns[b].made <=> t.spawns[b].made \/ b = c
    BY <1>12, <1>14, <1>15 DEF Keeps
  <2>. QED
    BY <2>1, <2>2
<1>17. Moves(t, u, m)
  BY <1>1, <1>2, <1>8, <1>9, <1>16 DEF Moves
<1>18. rec' = u.rec /\ \A b \in Agent : rec[b].sure => rec'[b].sure
  BY <1>8, <1>10, <1>16 DEF Becomes
<1>19. StateTyped'
  <2>1. seen' = seen \/ \E e \in Agent : seen' = seen \cup {e}
    BY <1>8, <1>9 DEF Was
  <2>2. needs' = needs \/ needs' = Cleared(needs, p, None, m.at)
    BY <1>8
  <2>. QED
    BY <1>8, <1>18, <2>1, <2>2, StateStays
<1>20. WaitsForChildren
  <2>1. \A b \in Agent : t.rec[b].live => u.rec[b].live
    BY <1>10, <1>15, <1>16 DEF SoundBut, RecordsTell
  <2>. QED
    BY <1>10, <1>18, <2>1 DEF WaitsForChildren
<1>21. heard' = heard
  BY <1>8
<1>. QED
  BY <1>3, <1>8, <1>15, <1>17, <1>19, <1>20, <1>21, HearsKeep

\* A question is raised unless its answer came first.
LEMMA HookAskKeeps == ASSUME TreeInv, NEW m \in wire, HookAsk(m) PROVE TreeInv' /\ WaitsForChildren
<1>1. PICK p : p = m.hook.by
  OBVIOUS
<1>2. PICK t : t = Tree
  OBVIOUS
<1>3. PICK k : k = Caller(t, p, m.at)
  OBVIOUS
<1>4. PICK u : u = Unheld(k, p, m.at)
  OBVIOUS
<1>5. PICK q : q = m.hook.question
  OBVIOUS
<1>6. /\ m.hook.kind = "ask" /\ wire' = wire \ {m} /\ UNCHANGED runner /\ Becomes(u)
      /\ needs' = IF q \in seen THEN needs ELSE [for |-> q, by |-> p, at |-> m.at]
      /\ seen' = seen \cup {q} /\ UNCHANGED <<turn, heard>>
  BY <1>1, <1>2, <1>3, <1>4, <1>5 DEF HookAsk, Takes
<1>7. m.at \in Time /\ p \in Agent \cup {Root} /\ Works1(m, p) /\ q \in Question
  BY <1>1, <1>5, <1>6, HookIs DEF HookFits, Works1
<1>8. SoundBut(t, {}) /\ t.rec = rec
  BY <1>2, TreeIs
<1>9. SoundBut(k, {}) /\ Returns(t, k, p, m.at)
  BY <1>3, <1>7, <1>8, CallerKeeps
<1>10. SoundBut(u, {}) /\ Keeps(k, u)
  <2>1. PICK out : out = {}
    OBVIOUS
  <2>2. SoundBut(u, out) /\ Keeps(k, u)
    BY <1>4, <1>7, <1>9, <2>1, UnheldKeeps
  <2>. QED
    BY <2>1, <2>2
<1>11. Returns(t, u, p, m.at)
  BY <1>9, <1>10, ReturnsOn
<1>12. Moves(t, u, m)
  BY <1>1, <1>7, <1>11, ReturnsMove
<1>13. rec' = u.rec /\ \A b \in Agent : rec[b].sure => rec'[b].sure
  BY <1>6, <1>8, <1>11 DEF Becomes, Returns
<1>14. StateTyped'
  <2>1. StateTyped
    BY DEF TreeInv
  <2>2. needs' \in NeedsSet /\ needs'.for \notin heard.answered
    <3>1. CASE q \in seen
      BY <1>6, <2>1, <3>1 DEF StateTyped, AnsweredStaysAnswered, NeedsSet
    <3>2. CASE q \notin seen
      <4>1. [for |-> q, by |-> p, at |-> m.at] \in NeedsSet
        BY <1>7 DEF NeedsSet
      <4>. QED
        BY <1>6, <2>1, <3>2, <4>1 DEF StateTyped
    <3>. QED
      BY <3>1, <3>2
  <2>3. \A a \in heard.named : rec'[a].sure
    BY <1>13, <2>1 DEF StateTyped
  <2>. QED
    BY <1>6, <1>7, <2>1, <2>2, <2>3 DEF StateTyped, AnsweredStaysAnswered, NeedsSet
<1>15. WaitsForChildren
  BY <1>8, <1>10, <1>11, <1>13, LiveStays DEF WaitsForChildren
<1>16. heard' = heard
  BY <1>6
<1>. QED
  BY <1>2, <1>6, <1>10, <1>12, <1>14, <1>15, <1>16, HearsKeep

\* An answered question is no longer put before the user, and is not raised again.
LEMMA HookAnswerKeeps == ASSUME TreeInv, NEW m \in wire, HookAnswer(m) PROVE TreeInv' /\ WaitsForChildren
<1>1. PICK p : p = m.hook.by
  OBVIOUS
<1>2. PICK t : t = Tree
  OBVIOUS
<1>3. PICK u : u = Caller(t, p, m.at)
  OBVIOUS
<1>4. PICK q : q = m.hook.question
  OBVIOUS
<1>5. /\ m.hook.kind = "answer" /\ wire' = wire \ {m} /\ UNCHANGED runner /\ Becomes(u)
      /\ needs' = Cleared(needs, p, q, m.at) /\ seen' = seen \cup {q}
      /\ heard' = [heard EXCEPT !.answered = heard.answered \cup {q}] /\ UNCHANGED turn
  BY <1>1, <1>2, <1>3, <1>4 DEF HookAnswer, Takes
<1>6. m.at \in Time /\ p \in Agent \cup {Root} /\ Works1(m, p) /\ q \in Question
  BY <1>1, <1>4, <1>5, HookIs DEF HookFits, Works1
<1>7. SoundBut(t, {}) /\ t.rec = rec
  BY <1>2, TreeIs
<1>8. SoundBut(u, {}) /\ Returns(t, u, p, m.at)
  BY <1>3, <1>6, <1>7, CallerKeeps
<1>9. Moves(t, u, m)
  BY <1>1, <1>6, <1>8, ReturnsMove
<1>10. rec' = u.rec /\ \A b \in Agent : rec[b].sure => rec'[b].sure
  BY <1>5, <1>7, <1>8 DEF Becomes, Returns
<1>11. StateTyped
  BY DEF TreeInv
<1>12. /\ heard' \in [named : SUBSET Agent, told : SUBSET Agent, answered : SUBSET Question,
                      lastAt : Time, lastEnds : BOOLEAN]
       /\ heard'.answered = heard.answered \cup {q} /\ heard'.told = heard.told /\ heard'.named = heard.named
  BY <1>5, <1>6, <1>11 DEF StateTyped
<1>13. StateTyped'
  <2>1. needs' \in NeedsSet /\ (needs'.for = needs.for \/ needs'.for = None) /\ needs'.for # q
    BY <1>5, <1>6, <1>11, ClearedIs DEF StateTyped, NeedsSet
  <2>2. needs'.for \notin heard'.answered
    BY <1>11, <1>12, <2>1, QuestionsAssumption DEF StateTyped, AnsweredStaysAnswered
  <2>3. \A a \in heard'.named : rec'[a].sure
    BY <1>10, <1>11, <1>12 DEF StateTyped
  <2>4. heard'.answered \subseteq seen' /\ seen' \subseteq Question \cup Agent
    BY <1>5, <1>6, <1>11, <1>12 DEF StateTyped
  <2>5. turn' = turn
    BY <1>5
  <2>. QED
    BY <1>11, <1>12, <2>1, <2>2, <2>3, <2>4, <2>5 DEF StateTyped, AnsweredStaysAnswered, NeedsSet
<1>14. WaitsForChildren
  BY <1>7, <1>8, <1>10, LiveStays DEF WaitsForChildren
<1>. QED
  BY <1>2, <1>5, <1>8, <1>9, <1>12, <1>13, <1>14, HearsKeep

\* A start may be older than the agent's other hooks.
LEMMA HookStartKeeps == ASSUME TreeInv, NEW m \in wire, HookStart(m) PROVE TreeInv' /\ WaitsForChildren
<1>1. PICK p : p = m.hook.by
  OBVIOUS
<1>2. PICK t : t = Tree
  OBVIOUS
<1>3. PICK k : k = Caller(t, p, m.at)
  OBVIOUS
<1>4. PICK n : n = IF m.at < k.rec[p].since THEN m.at ELSE k.rec[p].since
  OBVIOUS
<1>5. PICK h : h = [k EXCEPT !.rec[p].since = n]
  OBVIOUS
<1>6. PICK u : u = MatchUnplaced(h, p)
  OBVIOUS
<1>7. /\ m.hook.kind = "start" /\ wire' = wire \ {m} /\ UNCHANGED runner /\ Becomes(u)
      /\ UNCHANGED <<turn, needs, seen, heard>>
  BY <1>1, <1>2, <1>3, <1>4, <1>5, <1>6 DEF HookStart, Takes, state
<1>8. m.at \in Time /\ p \in Agent /\ p \in Agent \cup {Root} /\ Works1(m, p)
  BY <1>1, <1>7, HookIs DEF HookFits, Works1
<1>9. SoundBut(t, {}) /\ t.rec = rec
  BY <1>2, TreeIs
<1>10. SoundBut(k, {}) /\ Returns(t, k, p, m.at) /\ k.rec[p].known
  BY <1>3, <1>8, <1>9, CallerKeeps
<1>11. SoundBut(h, {}) /\ Keeps(k, h) /\ h.rec[p].known
  <2>1. PICK r : r = [k.rec[p] EXCEPT !.since = n]
    OBVIOUS
  <2>2. k.rec[p] \in Records /\ (k.rec[p].live <=> k.rec[p].finished = 0)
    BY <1>8, <1>10, RecordOf
  <2>3. n \in Time
    BY <1>4, <1>8, <2>2 DEF Records
  <2>4. /\ r \in Records /\ r.spawn = k.rec[p].spawn /\ (r.sure <=> k.rec[p].sure) /\ r.parent = k.rec[p].parent
        /\ (r.known <=> k.rec[p].known) /\ (r.live <=> k.rec[p].live) /\ r.finished = k.rec[p].finished
        /\ r.resumed = k.rec[p].resumed
    BY <2>1, <2>2, <2>3 DEF Records
  <2>5. RecordFits(k, p, r) /\ Turns(k, p, r, h)
    BY <1>5, <1>8, <1>10, <2>1, <2>2, <2>4 DEF RecordFits, Turns
  <2>6. PICK out : out = {}
    OBVIOUS
  <2>7. /\ SoundBut(h, out) /\ h.spawns = k.spawns
        /\ h.rec[p] = r /\ \A b \in Agent : b # p => h.rec[b] = k.rec[b]
    BY <1>10, <2>5, <2>6, RecordKeeps
  <2>. QED
    BY <1>10, <2>4, <2>6, <2>7 DEF Keeps
<1>12. SoundBut(u, {}) /\ Keeps(h, u)
  BY <1>6, <1>8, <1>11, MatchUnplacedKeeps
<1>13. Returns(t, u, p, m.at)
  BY <1>10, <1>11, <1>12, ReturnsOn
<1>14. Moves(t, u, m)
  BY <1>1, <1>8, <1>13, ReturnsMove
<1>15. rec' = u.rec /\ \A b \in Agent : rec[b].sure => rec'[b].sure
  BY <1>7, <1>9, <1>13 DEF Becomes, Returns
<1>16. StateTyped'
  BY <1>7, <1>15, StateStays
<1>17. WaitsForChildren
  BY <1>9, <1>12, <1>13, <1>15, LiveStays DEF WaitsForChildren
<1>18. heard' = heard
  BY <1>7
<1>. QED
  BY <1>2, <1>7, <1>12, <1>14, <1>16, <1>17, <1>18, HearsKeep

\* A call's result names its child for good, and ends it unless it goes on.
LEMMA HookResultKeeps == ASSUME TreeInv, NEW m \in wire, HookResult(m) PROVE TreeInv' /\ WaitsForChildren
<1>1. PICK p : p = m.hook.by
  OBVIOUS
<1>2. PICK c : c = m.hook.call
  OBVIOUS
<1>3. PICK t : t = Tree
  OBVIOUS
<1>4. PICK k : k = Caller(t, p, m.at)
  OBVIOUS
<1>5. PICK d : d = Made(k, c, p)
  OBVIOUS
<1>6. PICK x : x = Confirm(d, c, c, m.at)
  OBVIOUS
<1>7. PICK u : u = IF m.hook.done THEN Outcome(x, c, m.at) ELSE x
  OBVIOUS
<1>8. m.hook.kind = "result" /\ m.at \in Time /\ m.at # 0 /\ HookFits(m.hook)
  BY HookIs DEF HookResult, Takes
<1>9. /\ p \in Agent \cup {Root} /\ Works1(m, p) /\ Was(c, p) /\ c \in Agent
      /\ m.hook.child = c /\ m.hook.done \in BOOLEAN
  BY <1>1, <1>2, <1>8 DEF HookFits, Works1, Was
<1>10. /\ wire' = wire \ {m} /\ UNCHANGED runner /\ Becomes(u)
       /\ needs' = Cleared(needs, p, None, m.at) /\ seen' = seen \cup {c} /\ UNCHANGED turn
       /\ heard' = [heard EXCEPT !.named = @ \cup {c}, !.told  = IF m.hook.done THEN @ \cup {c} ELSE @]
  BY <1>1, <1>2, <1>3, <1>4, <1>5, <1>6, <1>7, <1>9 DEF HookResult, Takes
<1>11. SoundBut(t, {}) /\ t.rec = rec /\ t.spawns = spawns
  BY <1>3, TreeIs
<1>12. SoundBut(k, {}) /\ Returns(t, k, p, m.at)
  BY <1>4, <1>8, <1>9, <1>11, CallerKeeps
<1>13. PICK late : late = IF k.spawns[c].made THEN {} ELSE {c}
  OBVIOUS
<1>14. /\ SoundBut(d, late) /\ d.spawns[c].made
       /\ \A b \in Agent : d.rec[b] = k.rec[b]
       /\ \A b \in Agent : /\ d.spawns[b].sure <=> k.spawns[b].sure
                           /\ d.spawns[b].made <=> k.spawns[b].made \/ b = c
  BY <1>5, <1>9, <1>12, <1>13, MadeKeeps
<1>15. SoundBut(x, {}) /\ Keeps(d, x) /\ x.rec[c].known /\ x.rec[c].sure /\ x.spawns[c].sure
  <2>1. late \subseteq {c}
    BY <1>13
  <2>. QED
    BY <1>6, <1>8, <1>9, <1>14, <2>1, ConfirmKeeps
<1>16. \A b \in Agent :
          /\ t.rec[b].known => x.rec[b].known
          /\ t.rec[b].sure => x.rec[b].sure
          /\ t.spawns[b].sure => x.spawns[b].sure
          /\ x.spawns[b].made => t.spawns[b].made \/ x.spawns[b].sure
          /\ \/ x.rec[b].finished = t.rec[b].finished /\ x.rec[b].resumed = t.rec[b].resumed
             \/ b = p /\ t.rec[b].finished # 0 /\ m.at > t.rec[b].finished
  <2>. SUFFICES ASSUME NEW b \in Agent
       PROVE  /\ t.rec[b].known => x.rec[b].known
              /\ t.rec[b].sure => x.rec[b].sure
              /\ t.spawns[b].sure => x.spawns[b].sure
              /\ x.spawns[b].made => t.spawns[b].made \/ x.spawns[b].sure
              /\ \/ x.rec[b].finished = t.rec[b].finished /\ x.rec[b].resumed = t.rec[b].resumed
                 \/ b = p /\ t.rec[b].finished # 0 /\ m.at > t.rec[b].finished
    OBVIOUS
  <2>1. /\ d.rec[b] = k.rec[b] /\ (d.spawns[b].sure <=> k.spawns[b].sure)
        /\ (d.spawns[b].made <=> k.spawns[b].made \/ b = c)
    BY <1>14
  <2>2. /\ t.rec[b].known => k.rec[b].known
        /\ t.rec[b].sure => k.rec[b].sure
        /\ t.spawns[b].sure => k.spawns[b].sure
        /\ k.spawns[b].made <=> t.spawns[b].made
        /\ \/ k.rec[b].finished = t.rec[b].finished /\ k.rec[b].resumed = t.rec[b].resumed
           \/ b = p /\ t.rec[b].finished # 0 /\ m.at > t.rec[b].finished
    BY <1>12 DEF Returns
  <2>3. /\ d.rec[b].known => x.rec[b].known
        /\ d.rec[b].sure => x.rec[b].sure
        /\ d.spawns[b].sure => x.spawns[b].sure
        /\ x.spawns[b].made <=> d.spawns[b].made
        /\ x.rec[b].finished = d.rec[b].finished /\ x.rec[b].resumed = d.rec[b].resumed
    BY <1>15 DEF Keeps
  <2>. QED
    BY <1>15, <2>1, <2>2, <2>3
<1>17. /\ SoundBut(u, {}) /\ u.spawns = x.spawns
       /\ u = x \/ (m.hook.done /\ Ended(x, u, c, m.at))
       /\ m.hook.done => Ended(x, u, c, m.at) \/ x.rec[c].resumed # 0
  <2>1. CASE m.hook.done
    BY <1>7, <1>8, <1>9, <1>15, <2>1, OutcomeKeeps
  <2>2. CASE ~m.hook.done
    BY <1>7, <1>15, <2>2
  <2>. QED
    BY <2>1, <2>2
<1>18. \A b \in Agent : t.rec[b].known => u.rec[b].known
  BY <1>16, <1>17 DEF Ended
<1>19. u.rec[c].sure /\ \A b \in Agent : t.rec[b].sure => u.rec[b].sure
  BY <1>9, <1>15, <1>16, <1>17 DEF Ended
<1>20. Moves(t, u, m)
  <2>. SUFFICES ASSUME NEW b \in Agent
       PROVE  \/ u.rec[b].finished = t.rec[b].finished /\ u.rec[b].resumed = t.rec[b].resumed
              \/ Works1(m, b) /\ t.rec[b].finished # 0 /\ m.at > t.rec[b].finished
              \/ /\ Finishes(m, b) /\ u.rec[b].resumed = t.rec[b].resumed
                 /\ u.rec[b].finished = IF t.rec[b].finished = 0 THEN m.at ELSE t.rec[b].finished
    BY <1>16, <1>17, <1>18, <1>19 DEF Moves
  <2>1. CASE b = p /\ t.rec[b].finished # 0 /\ m.at > t.rec[b].finished
    BY <1>9, <2>1
  <2>2. CASE x.rec[b].finished = t.rec[b].finished /\ x.rec[b].resumed = t.rec[b].resumed
    <3>1. CASE u = x
      BY <2>2, <3>1
    <3>2. CASE m.hook.done /\ Ended(x, u, c, m.at) /\ b # c
      BY <2>2, <3>2 DEF Ended
    <3>3. CASE m.hook.done /\ Ended(x, u, c, m.at) /\ b = c
      <4>1. Finishes(m, b)
        BY <1>8, <1>9, <3>3 DEF Finishes
      <4>. QED
        BY <2>2, <3>3, <4>1 DEF Ended
    <3>. QED
      BY <1>17, <3>1, <3>2, <3>3
  <2>. QED
    BY <1>16, <2>1, <2>2
<1>21. rec' = u.rec
  BY <1>10 DEF Becomes
<1>22. StateTyped
  BY DEF TreeInv
<1>23. /\ heard' \in [named : SUBSET Agent, told : SUBSET Agent, answered : SUBSET Question,
                      lastAt : Time, lastEnds : BOOLEAN]
       /\ heard'.answered = heard.answered /\ heard'.named = heard.named \cup {c}
       /\ heard'.told = IF m.hook.done THEN heard.told \cup {c} ELSE heard.told
  BY <1>9, <1>10, <1>22 DEF StateTyped
<1>24. StateTyped'
  <2>1. needs' \in NeedsSet /\ (needs'.for = needs.for \/ needs'.for = None)
    BY <1>10, <1>22, ClearedIs DEF StateTyped, NeedsSet
  <2>2. needs'.for \notin heard'.answered
    BY <1>22, <1>23, <2>1, QuestionsAssumption DEF StateTyped, AnsweredStaysAnswered
  <2>3. \A a \in heard'.named : rec'[a].sure
    BY <1>11, <1>19, <1>21, <1>22, <1>23 DEF StateTyped
  <2>4. heard'.answered \subseteq seen' /\ seen' \subseteq Question \cup Agent
    BY <1>9, <1>10, <1>22, <1>23 DEF StateTyped
  <2>5. turn' = turn
    BY <1>10
  <2>. QED
    BY <1>22, <1>23, <2>1, <2>2, <2>3, <2>4, <2>5 DEF StateTyped, AnsweredStaysAnswered, NeedsSet
<1>25. NoneFailed => \A a \in heard'.told :
          a \in heard.told \/ u.rec[a].finished # 0 \/ ~(agents[a].runs <= 1)
  <2>. SUFFICES ASSUME NoneFailed, m.hook.done, agents[c].runs <= 1 PROVE u.rec[c].finished # 0
    BY <1>23
  <2>1. EndedIsQuiet
    BY DEF TreeInv
  <2>2. /\ rec[c].resumed = 0
        /\ rec[c].finished # 0 => \A n \in wire : Works1(n, c) => n.at <= rec[c].finished
    BY <1>9, <2>1 DEF EndedIsQuiet
  <2>3. rec[c].finished \in Nat /\ m.at \in Nat
    <3>1. rec[c] \in Records
      BY <1>9, <1>11, RecordOf
    <3>. QED
      BY <1>8, <3>1, HooksAssumption DEF Records, Time
  <2>4. x.rec[c].resumed = 0
    BY <1>9, <1>11, <1>16, <2>2, <2>3
  <2>5. Ended(x, u, c, m.at)
    BY <1>17, <2>4
  <2>. QED
    BY <1>8, <1>9, <2>5 DEF Ended
<1>26. WaitsForChildren
  <2>. SUFFICES ASSUME NEW a \in Agent, rec[a].live, ~rec'[a].live PROVE a \in heard'.told
    BY DEF WaitsForChildren
  <2>1. t.rec[a].known /\ t.rec[a].finished = 0
    BY <1>11 DEF SoundBut, RecordsTell
  <2>2. x.rec[a].live
    BY <1>15, <1>16, <2>1 DEF SoundBut, RecordsTell
  <2>3. m.hook.done /\ Ended(x, u, c, m.at) /\ a = c
    BY <1>17, <1>21, <2>2 DEF Ended
  <2>. QED
    BY <1>23, <2>3
<1>. QED
  BY <1>3, <1>10, <1>17, <1>20, <1>24, <1>25, <1>26, HearsKeep

\* A stop finishes an agent whose own children have finished; another is held.
LEMMA HookStopKeeps == ASSUME TreeInv, NEW m \in wire, HookStop(m) PROVE TreeInv' /\ WaitsForChildren
<1>1. PICK p : p = m.hook.by
  OBVIOUS
<1>2. PICK t : t = Tree
  OBVIOUS
<1>3. PICK k : k = Known(t, p, m.at)
  OBVIOUS
<1>4. PICK v : v = MatchUnplaced(k, p)
  OBVIOUS
<1>5. PICK u : u = IF Stale(k.rec[p], m.at) THEN k
                   ELSE IF v.rec[p].live /\ LiveChild(v, p)
                   THEN [v EXCEPT !.rec[p] = [@ EXCEPT !.held = TRUE, !.heldAt = m.at]]
                   ELSE [v EXCEPT !.rec[p] = [Finish(@, m.at) EXCEPT !.held = FALSE]]
  OBVIOUS
<1>6. /\ m.hook.kind = "stop" /\ wire' = wire \ {m} /\ UNCHANGED runner /\ Becomes(u)
      /\ UNCHANGED <<turn, needs, seen, heard>>
  BY <1>1, <1>2, <1>3, <1>4, <1>5 DEF HookStop, Takes, state
<1>7. m.at \in Time /\ m.at # 0 /\ p \in Agent /\ p \in Agent \cup {Root} /\ Finishes(m, p)
  BY <1>1, <1>6, HookIs DEF HookFits, Finishes
<1>8. SoundBut(t, {}) /\ t.rec = rec
  BY <1>2, TreeIs
<1>9. SoundBut(k, {}) /\ Keeps(t, k) /\ k.rec[p].known
  <2>1. PICK out : out = {}
    OBVIOUS
  <2>2. SoundBut(k, out) /\ Keeps(t, k) /\ k.rec[p].known
    BY <1>3, <1>7, <1>8, <2>1, KnownKeeps
  <2>. QED
    BY <2>1, <2>2
<1>10. SoundBut(v, {}) /\ Keeps(k, v) /\ v.rec[p].known
  <2>1. SoundBut(v, {}) /\ Keeps(k, v)
    BY <1>4, <1>7, <1>9, MatchUnplacedKeeps
  <2>. QED
    BY <1>7, <1>9, <2>1 DEF Keeps
<1>11. Keeps(t, v)
  BY <1>9, <1>10, KeepsOn
<1>12. v.rec[p] \in Records /\ (v.rec[p].live <=> v.rec[p].finished = 0)
  BY <1>7, <1>10, RecordOf
<1>13. \/ SoundBut(u, {}) /\ Keeps(t, u)
       \/ /\ SoundBut(u, {}) /\ Ended(v, u, p, m.at) /\ u.spawns = v.spawns
          /\ ~(v.rec[p].live /\ LiveChild(v, p))
  <2>1. CASE Stale(k.rec[p], m.at)
    BY <1>5, <1>9, <2>1
  <2>2. CASE ~Stale(k.rec[p], m.at) /\ v.rec[p].live /\ LiveChild(v, p)
    <3>1. PICK r : r = [v.rec[p] EXCEPT !.held = TRUE, !.heldAt = m.at]
      OBVIOUS
    <3>2. /\ r \in Records /\ r.spawn = v.rec[p].spawn /\ (r.sure <=> v.rec[p].sure) /\ r.parent = v.rec[p].parent
          /\ (r.known <=> v.rec[p].known) /\ (r.live <=> v.rec[p].live) /\ r.finished = v.rec[p].finished
          /\ r.resumed = v.rec[p].resumed
      BY <1>7, <1>12, <3>1 DEF Records
    <3>3. u = [v EXCEPT !.rec[p] = r]
      BY <1>5, <2>2, <3>1
    <3>4. RecordFits(v, p, r) /\ Turns(v, p, r, u)
      BY <1>7, <1>10, <1>12, <3>2, <3>3 DEF RecordFits, Turns
    <3>5. PICK out : out = {}
      OBVIOUS
    <3>6. /\ SoundBut(u, out) /\ u.spawns = v.spawns
          /\ u.rec[p] = r /\ \A b \in Agent : b # p => u.rec[b] = v.rec[b]
      BY <1>10, <3>4, <3>5, RecordKeeps
    <3>7. Keeps(v, u)
      BY <3>2, <3>6 DEF Keeps
    <3>8. Keeps(t, u)
      BY <1>11, <3>7, KeepsOn
    <3>. QED
      BY <3>5, <3>6, <3>8
  <2>3. CASE ~Stale(k.rec[p], m.at) /\ ~(v.rec[p].live /\ LiveChild(v, p))
    <3>1. PICK fin : fin = IF v.rec[p].finished = 0 THEN m.at ELSE v.rec[p].finished
      OBVIOUS
    <3>2. PICK f : f = [v.rec[p] EXCEPT !.live = FALSE, !.finished = fin]
      OBVIOUS
    <3>3. PICK r : r = [f EXCEPT !.held = FALSE]
      OBVIOUS
    <3>4. u = [v EXCEPT !.rec[p] = r]
      BY <1>5, <2>3, <3>1, <3>2, <3>3 DEF Finish
    <3>5. fin \in Time
      BY <1>7, <1>12, <3>1 DEF Records
    <3>6. /\ f \in Records /\ f.spawn = v.rec[p].spawn /\ (f.sure <=> v.rec[p].sure) /\ f.parent = v.rec[p].parent
          /\ (f.known <=> v.rec[p].known) /\ ~f.live /\ f.finished = fin /\ f.resumed = v.rec[p].resumed
      BY <1>12, <3>2, <3>5 DEF Records
    <3>7. /\ r \in Records /\ r.spawn = f.spawn /\ (r.sure <=> f.sure) /\ r.parent = f.parent
          /\ (r.known <=> f.known) /\ ~r.live /\ r.finished = f.finished /\ r.resumed = f.resumed
      BY <3>3, <3>6 DEF Records
    <3>8. /\ r \in Records /\ r.spawn = v.rec[p].spawn /\ (r.sure <=> v.rec[p].sure) /\ r.parent = v.rec[p].parent
          /\ r.known /\ ~r.live /\ r.finished = IF v.rec[p].finished = 0 THEN m.at ELSE v.rec[p].finished
      BY <1>10, <3>1, <3>6, <3>7
    <3>9. r.resumed = v.rec[p].resumed /\ Turns(v, p, r, u)
      BY <3>4, <3>6, <3>7 DEF Turns
    <3>10. SoundBut(u, {}) /\ Ended(v, u, p, m.at) /\ u.spawns = v.spawns
      BY <1>7, <1>10, <3>8, <3>9, FinishKeeps
    <3>. QED
      BY <2>3, <3>10
  <2>. QED
    BY <2>1, <2>2, <2>3
<1>14. Moves(t, u, m)
  <2>1. CASE Keeps(t, u)
    BY <2>1 DEF Keeps, Moves
  <2>2. CASE Ended(v, u, p, m.at) /\ u.spawns = v.spawns
    <3>. SUFFICES ASSUME NEW b \in Agent
         PROVE  /\ t.rec[b].known => u.rec[b].known
                /\ t.rec[b].sure => u.rec[b].sure
                /\ t.spawns[b].sure => u.spawns[b].sure
                /\ u.spawns[b].made => t.spawns[b].made
                /\ \/ u.rec[b].finished = t.rec[b].finished /\ u.rec[b].resumed = t.rec[b].resumed
                   \/ /\ Finishes(m, b) /\ u.rec[b].resumed = t.rec[b].resumed
                      /\ u.rec[b].finished = IF t.rec[b].finished = 0 THEN m.at ELSE t.rec[b].finished
      BY DEF Moves
    <3>1. /\ t.rec[b].known => v.rec[b].known
          /\ t.rec[b].sure => v.rec[b].sure
          /\ t.spawns[b].sure => v.spawns[b].sure
          /\ v.spawns[b].made <=> t.spawns[b].made
          /\ v.rec[b].finished = t.rec[b].finished /\ v.rec[b].resumed = t.rec[b].resumed
      BY <1>11 DEF Keeps
    <3>2. CASE b = p
      BY <1>7, <2>2, <3>1, <3>2 DEF Ended
    <3>3. CASE b # p
      BY <2>2, <3>1, <3>3 DEF Ended
    <3>. QED
      BY <3>2, <3>3
  <2>. QED
    BY <1>13, <2>1, <2>2
<1>15. rec' = u.rec /\ \A b \in Agent : rec[b].sure => rec'[b].sure
  BY <1>6, <1>8, <1>14 DEF Becomes, Moves
<1>16. StateTyped'
  BY <1>6, <1>15, StateStays
<1>17. WaitsForChildren
  <2>. SUFFICES ASSUME NEW a \in Agent, rec[a].live, ~rec'[a].live, LiveChild(Tree, a)' PROVE FALSE
    BY DEF WaitsForChildren
  <2>0. \E b \in Agent : u.rec[b].parent = a /\ u.rec[b].live
    BY <1>15 DEF LiveChild, Tree
  <2>1. t.rec[a].known /\ t.rec[a].finished = 0
    BY <1>8 DEF SoundBut, RecordsTell
  <2>2. ~Keeps(t, u)
    BY <1>13, <1>15, <2>1 DEF SoundBut, RecordsTell, Keeps, Ended
  <2>3. v.rec[a].live
    BY <1>10, <1>11, <2>1 DEF SoundBut, RecordsTell, Keeps
  <2>4. Ended(v, u, p, m.at) /\ ~(v.rec[p].live /\ LiveChild(v, p))
    BY <1>13, <2>2
  <2>5. a = p
    BY <1>15, <2>3, <2>4 DEF Ended
  <2>. QED
    BY <2>0, <2>3, <2>4, <2>5 DEF Ended, LiveChild
<1>18. heard' = heard
  BY <1>6
<1>. QED
  BY <1>2, <1>6, <1>13, <1>14, <1>16, <1>17, <1>18, HearsKeep

\* A failed call ends the child matched to it.
LEMMA HookFailedKeeps == ASSUME TreeInv, NEW m \in wire, HookFailed(m) PROVE TreeInv' /\ WaitsForChildren
<1>1. PICK p : p = m.hook.by
  OBVIOUS
<1>2. PICK t : t = Tree
  OBVIOUS
<1>3. PICK k : k = Caller(t, p, m.at)
  OBVIOUS
<1>4. PICK a : a = k.spawns[m.hook.call].child
  OBVIOUS
<1>5. PICK u : u = IF a # None /\ k.rec[a].live
                   THEN [k EXCEPT !.rec[a] = [@ EXCEPT !.live = FALSE, !.finished = m.at]] ELSE k
  OBVIOUS
<1>6. m.hook.kind = "failed" /\ m.at \in Time /\ m.at # 0 /\ HookFits(m.hook)
  BY HookIs DEF HookFailed, Takes
<1>7. /\ p \in Agent \cup {Root} /\ m.hook.call \in Agent /\ m.hook.interrupt \in BOOLEAN
      /\ \E c \in Agent : agents[c].life = "failed"
  BY <1>1, <1>6 DEF HookFits
<1>8. /\ wire' = wire \ {m} /\ UNCHANGED runner /\ Becomes(u)
      /\ needs' = Cleared(needs, p, None, m.at) /\ seen' = seen \cup {m.hook.call}
      /\ turn' = turn \/ turn' = [turn EXCEPT !.ended = TRUE, !.stopAt = m.at]
      /\ heard' = heard \/ heard' = Latest(m.at, TRUE)
  BY <1>1, <1>2, <1>3, <1>4, <1>5 DEF HookFailed, Takes
<1>9. SoundBut(t, {}) /\ t.rec = rec
  BY <1>2, TreeIs
<1>10. SoundBut(k, {}) /\ Returns(t, k, p, m.at)
  BY <1>3, <1>6, <1>7, <1>9, CallerKeeps
<1>11. /\ SoundBut(u, {}) /\ u.spawns = k.spawns
       /\ \A b \in Agent : (k.rec[b].known => u.rec[b].known) /\ (k.rec[b].sure => u.rec[b].sure)
  <2>1. CASE ~(a # None /\ k.rec[a].live)
    BY <1>5, <1>10, <2>1
  <2>2. CASE a # None /\ k.rec[a].live
    <3>1. PICK r : r = [k.rec[a] EXCEPT !.live = FALSE, !.finished = m.at]
      OBVIOUS
    <3>2. a \in Agent
      BY <1>4, <1>7, <1>10, <2>2, RecordOf DEF CallsMade
    <3>3. k.rec[a] \in Records /\ k.rec[a].known
      BY <1>10, <2>2, <3>2, RecordOf
    <3>4. /\ r \in Records /\ r.spawn = k.rec[a].spawn /\ (r.sure <=> k.rec[a].sure) /\ r.parent = k.rec[a].parent
          /\ r.known /\ ~r.live /\ r.finished = m.at
      BY <1>6, <3>1, <3>3 DEF Records
    <3>5. RecordFits(k, a, r) /\ Turns(k, a, r, u)
      BY <1>5, <1>6, <2>2, <3>1, <3>2, <3>4 DEF RecordFits, Turns
    <3>6. PICK out : out = {}
      OBVIOUS
    <3>7. /\ SoundBut(u, out) /\ u.spawns = k.spawns
          /\ u.rec[a] = r /\ \A b \in Agent : b # a => u.rec[b] = k.rec[b]
      BY <1>10, <3>5, <3>6, RecordKeeps
    <3>. QED
      BY <3>4, <3>6, <3>7
  <2>. QED
    BY <2>1, <2>2
<1>12. ~NoneFailed
  BY <1>7 DEF NoneFailed
<1>13. Moves(t, u, m)
  BY <1>10, <1>11, <1>12 DEF Returns, Moves
<1>14. rec' = u.rec /\ \A b \in Agent : rec[b].sure => rec'[b].sure
  BY <1>8, <1>9, <1>13 DEF Becomes, Moves
<1>15. StateTyped
  BY DEF TreeInv
<1>16. /\ heard' \in [named : SUBSET Agent, told : SUBSET Agent, answered : SUBSET Question,
                      lastAt : Time, lastEnds : BOOLEAN]
       /\ heard'.answered = heard.answered /\ heard'.named = heard.named
  BY <1>6, <1>8, <1>15 DEF StateTyped, Latest
<1>17. StateTyped'
  <2>1. needs' \in NeedsSet /\ (needs'.for = needs.for \/ needs'.for = None)
    BY <1>8, <1>15, ClearedIs DEF StateTyped, NeedsSet
  <2>2. needs'.for \notin heard'.answered
    BY <1>15, <1>16, <2>1, QuestionsAssumption DEF StateTyped, AnsweredStaysAnswered
  <2>3. \A b \in heard'.named : rec'[b].sure
    BY <1>14, <1>15, <1>16 DEF StateTyped
  <2>4. heard'.answered \subseteq seen' /\ seen' \subseteq Question \cup Agent
    BY <1>7, <1>8, <1>15, <1>16 DEF StateTyped
  <2>5. turn' \in [ended : BOOLEAN, promptAt : Time, stopAt : Time, background : SUBSET Agent]
    BY <1>6, <1>8, <1>15 DEF StateTyped
  <2>. QED
    BY <1>15, <1>16, <2>1, <2>2, <2>3, <2>4, <2>5 DEF StateTyped, AnsweredStaysAnswered, NeedsSet
<1>18. WaitsForChildren
  BY <1>7 DEF WaitsForChildren
<1>. QED
  BY <1>2, <1>8, <1>11, <1>12, <1>13, <1>17, <1>18, HearsKeep

\* A report of how an agent ended confirms the call that made it, and ends it unless it
\* went on since.
LEMMA ReportedKeeps ==
    ASSUME NEW t, SoundBut(t, {}), NEW a \in Agent, NEW at \in Time, at # 0, NEW u, u = Reported(t, a, at)
    PROVE  /\ SoundBut(u, {})
           /\ \E x : /\ SoundBut(x, {}) /\ Keeps(t, x)
                     /\ \/ u = x /\ (x.rec[a].known => x.rec[a].resumed # 0)
                        \/ Ended(x, u, a, at) /\ u.spawns = x.spawns
<1>1. PICK late : late = {}
  OBVIOUS
<1>2. SoundBut(t, late) /\ late \subseteq {a} /\ Keeps(t, t)
  BY <1>1 DEF Keeps
<1>3. CASE t.spawns[a].made
  <2>1. PICK x : x = Confirm(t, a, a, at)
    OBVIOUS
  <2>2. SoundBut(x, {}) /\ Keeps(t, x) /\ x.rec[a].known
    BY <1>2, <1>3, <2>1, ConfirmKeeps
  <2>3. u = Outcome(x, a, at)
    BY <1>3, <2>1 DEF Reported
  <2>4. /\ SoundBut(u, {}) /\ u.spawns = x.spawns
        /\ IF x.rec[a].resumed # 0 /\ at <= x.rec[a].resumed THEN u = x ELSE Ended(x, u, a, at)
    BY <2>2, <2>3, OutcomeKeeps
  <2>. QED
    BY <2>2, <2>4
<1>4. CASE ~t.spawns[a].made /\ t.rec[a].known
  <2>1. u = Outcome(t, a, at)
    BY <1>4 DEF Reported
  <2>2. /\ SoundBut(u, {}) /\ u.spawns = t.spawns
        /\ IF t.rec[a].resumed # 0 /\ at <= t.rec[a].resumed THEN u = t ELSE Ended(t, u, a, at)
    BY <1>4, <2>1, OutcomeKeeps
  <2>. QED
    BY <1>2, <2>2
<1>5. CASE ~t.spawns[a].made /\ ~t.rec[a].known
  BY <1>2, <1>5 DEF Reported
<1>. QED
  BY <1>3, <1>4, <1>5

\* What a prompt leaves of the root's turn, its needs and what was heard.
LEMMA LatestIs ==
    ASSUME StateTyped, NEW at \in Time, NEW ends \in BOOLEAN, NEW h, h = Latest(at, ends)
    PROVE  /\ h \in [named : SUBSET Agent, told : SUBSET Agent, answered : SUBSET Question,
                     lastAt : Time, lastEnds : BOOLEAN]
           /\ h.named = heard.named /\ h.told = heard.told /\ h.answered = heard.answered
  BY DEF StateTyped, Latest

\* A prompt ends the agent whose result it carries, if it is known.
LEMMA HookPromptKeeps == ASSUME TreeInv, NEW m \in wire, HookPrompt(m) PROVE TreeInv' /\ WaitsForChildren
<1>1. PICK t : t = Tree
  OBVIOUS
<1>2. PICK u : u = IF m.hook.notes = {} THEN t ELSE Reported(t, CHOOSE a \in m.hook.notes : TRUE, m.at)
  OBVIOUS
<1>3. PICK told : told = {a \in m.hook.notes : u.rec[a].known}
  OBVIOUS
<1>4. PICK reported : reported = [turn EXCEPT !.background = @ \ m.hook.notes]
  OBVIOUS
<1>5. m.hook.kind = "prompt" /\ m.at \in Time /\ m.at # 0 /\ HookFits(m.hook)
  BY HookIs DEF HookPrompt, Takes
<1>6. m.hook.notes = {} \/ \E a \in Agent : m.hook.notes = {a}
  BY <1>5 DEF HookFits
<1>7. PICK h : h = IF m.hook.by = Root THEN Latest(m.at, FALSE) ELSE heard
  OBVIOUS
<1>8. /\ wire' = wire \ {m} /\ UNCHANGED runner /\ Becomes(u) /\ UNCHANGED seen
      /\ turn' = reported \/ turn' = [reported EXCEPT !.ended = FALSE, !.promptAt = m.at]
      /\ needs' = needs \/ needs' = NoNeed
      /\ heard' = [h EXCEPT !.told = @ \cup told]
  BY <1>1, <1>2, <1>3, <1>4, <1>7 DEF HookPrompt, Takes
<1>9. SoundBut(t, {}) /\ t.rec = rec /\ t.spawns = spawns
  BY <1>1, TreeIs
<1>10. \A a \in Agent : m.hook.notes = {a} =>
          /\ SoundBut(u, {})
          /\ \E x : /\ SoundBut(x, {}) /\ Keeps(t, x)
                    /\ \/ u = x /\ (x.rec[a].known => x.rec[a].resumed # 0)
                       \/ Ended(x, u, a, m.at) /\ u.spawns = x.spawns
  <2>. SUFFICES ASSUME NEW a \in Agent, m.hook.notes = {a}
       PROVE  /\ SoundBut(u, {})
              /\ \E x : /\ SoundBut(x, {}) /\ Keeps(t, x)
                        /\ \/ u = x /\ (x.rec[a].known => x.rec[a].resumed # 0)
                           \/ Ended(x, u, a, m.at) /\ u.spawns = x.spawns
    OBVIOUS
  <2>1. (CHOOSE b \in m.hook.notes : TRUE) = a
    OBVIOUS
  <2>2. m.hook.notes # {}
    OBVIOUS
  <2>3. u = Reported(t, a, m.at)
    BY <1>2, <2>1, <2>2
  <2>. QED
    BY <1>5, <1>9, <2>3, ReportedKeeps
<1>11. \/ u = t /\ m.hook.notes = {}
       \/ \E a \in Agent : m.hook.notes = {a}
  BY <1>2, <1>6
<1>12. SoundBut(u, {})
  BY <1>9, <1>10, <1>11
<1>13. Moves(t, u, m)
  <2>1. CASE u = t
    BY <2>1 DEF Moves
  <2>2. ASSUME NEW a \in Agent, m.hook.notes = {a} PROVE Moves(t, u, m)
    <3>1. PICK x : /\ SoundBut(x, {}) /\ Keeps(t, x)
                   /\ \/ u = x
                      \/ Ended(x, u, a, m.at) /\ u.spawns = x.spawns
      BY <1>10, <2>2
    <3>2. Finishes(m, a)
      BY <1>5, <2>2 DEF Finishes
    <3>. SUFFICES ASSUME NEW b \in Agent
         PROVE  /\ t.rec[b].known => u.rec[b].known
                /\ t.rec[b].sure => u.rec[b].sure
                /\ t.spawns[b].sure => u.spawns[b].sure
                /\ u.spawns[b].made => t.spawns[b].made
                /\ \/ u.rec[b].finished = t.rec[b].finished /\ u.rec[b].resumed = t.rec[b].resumed
                   \/ /\ Finishes(m, b) /\ u.rec[b].resumed = t.rec[b].resumed
                      /\ u.rec[b].finished = IF t.rec[b].finished = 0 THEN m.at ELSE t.rec[b].finished
      BY DEF Moves
    <3>3. /\ t.rec[b].known => x.rec[b].known
          /\ t.rec[b].sure => x.rec[b].sure
          /\ t.spawns[b].sure => x.spawns[b].sure
          /\ x.spawns[b].made <=> t.spawns[b].made
          /\ x.rec[b].finished = t.rec[b].finished /\ x.rec[b].resumed = t.rec[b].resumed
      BY <3>1 DEF Keeps
    <3>4. CASE u = x
      BY <3>3, <3>4
    <3>5. CASE Ended(x, u, a, m.at) /\ u.spawns = x.spawns /\ b = a
      BY <3>2, <3>3, <3>5 DEF Ended
    <3>6. CASE Ended(x, u, a, m.at) /\ u.spawns = x.spawns /\ b # a
      BY <3>3, <3>6 DEF Ended
    <3>. QED
      BY <3>1, <3>4, <3>5, <3>6
  <2>. QED
    BY <1>11, <2>1, <2>2
<1>14. rec' = u.rec /\ \A b \in Agent : rec[b].sure => rec'[b].sure
  BY <1>8, <1>9, <1>13 DEF Becomes, Moves
<1>15. StateTyped
  BY DEF TreeInv
<1>16. /\ h \in [named : SUBSET Agent, told : SUBSET Agent, answered : SUBSET Question,
                 lastAt : Time, lastEnds : BOOLEAN]
       /\ h.named = heard.named /\ h.told = heard.told /\ h.answered = heard.answered
  <2>1. CASE m.hook.by = Root
    <3>1. FALSE \in BOOLEAN
      OBVIOUS
    <3>. QED
      BY <1>5, <1>7, <1>15, <2>1, <3>1, LatestIs
  <2>2. CASE m.hook.by # Root
    BY <1>7, <1>15, <2>2 DEF StateTyped
  <2>. QED
    BY <2>1, <2>2
<1>17. told \subseteq Agent
  BY <1>3, <1>6
<1>18. /\ heard' \in [named : SUBSET Agent, told : SUBSET Agent, answered : SUBSET Question,
                      lastAt : Time, lastEnds : BOOLEAN]
       /\ heard'.named = heard.named /\ heard'.told = heard.told \cup told /\ heard'.answered = heard.answered
  BY <1>8, <1>16, <1>17
<1>19. StateTyped'
  <2>1. NoNeed \in NeedsSet /\ NoNeed.for = None
    BY HooksAssumption DEF NoNeed, NeedsSet, Time
  <2>2. needs' \in NeedsSet /\ (needs'.for = needs.for \/ needs'.for = None)
    BY <1>8, <1>15, <2>1 DEF StateTyped, NeedsSet
  <2>3. needs'.for \notin heard'.answered
    BY <1>15, <1>18, <2>2, QuestionsAssumption DEF StateTyped, AnsweredStaysAnswered
  <2>4. \A b \in heard'.named : rec'[b].sure
    BY <1>14, <1>15, <1>18 DEF StateTyped
  <2>5. heard'.answered \subseteq seen' /\ seen' \subseteq Question \cup Agent
    BY <1>8, <1>15, <1>18 DEF StateTyped
  <2>6. reported \in [ended : BOOLEAN, promptAt : Time, stopAt : Time, background : SUBSET Agent]
    BY <1>4, <1>15 DEF StateTyped
  <2>7. turn' \in [ended : BOOLEAN, promptAt : Time, stopAt : Time, background : SUBSET Agent]
    BY <1>5, <1>8, <2>6
  <2>. QED
    BY <1>18, <2>2, <2>3, <2>4, <2>5, <2>7 DEF StateTyped, AnsweredStaysAnswered, NeedsSet
<1>20. NoneFailed => \A a \in heard'.told :
          a \in heard.told \/ u.rec[a].finished # 0 \/ ~(agents[a].runs <= 1)
  <2>. SUFFICES ASSUME NoneFailed, NEW a \in told, agents[a].runs <= 1 PROVE u.rec[a].finished # 0
    BY <1>18
  <2>1. a \in Agent /\ m.hook.notes = {a} /\ u.rec[a].known
    BY <1>3, <1>6
  <2>2. EndedIsQuiet
    BY DEF TreeInv
  <2>3. rec[a].resumed = 0
    BY <2>1, <2>2 DEF EndedIsQuiet
  <2>4. PICK x : /\ SoundBut(x, {}) /\ Keeps(t, x)
                 /\ \/ u = x /\ (x.rec[a].known => x.rec[a].resumed # 0)
                    \/ Ended(x, u, a, m.at)
    BY <1>10, <2>1
  <2>5. x.rec[a].resumed = 0
    BY <1>9, <2>1, <2>3, <2>4 DEF Keeps
  <2>6. Ended(x, u, a, m.at)
    BY <2>1, <2>4, <2>5
  <2>. QED
    BY <1>5, <2>1, <2>6 DEF Ended
<1>21. WaitsForChildren
  <2>. SUFFICES ASSUME NEW a \in Agent, rec[a].live, ~rec'[a].live PROVE a \in heard'.told
    BY DEF WaitsForChildren
  <2>1. t.rec[a].known /\ t.rec[a].finished = 0 /\ u # t
    BY <1>9, <1>14 DEF SoundBut, RecordsTell
  <2>2. PICK c \in Agent : m.hook.notes = {c}
    BY <1>11, <2>1
  <2>3. PICK x : /\ SoundBut(x, {}) /\ Keeps(t, x)
                 /\ \/ u = x
                    \/ Ended(x, u, c, m.at)
    BY <1>10, <2>2
  <2>4. x.rec[a].live
    BY <2>1, <2>3 DEF SoundBut, RecordsTell, Keeps
  <2>5. a = c
    BY <1>14, <2>3, <2>4 DEF Ended
  <2>6. u.rec[a].known
    BY <1>13, <2>1 DEF Moves
  <2>. QED
    BY <1>3, <1>18, <2>2, <2>5, <2>6
<1>. QED
  BY <1>1, <1>8, <1>12, <1>13, <1>19, <1>20, <1>21, HearsKeep

\* The end of the root's turn leaves the tree alone.
LEMMA HookTurnEndKeeps == ASSUME TreeInv, NEW m \in wire, HookTurnEnd(m) PROVE TreeInv' /\ WaitsForChildren
<1>1. PICK t : t = Tree
  OBVIOUS
<1>2. m.hook.kind = "turnend" /\ m.at \in Time /\ HookFits(m.hook)
  BY HookIs DEF HookTurnEnd, Takes
<1>3. SoundBut(t, {}) /\ t.rec = rec /\ t.spawns = spawns /\ t.pending = pending
  BY <1>1, TreeIs
<1>4. PICK back : back = {a \in m.hook.tasks : ~rec[a].outcome}
  OBVIOUS
<1>5. /\ wire' = wire \ {m} /\ UNCHANGED runner /\ Becomes(t) /\ UNCHANGED <<rec, seen>>
      /\ \/ UNCHANGED <<turn, needs>>
         \/ turn' = [turn EXCEPT !.ended = TRUE, !.stopAt = m.at, !.background = back] /\ needs' = NoNeed
      /\ heard' = Latest(m.at, TRUE)
  BY <1>3, <1>4 DEF HookTurnEnd, Takes, Becomes, tree
<1>6. Moves(t, t, m)
  BY DEF Moves
<1>7. StateTyped
  BY DEF TreeInv
<1>8. /\ heard' \in [named : SUBSET Agent, told : SUBSET Agent, answered : SUBSET Question,
                     lastAt : Time, lastEnds : BOOLEAN]
      /\ heard'.named = heard.named /\ heard'.told = heard.told /\ heard'.answered = heard.answered
  <2>1. TRUE \in BOOLEAN
    OBVIOUS
  <2>. QED
    BY <1>2, <1>5, <1>7, <2>1, LatestIs
<1>9. StateTyped'
  <2>1. NoNeed \in NeedsSet /\ NoNeed.for = None
    BY HooksAssumption DEF NoNeed, NeedsSet, Time
  <2>2. needs' \in NeedsSet /\ (needs'.for = needs.for \/ needs'.for = None)
    BY <1>5, <1>7, <2>1 DEF StateTyped, NeedsSet
  <2>3. needs'.for \notin heard'.answered
    BY <1>7, <1>8, <2>2, QuestionsAssumption DEF StateTyped, AnsweredStaysAnswered
  <2>4. \A b \in heard'.named : rec'[b].sure
    BY <1>5, <1>7, <1>8 DEF StateTyped
  <2>5. heard'.answered \subseteq seen' /\ seen' \subseteq Question \cup Agent
    BY <1>5, <1>7, <1>8 DEF StateTyped
  <2>6. back \subseteq Agent
    BY <1>2, <1>4 DEF HookFits
  <2>7. turn' \in [ended : BOOLEAN, promptAt : Time, stopAt : Time, background : SUBSET Agent]
    BY <1>2, <1>5, <1>7, <2>6 DEF StateTyped
  <2>. QED
    BY <1>8, <2>2, <2>3, <2>4, <2>5, <2>7 DEF StateTyped, AnsweredStaysAnswered, NeedsSet
<1>10. WaitsForChildren
  BY <1>5 DEF WaitsForChildren
<1>. QED
  BY <1>1, <1>3, <1>5, <1>6, <1>8, <1>9, <1>10, HearsKeep

\* A prompt for permission shows on the root, and makes its agent known.
LEMMA HookNotifyKeeps == ASSUME TreeInv, NEW m \in wire, HookNotify(m) PROVE TreeInv' /\ WaitsForChildren
<1>1. PICK p : p = m.hook.by
  OBVIOUS
<1>2. PICK t : t = Tree
  OBVIOUS
<1>3. PICK u : u = Known(t, p, m.at)
  OBVIOUS
<1>4. /\ m.hook.kind = "notify" /\ wire' = wire \ {m} /\ UNCHANGED runner /\ Becomes(u)
      /\ needs' = [for |-> Asking, by |-> p, at |-> m.at] /\ UNCHANGED <<turn, seen, heard>>
  BY <1>1, <1>2, <1>3 DEF HookNotify, Takes
<1>5. m.at \in Time /\ p \in Agent \cup {Root}
  BY <1>1, <1>4, HookIs DEF HookFits
<1>6. SoundBut(t, {}) /\ t.rec = rec
  BY <1>2, TreeIs
<1>7. SoundBut(u, {}) /\ Keeps(t, u)
  <2>1. PICK out : out = {}
    OBVIOUS
  <2>2. SoundBut(u, out) /\ Keeps(t, u)
    BY <1>3, <1>5, <1>6, <2>1, KnownKeeps
  <2>. QED
    BY <2>1, <2>2
<1>8. Moves(t, u, m)
  BY <1>7 DEF Keeps, Moves
<1>9. rec' = u.rec /\ \A b \in Agent : rec[b].sure => rec'[b].sure
  BY <1>4, <1>6, <1>8 DEF Becomes, Moves
<1>10. StateTyped
  BY DEF TreeInv
<1>11. StateTyped'
  <2>1. needs' \in NeedsSet /\ needs'.for = Asking
    BY <1>4, <1>5 DEF NeedsSet
  <2>2. heard.answered \subseteq Question
    BY <1>10 DEF StateTyped
  <2>3. needs'.for \notin heard'.answered
    BY <1>4, <2>1, <2>2, QuestionsAssumption
  <2>. QED
    BY <1>4, <1>9, <1>10, <2>1, <2>3 DEF StateTyped, AnsweredStaysAnswered, NeedsSet
<1>12. WaitsForChildren
  <2>. SUFFICES ASSUME NEW a \in Agent, rec[a].live PROVE rec'[a].live
    BY DEF WaitsForChildren
  <2>1. t.rec[a].known /\ t.rec[a].finished = 0
    BY <1>6 DEF SoundBut, RecordsTell
  <2>. QED
    BY <1>7, <1>9, <2>1 DEF SoundBut, RecordsTell, Keeps
<1>13. heard' = heard
  BY <1>4
<1>. QED
  BY <1>2, <1>4, <1>7, <1>8, <1>11, <1>12, <1>13, HearsKeep

-----------------------------------------------------------------------------
(* What the runner does leaves the tree alone, and puts a hook under way.       *)

AgentRecords == [caller : Agent \cup {Root, None}, type : Type, async : BOOLEAN,
                 life : Lives, runs : Nat, named : BOOLEAN]
AgentFits(a, r) ==
    /\ r \in AgentRecords
    /\ r.life # "none" => r.caller \notin {None, a}
    /\ r.life = "over" => r.named
    /\ r.life \in {"running", "ended", "over"} => r.runs >= 1
AgentsTyped == DOMAIN agents = Agent /\ agents = [a \in Agent |-> agents[a]] /\ \A a \in Agent : AgentFits(a, agents[a])

\* An agent that was called stays called, by whom it was, and a call that failed has failed.
GrowsTo(r, s) ==
    /\ r.life # "none" => s.life # "none" /\ s.caller = r.caller
    /\ r.life = "failed" => s.life = "failed"
Grows == \A a \in Agent : GrowsTo(agents[a], agents'[a])

\* The new hook m is no work of an agent that ended, unless it runs once more.
QuietTo(r, s, works, ends) ==
    s.runs <= 1 =>
        /\ r.runs <= 1
        /\ r.life \in {"ended", "over"} => s.life \in {"ended", "over"} /\ ~works
        /\ ends => s.life \in {"ended", "over"}
Settles(m) ==
    \A a \in Agent : QuietTo(agents[a], agents'[a], Works1(m, a), Finishes(m, a))

LEMMA AgentsFit == ASSUME RunnerTyped PROVE AgentsTyped
  BY DEF RunnerTyped, AgentsTyped, AgentFits, AgentRecords

LEMMA FitsStill == ASSUME Grows, NEW h, HookFits(h) PROVE HookFits(h)'
<1>1. \A a \in Agent : \A p : Was(a, p) => Was(a, p)'
  BY DEF Grows, GrowsTo, Was
<1>2. (\E a \in Agent : agents[a].life = "failed") => \E a \in Agent : agents'[a].life = "failed"
  BY DEF Grows, GrowsTo
<1>3. \A a \in Agent : agents[a].life # "none" => agents'[a].life # "none"
  BY DEF Grows, GrowsTo
<1>4. /\ h.kind = "call" => Was(h.call, h.by)' /\ h.call \in Agent
      /\ h.kind = "result" => Was(h.call, h.by)'
  BY <1>1 DEF HookFits, Was
<1>. QED
  BY <1>2, <1>3, <1>4 DEF HookFits

LEMMA SoundGrows == ASSUME Grows, NEW t, SoundBut(t, {}) PROVE SoundBut(t, {})'
<1>1. MadeWas(t)'
  BY DEF SoundBut, MadeWas, Grows, GrowsTo
<1>2. SureIsTrue(t)'
  <2>1. \A a \in Agent : t.rec[a].sure => agents'[a].caller = agents[a].caller
    <3>. SUFFICES ASSUME NEW a \in Agent, t.rec[a].sure PROVE agents'[a].caller = agents[a].caller
      OBVIOUS
    <3>1. t.spawns[a].child = a
      BY DEF SoundBut, SureIsTrue
    <3>2. a # None
      BY NamesAssumption
    <3>3. t.spawns[a].made
      BY <3>1, <3>2 DEF SoundBut, Paired
    <3>. QED
      BY <3>3 DEF SoundBut, MadeWas, Grows, GrowsTo
  <2>. QED
    BY <2>1 DEF SoundBut, SureIsTrue
<1>3. TreeTyped(t)' /\ RecordsTell(t)' /\ Paired(t)' /\ WaitingAre(t, {})'
  BY DEF SoundBut, TreeTyped, RecordsTell, Paired, WaitingAre
<1>. QED
  BY <1>1, <1>2, <1>3 DEF SoundBut

LEMMA EmitKeeps ==
    ASSUME TreeInv, NEW h, Emit(h), NEW n, n = [at |-> clock + 1, hook |-> h],
           HookFits(h)', AgentsTyped', busy' \in BOOLEAN, asked' \in [Question -> Agent \cup {Root, None}],
           Grows, h.kind = "call" => agents[h.call].life = "none",
           NoneFailed' => CallersWait' /\ Settles(n)
    PROVE  TreeInv' /\ WaitsForChildren
<1>0. /\ RunnerTyped /\ WireFits /\ SoundBut(Tree, {}) /\ CallsComeOnce /\ StateTyped
      /\ clock < MaxHooks /\ clock' = clock + 1 /\ wire' = wire \cup {n} /\ n.hook = h /\ n.at = clock + 1
      /\ others' \in {others, others + 1} /\ others' <= MaxOther
      /\ rec' = rec /\ spawns' = spawns /\ pending' = pending
      /\ turn' = turn /\ needs' = needs /\ seen' = seen /\ heard' = heard
  BY DEF TreeInv, Emit, tree, state
<1>1. clock \in Nat /\ clock' \in Time /\ others' \in 0..MaxOther
  BY <1>0, HooksAssumption DEF RunnerTyped, Time
<1>2. RunnerTyped'
  BY <1>1 DEF RunnerTyped, AgentsTyped, AgentFits, AgentRecords
<1>3. WireFits'
  <2>. SUFFICES ASSUME NEW m \in wire' PROVE m.at \in 1..clock' /\ HookFits(m.hook)'
    BY DEF WireFits
  <2>1. CASE m \in wire
    <3>1. HookFits(m.hook) /\ m.at \in 1..clock
      BY <1>0, <2>1 DEF WireFits
    <3>2. PICK g : g = m.hook
      OBVIOUS
    <3>3. HookFits(g)'
      BY <3>1, <3>2, FitsStill
    <3>. QED
      BY <1>0, <1>1, <3>1, <3>2, <3>3
  <2>2. CASE m = n
    BY <1>0, <1>1, <2>2
  <2>. QED
    BY <1>0, <2>1, <2>2
<1>4. SoundBut(Tree, {})'
  <2>1. PICK t : t = Tree
    OBVIOUS
  <2>2. Tree' = t
    BY <1>0, <2>1 DEF Tree
  <2>3. SoundBut(t, {})'
    BY <1>0, <2>1, SoundGrows
  <2>. QED
    BY <2>2, <2>3
<1>5. CallsComeOnce'
  <2>1. \A m \in wire : m.hook.kind = "call" => m.hook.call \in Agent /\ agents[m.hook.call].life # "none"
    BY <1>0 DEF WireFits, HookFits, Was
  <2>2. h.kind = "call" => h.call \in Agent
    BY DEF HookFits, Was
  <2>3. h.kind = "call" => ~spawns[h.call].made
    BY <1>0, <2>2 DEF SoundBut, MadeWas, Tree
  <2>4. \A m \in wire : m.hook.kind = "call" /\ h.kind = "call" => m.hook.call # h.call
    BY <2>1
  <2>. QED
    BY <1>0, <2>3, <2>4 DEF CallsComeOnce
<1>6. StateTyped'
  BY <1>0 DEF StateTyped, AnsweredStaysAnswered
<1>7. NoneFailed' => CallersWait' /\ EndedIsQuiet'
  <2>. SUFFICES ASSUME NoneFailed' PROVE EndedIsQuiet'
    OBVIOUS
  <2>1. NoneFailed
    BY DEF NoneFailed, Grows, GrowsTo
  <2>2. EndedIsQuiet
    BY <2>1 DEF TreeInv
  <2>. SUFFICES ASSUME NEW a \in Agent, agents'[a].runs <= 1
       PROVE  /\ rec'[a].resumed = 0
              /\ rec'[a].finished # 0 =>
                    /\ agents'[a].life \in {"ended", "over"}
                    /\ \A m \in wire' : Works1(m, a) => m.at <= rec'[a].finished
              /\ \A e \in wire' : Finishes(e, a) =>
                    /\ agents'[a].life \in {"ended", "over"}
                    /\ \A m \in wire' : Works1(m, a) => m.at <= e.at
              /\ a \in heard'.told => rec'[a].finished # 0
    BY DEF EndedIsQuiet
  <2>3. /\ agents[a].runs <= 1
        /\ agents[a].life \in {"ended", "over"} => agents'[a].life \in {"ended", "over"} /\ ~Works1(n, a)
        /\ Finishes(n, a) => agents'[a].life \in {"ended", "over"}
    BY DEF Settles, QuietTo
  <2>4. /\ rec[a].resumed = 0
        /\ rec[a].finished # 0 =>
              /\ agents[a].life \in {"ended", "over"}
              /\ \A m \in wire : Works1(m, a) => m.at <= rec[a].finished
        /\ \A e \in wire : Finishes(e, a) =>
              /\ agents[a].life \in {"ended", "over"}
              /\ \A m \in wire : Works1(m, a) => m.at <= e.at
        /\ a \in heard.told => rec[a].finished # 0
    BY <2>2, <2>3 DEF EndedIsQuiet
  <2>5. rec[a].finished # 0 =>
              /\ agents'[a].life \in {"ended", "over"}
              /\ \A m \in wire' : Works1(m, a) => m.at <= rec[a].finished
    BY <1>0, <2>3, <2>4
  <2>6. \A m \in wire' : m.at \in Nat /\ m.at <= clock + 1
    BY <1>0, <1>1 DEF WireFits
  <2>7. ASSUME NEW e \in wire', Finishes(e, a)
        PROVE  /\ agents'[a].life \in {"ended", "over"}
               /\ \A m \in wire' : Works1(m, a) => m.at <= e.at
    <3>1. CASE e = n
      BY <1>0, <2>3, <2>6, <2>7, <3>1
    <3>2. CASE e \in wire
      BY <1>0, <2>3, <2>4, <2>7, <3>2
    <3>. QED
      BY <1>0, <3>1, <3>2
  <2>. QED
    BY <1>0, <2>4, <2>5, <2>7
<1>8. WaitsForChildren
  BY <1>0 DEF WaitsForChildren
<1>. QED
  BY <1>2, <1>3, <1>4, <1>5, <1>6, <1>7, <1>8 DEF TreeInv

LEMMA RunningIs ==
    ASSUME NEW p \in Agent \cup {Root}, Running(p), p \in Agent PROVE agents[p].life = "running"
  BY NamesAssumption DEF Running

\* A hook of an agent that runs, which calls nobody and ends nobody.
LEMMA SameKeeps ==
    ASSUME TreeInv, NEW h, Emit(h), agents' = agents, HookFits(h),
           busy' \in BOOLEAN, asked' \in [Question -> Agent \cup {Root, None}],
           h.kind \in {"tool", "ask", "answer", "notify", "prompt", "turnend"},
           h.kind \in {"tool", "ask", "answer"} /\ h.by \in Agent => agents[h.by].life = "running",
           h.kind = "prompt" => h.notes = {}
    PROVE  TreeInv' /\ WaitsForChildren
<1>1. PICK n : n = [at |-> clock + 1, hook |-> h]
  OBVIOUS
<1>2. RunnerTyped /\ (NoneFailed => CallersWait)
  BY DEF TreeInv
<1>3. AgentsTyped'
  BY <1>2, AgentsFit DEF AgentsTyped, AgentFits, AgentRecords
<1>4. Grows
  BY DEF Grows, GrowsTo
<1>5. HookFits(h)'
  BY <1>4, FitsStill
<1>6. NoneFailed' => CallersWait'
  BY <1>2 DEF NoneFailed, CallersWait, Open
<1>7. Settles(n)
  <2>. SUFFICES ASSUME NEW a \in Agent PROVE QuietTo(agents[a], agents'[a], Works1(n, a), Finishes(n, a))
    BY DEF Settles
  <2>1. n.hook = h
    BY <1>1
  <2>2. ~Finishes(n, a)
    BY <2>1 DEF Finishes
  <2>3. Works1(n, a) => agents[a].life = "running"
    BY <2>1 DEF Works1
  <2>4. agents'[a] = agents[a]
    OBVIOUS
  <2>. QED
    BY <2>2, <2>3, <2>4 DEF QuietTo
<1>. QED
  BY <1>1, <1>3, <1>4, <1>5, <1>6, <1>7, EmitKeeps

LEMMA WorksKeeps ==
    ASSUME TreeInv, NEW p \in Agent \cup {Root}, Works(p) \/ NeedsPermission(p) PROVE TreeInv' /\ WaitsForChildren
<1>0. RunnerTyped
  BY DEF TreeInv
<1>1. PICK h : h = IF Works(p) THEN [kind |-> "tool", by |-> p] ELSE [kind |-> "notify", by |-> p]
  OBVIOUS
<1>2. Emit(h) /\ agents' = agents /\ busy' = busy /\ asked' = asked /\ Running(p)
  BY <1>1 DEF Works, NeedsPermission, Acting
<1>3. h.kind \in {"tool", "notify"} /\ h.by = p
  BY <1>1
<1>4. HookFits(h)
  BY <1>3 DEF HookFits
<1>5. p \in Agent => agents[p].life = "running"
  BY <1>2, RunningIs
<1>6. busy' \in BOOLEAN /\ asked' \in [Question -> Agent \cup {Root, None}]
  BY <1>0, <1>2 DEF RunnerTyped
<1>. QED
  BY <1>2, <1>3, <1>4, <1>5, <1>6, SameKeeps

LEMMA AsksKeeps ==
    ASSUME TreeInv, NEW p \in Agent \cup {Root}, NEW q \in Question, Asks(p, q) PROVE TreeInv' /\ WaitsForChildren
<1>0. RunnerTyped
  BY DEF TreeInv
<1>1. PICK h : h = [kind |-> "ask", by |-> p, question |-> q]
  OBVIOUS
<1>2. Emit(h) /\ agents' = agents /\ busy' = busy /\ asked' = [asked EXCEPT ![q] = p] /\ Running(p)
  BY <1>1 DEF Asks, Acting
<1>3. h.kind = "ask" /\ h.by = p /\ h.question = q
  BY <1>1
<1>4. HookFits(h)
  BY <1>3 DEF HookFits
<1>5. p \in Agent => agents[p].life = "running"
  BY <1>2, RunningIs
<1>6. busy' \in BOOLEAN /\ asked' \in [Question -> Agent \cup {Root, None}]
  BY <1>0, <1>2 DEF RunnerTyped
<1>. QED
  BY <1>2, <1>3, <1>4, <1>5, <1>6, SameKeeps

LEMMA AnsweredKeeps ==
    ASSUME TreeInv, NEW q \in Question, Answered(q) PROVE TreeInv' /\ WaitsForChildren
<1>0. RunnerTyped
  BY DEF TreeInv
<1>1. PICK p : p = asked[q]
  OBVIOUS
<1>2. PICK h : h = [kind |-> "answer", by |-> p, question |-> q]
  OBVIOUS
<1>3. Emit(h) /\ agents' = agents /\ busy' = busy /\ asked' = asked /\ Running(p) /\ p # None
  BY <1>1, <1>2 DEF Answered, Acting
<1>4. h.kind = "answer" /\ h.by = p /\ h.question = q
  BY <1>2
<1>5. p \in Agent \cup {Root}
  BY <1>0, <1>1, <1>3 DEF RunnerTyped
<1>6. HookFits(h)
  BY <1>4, <1>5 DEF HookFits
<1>7. p \in Agent => agents[p].life = "running"
  BY <1>3, <1>5, RunningIs
<1>8. busy' \in BOOLEAN /\ asked' \in [Question -> Agent \cup {Root, None}]
  BY <1>0, <1>3 DEF RunnerTyped
<1>. QED
  BY <1>3, <1>4, <1>6, <1>7, <1>8, SameKeeps

LEMMA RootKeeps ==
    ASSUME TreeInv, Prompts \/ TurnEnds PROVE TreeInv' /\ WaitsForChildren
<1>0. RunnerTyped
  BY DEF TreeInv
<1>1. PICK tasks : tasks = {a \in Agent : agents[a].async /\ agents[a].life = "running"}
  OBVIOUS
<1>2. PICK h : h = IF Prompts THEN [kind |-> "prompt", by |-> Root, notes |-> {}]
                   ELSE [kind |-> "turnend", tasks |-> tasks]
  OBVIOUS
<1>3. Emit(h) /\ agents' = agents /\ busy' \in BOOLEAN /\ asked' = asked
  BY <1>1, <1>2 DEF Prompts, TurnEnds
<1>4. \/ h.kind = "prompt" /\ h.by = Root /\ h.notes = {}
      \/ h.kind = "turnend" /\ h.tasks = tasks
  BY <1>2
<1>5. tasks \subseteq Agent
  BY <1>1
<1>6. HookFits(h)
  BY <1>4, <1>5 DEF HookFits
<1>7. asked' \in [Question -> Agent \cup {Root, None}]
  BY <1>0, <1>3 DEF RunnerTyped
<1>8. h.kind \in {"prompt", "turnend"} /\ (h.kind = "prompt" => h.notes = {})
  BY <1>4
<1>. QED
  BY <1>3, <1>6, <1>7, <1>8, SameKeeps

\* One agent goes on to be the record r.
LEMMA OneGoes ==
    ASSUME RunnerTyped, NEW a \in Agent, NEW r, agents' = [agents EXCEPT ![a] = r],
           AgentFits(a, r), GrowsTo(agents[a], r)
    PROVE  AgentsTyped' /\ Grows /\ agents'[a] = r /\ \A b \in Agent : b # a => agents'[b] = agents[b]
<1>1. agents = [b \in Agent |-> agents[b]] /\ \A b \in Agent : AgentFits(b, agents[b])
  BY AgentsFit DEF AgentsTyped
<1>2. agents'[a] = r /\ \A b \in Agent : b # a => agents'[b] = agents[b]
  BY <1>1
<1>3. DOMAIN agents' = Agent /\ agents' = [b \in Agent |-> agents'[b]]
  BY <1>1
<1>4. \A b \in Agent : AgentFits(b, agents'[b])
  BY <1>1, <1>2
<1>5. AgentsTyped'
  BY <1>3, <1>4 DEF AgentsTyped, AgentFits, AgentRecords
<1>6. Grows
  BY <1>2 DEF Grows, GrowsTo
<1>. QED
  BY <1>2, <1>5, <1>6

\* What a step of one agent has to show of it.
LEMMA OneKeeps ==
    ASSUME TreeInv, NEW h, Emit(h), NEW a \in Agent, NEW r, agents' = [agents EXCEPT ![a] = r],
           AgentFits(a, r), GrowsTo(agents[a], r), HookFits(h)',
           busy' \in BOOLEAN, asked' \in [Question -> Agent \cup {Root, None}],
           h.kind = "call" => agents[h.call].life = "none",
           h.kind \in {"call", "start", "stop", "result"},
           NoneFailed' =>
              /\ CallersWait'
              /\ \A b \in Agent : h.kind \in {"call", "result"} /\ h.by = b => b # a /\ agents[b].life = "running"
              /\ h.kind = "start" => h.by = a /\ (r.runs <= 1 => agents[a].life = "called" /\ agents[a].runs <= 1)
              /\ h.kind = "stop" => h.by = a /\ r.life \in {"ended", "over"} /\ r.runs = agents[a].runs
              /\ h.kind = "result" => /\ r.runs = agents[a].runs
                                      /\ agents[a].life \in {"ended", "over"} => r.life \in {"ended", "over"}
                                      /\ h.child = a /\ (h.done => r.life \in {"ended", "over"})
              /\ h.kind = "call" => r.runs = agents[a].runs /\ agents[a].life = "none"
    PROVE  TreeInv' /\ WaitsForChildren
<1>1. PICK n : n = [at |-> clock + 1, hook |-> h]
  OBVIOUS
<1>2. RunnerTyped /\ n.hook = h
  BY <1>1 DEF TreeInv
<1>3. AgentsTyped' /\ Grows /\ agents'[a] = r /\ \A b \in Agent : b # a => agents'[b] = agents[b]
  BY <1>2, OneGoes
<1>4. ASSUME NoneFailed' PROVE Settles(n)
  <2>. SUFFICES ASSUME NEW b \in Agent PROVE QuietTo(agents[b], agents'[b], Works1(n, b), Finishes(n, b))
    BY DEF Settles
  <2>1. CASE b # a
    <3>1. ~Finishes(n, b)
      BY <1>2, <1>4, <2>1 DEF Finishes
    <3>2. Works1(n, b) => agents[b].life = "running"
      BY <1>2, <1>4, <2>1 DEF Works1
    <3>3. agents'[b] = agents[b]
      BY <1>3, <2>1
    <3>. QED
      BY <3>1, <3>2, <3>3 DEF QuietTo
  <2>2. CASE b = a
    <3>1. Works1(n, a) => h.kind = "start"
      BY <1>2, <1>4 DEF Works1
    <3>2. Finishes(n, a) => h.kind = "stop" \/ (h.kind = "result" /\ h.done)
      BY <1>2 DEF Finishes
    <3>3. CASE h.kind = "start"
      BY <1>3, <1>4, <2>2, <3>2, <3>3 DEF QuietTo
    <3>4. CASE h.kind = "stop"
      BY <1>3, <1>4, <2>2, <3>1, <3>4 DEF QuietTo
    <3>5. CASE h.kind = "result"
      BY <1>3, <1>4, <2>2, <3>1, <3>2, <3>5 DEF QuietTo
    <3>6. CASE h.kind = "call"
      BY <1>3, <1>4, <2>2, <3>1, <3>2, <3>6 DEF QuietTo
    <3>. QED
      BY <3>3, <3>4, <3>5, <3>6
  <2>. QED
    BY <2>1, <2>2
<1>. QED
  BY <1>1, <1>3, <1>4, EmitKeeps

LEMMA AgentIs == ASSUME TreeInv, NEW a \in Agent PROVE AgentFits(a, agents[a]) /\ agents[a] \in AgentRecords
  BY AgentsFit DEF TreeInv, AgentsTyped, AgentFits

LEMMA RunnerIs ==
    ASSUME TreeInv
    PROVE  /\ RunnerTyped /\ busy \in BOOLEAN /\ asked \in [Question -> Agent \cup {Root, None}]
           /\ agents = [a \in Agent |-> agents[a]] /\ (NoneFailed => CallersWait)
  BY DEF TreeInv, RunnerTyped

LEMMA CallsKeeps ==
    ASSUME TreeInv, NEW p \in Agent \cup {Root}, NEW a \in Agent, NEW background \in BOOLEAN, Calls(p, a, background)
    PROVE  TreeInv' /\ WaitsForChildren
<1>1. PICK h : h = [kind |-> "call", by |-> p, call |-> a]
  OBVIOUS
<1>2. PICK r : r = [agents[a] EXCEPT !.caller = p, !.async = background, !.life = "called"]
  OBVIOUS
<1>3. /\ Emit(h) /\ Running(p) /\ agents[a].life = "none" /\ p # a /\ busy' = busy /\ asked' = asked
      /\ agents' = [agents EXCEPT ![a].caller = p, ![a].async = background, ![a].life = "called"]
  BY <1>1 DEF Calls
<1>4. agents' = [agents EXCEPT ![a] = r]
  BY <1>2, <1>3, RunnerIs
<1>5. h.kind = "call" /\ h.by = p /\ h.call = a
  BY <1>1
<1>6. r \in AgentRecords /\ r.life = "called" /\ r.caller = p /\ r.runs = agents[a].runs
  BY <1>2, AgentIs DEF AgentRecords, Lives
<1>7. AgentFits(a, r) /\ GrowsTo(agents[a], r)
  BY <1>3, <1>6, NamesAssumption DEF AgentFits, GrowsTo
<1>8. agents'[a] = r /\ \A b \in Agent : b # a => agents'[b] = agents[b]
  BY <1>4, <1>7, OneGoes, RunnerIs
<1>9. HookFits(h)'
  BY <1>5, <1>6, <1>8 DEF HookFits, Was
<1>10. p \in Agent => agents[p].life = "running"
  BY <1>3, RunningIs
<1>11. ASSUME NoneFailed' PROVE CallersWait'
  <2>1. CallersWait
    BY <1>7, <1>8, <1>11, RunnerIs DEF NoneFailed, GrowsTo
  <2>. SUFFICES ASSUME NEW b \in Agent, NEW q \in Agent, Open(b)', agents'[b].caller = q
                PROVE  agents'[q].life = "running"
    BY DEF CallersWait
  <2>2. CASE b = a
    BY <1>3, <1>6, <1>8, <1>10, <2>2
  <2>3. CASE b # a
    <3>1. Open(b) /\ agents[b].caller = q
      BY <1>8, <2>3 DEF Open
    <3>2. agents[q].life = "running"
      BY <2>1, <3>1 DEF CallersWait
    <3>. QED
      BY <1>3, <1>8, <3>2
  <2>. QED
    BY <2>2, <2>3
<1>12. busy' \in BOOLEAN /\ asked' \in [Question -> Agent \cup {Root, None}]
  BY <1>3, RunnerIs
<1>13. \A b \in Agent : h.by = b => b # a /\ agents[b].life = "running"
  BY <1>3, <1>5, <1>10
<1>14. agents[h.call].life = "none"
  BY <1>3, <1>5
<1>15. Emit(h) /\ r.runs = agents[a].runs /\ agents[a].life = "none" /\ h.kind = "call"
  BY <1>3, <1>5, <1>6
<1>. QED
  BY <1>4, <1>7, <1>9, <1>11, <1>12, <1>13, <1>14, <1>15, OneKeeps

\* An agent starts, or one that was done with is sent a message.
LEMMA StartsKeeps ==
    ASSUME TreeInv, NEW a \in Agent, Starts(a) \/ Resumes(a) PROVE TreeInv' /\ WaitsForChildren
<1>1. PICK h : h = [kind |-> "start", by |-> a]
  OBVIOUS
<1>2. PICK r : r = IF Starts(a) THEN [agents[a] EXCEPT !.life = "running", !.runs = @ + 1]
                   ELSE [agents[a] EXCEPT !.life = "running", !.async = TRUE, !.runs = @ + 1]
  OBVIOUS
<1>3. /\ Emit(h) /\ busy' = busy /\ asked' = asked
      /\ IF Starts(a) THEN agents[a].life = "called" ELSE agents[a].life = "over"
  BY <1>1 DEF Starts, Resumes
<1>4. agents' = [agents EXCEPT ![a] = r]
  <2>1. CASE Starts(a)
    BY <1>2, <2>1, RunnerIs DEF Starts
  <2>2. CASE ~Starts(a)
    BY <1>2, <2>2, RunnerIs DEF Resumes
  <2>. QED
    BY <2>1, <2>2
<1>5. h.kind = "start" /\ h.by = a
  BY <1>1
<1>6. /\ r \in AgentRecords /\ r.life = "running" /\ r.caller = agents[a].caller /\ r.runs = agents[a].runs + 1
      /\ (r.named <=> agents[a].named) /\ (IF agents[a].life = "over" THEN r.async ELSE r.async <=> agents[a].async)
  <2>1. PICK old \in AgentRecords : old = agents[a]
    BY AgentIs
  <2>2. PICK runs : runs = old.runs + 1
    OBVIOUS
  <2>3. runs \in Nat /\ "running" \in Lives
    BY <2>1, <2>2 DEF AgentRecords, Lives
  <2>4. CASE Starts(a)
    <3>1. r = [old EXCEPT !.life = "running", !.runs = runs]
      BY <1>2, <2>1, <2>2, <2>4
    <3>2. agents[a].life # "over"
      BY <1>3, <2>4
    <3>. QED
      BY <2>1, <2>2, <2>3, <3>1, <3>2 DEF AgentRecords
  <2>5. CASE ~Starts(a)
    <3>1. r = [old EXCEPT !.life = "running", !.async = TRUE, !.runs = runs]
      BY <1>2, <2>1, <2>2, <2>5
    <3>2. agents[a].life = "over"
      BY <1>3, <2>5
    <3>. QED
      BY <2>1, <2>2, <2>3, <3>1, <3>2 DEF AgentRecords
  <2>. QED
    BY <2>4, <2>5
<1>7. AgentFits(a, r) /\ GrowsTo(agents[a], r)
  BY <1>3, <1>6, AgentIs DEF AgentFits, GrowsTo, AgentRecords
<1>8. agents'[a] = r /\ \A b \in Agent : b # a => agents'[b] = agents[b]
  BY <1>4, <1>7, OneGoes, RunnerIs
<1>9. HookFits(h)'
  BY <1>5 DEF HookFits
<1>10. ASSUME NoneFailed' PROVE CallersWait'
  <2>1. CallersWait
    BY <1>7, <1>8, <1>10, RunnerIs DEF NoneFailed, GrowsTo
  <2>. SUFFICES ASSUME NEW b \in Agent, NEW q \in Agent, Open(b)', agents'[b].caller = q
                PROVE  agents'[q].life = "running"
    BY DEF CallersWait
  <2>2. Open(b) /\ agents[b].caller = q
    <3>1. CASE b # a
      BY <1>8, <3>1 DEF Open
    <3>2. CASE b = a /\ agents[a].life = "called"
      BY <1>6, <1>8, <3>2 DEF Open
    <3>3. CASE b = a /\ agents[a].life = "over"
      <4>1. agents[a].named
        BY <3>3, AgentIs DEF AgentFits
      <4>2. r.async /\ r.named
        BY <1>6, <3>3, <4>1
      <4>. QED
        BY <1>8, <3>3, <4>2 DEF Open
    <3>. QED
      BY <1>3, <3>1, <3>2, <3>3
  <2>3. agents[q].life = "running"
    BY <2>1, <2>2 DEF CallersWait
  <2>. QED
    BY <1>6, <1>8, <2>3
<1>11. busy' \in BOOLEAN /\ asked' \in [Question -> Agent \cup {Root, None}]
  BY <1>3, RunnerIs
<1>12. r.runs <= 1 => agents[a].life = "called" /\ agents[a].runs <= 1
  BY <1>3, <1>6, AgentIs DEF AgentFits, AgentRecords
<1>. QED
  BY <1>3, <1>4, <1>5, <1>7, <1>9, <1>10, <1>11, <1>12, OneKeeps

LEMMA EndsKeeps ==
    ASSUME TreeInv, NEW a \in Agent \cup {Root}, Ends(a) PROVE TreeInv' /\ WaitsForChildren
<1>0. a \in Agent
  BY DEF Ends
<1>1. PICK h : h = [kind |-> "stop", by |-> a]
  OBVIOUS
<1>2. PICK r : r = [agents[a] EXCEPT !.life = "ended"]
  OBVIOUS
<1>3. /\ Emit(h) /\ busy' = busy /\ asked' = asked /\ Running(a)
      /\ \A b \in Agent : agents[b].caller = a => ~Open(b)
      /\ agents' = [agents EXCEPT ![a].life = "ended"]
  BY <1>1 DEF Ends, Goes, Acting
<1>4. agents' = [agents EXCEPT ![a] = r]
  BY <1>0, <1>2, <1>3, RunnerIs
<1>5. h.kind = "stop" /\ h.by = a /\ agents[a].life = "running"
  BY <1>0, <1>1, <1>3, RunningIs
<1>6. /\ r \in AgentRecords /\ r.life = "ended" /\ r.caller = agents[a].caller /\ r.runs = agents[a].runs
      /\ (r.named <=> agents[a].named) /\ (r.async <=> agents[a].async)
  BY <1>0, <1>2, AgentIs DEF AgentRecords, Lives
<1>7. AgentFits(a, r) /\ GrowsTo(agents[a], r)
  BY <1>0, <1>5, <1>6, AgentIs DEF AgentFits, GrowsTo
<1>8. agents'[a] = r /\ \A b \in Agent : b # a => agents'[b] = agents[b]
  BY <1>0, <1>4, <1>7, OneGoes, RunnerIs
<1>9. HookFits(h)'
  BY <1>0, <1>5 DEF HookFits
<1>10. ASSUME NoneFailed' PROVE CallersWait'
  <2>1. CallersWait
    BY <1>0, <1>7, <1>8, <1>10, RunnerIs DEF NoneFailed, GrowsTo
  <2>. SUFFICES ASSUME NEW b \in Agent, NEW q \in Agent, Open(b)', agents'[b].caller = q
                PROVE  agents'[q].life = "running"
    BY DEF CallersWait
  <2>2. Open(b) /\ agents[b].caller = q
    BY <1>5, <1>6, <1>8 DEF Open
  <2>3. agents[q].life = "running" /\ q # a
    BY <1>3, <2>1, <2>2 DEF CallersWait
  <2>. QED
    BY <1>8, <2>3
<1>11. busy' \in BOOLEAN /\ asked' \in [Question -> Agent \cup {Root, None}]
  BY <1>3, RunnerIs
<1>. QED
  BY <1>0, <1>3, <1>4, <1>5, <1>6, <1>7, <1>9, <1>10, <1>11, OneKeeps

\* The result of a call names its child: of a background one, while it goes on.
LEMMA ResultKeeps ==
    ASSUME TreeInv, NEW a \in Agent, Launched(a) \/ Returned(a) PROVE TreeInv' /\ WaitsForChildren
<1>1. PICK p : p = agents[a].caller
  OBVIOUS
<1>2. PICK h : h = IF Launched(a) THEN [kind |-> "result", by |-> p, call |-> a, child |-> a, done |-> FALSE]
                   ELSE [kind |-> "result", by |-> p, call |-> a, child |-> a, done |-> TRUE]
  OBVIOUS
<1>3. PICK r : r = IF Launched(a) THEN [agents[a] EXCEPT !.named = TRUE]
                   ELSE [agents[a] EXCEPT !.named = TRUE, !.life = "over"]
  OBVIOUS
<1>4. /\ Emit(h) /\ busy' = busy /\ asked' = asked /\ Open(a)
      /\ Launched(a) => agents[a].async
      /\ ~Launched(a) => agents[a].life = "ended"
  <2>1. CASE Launched(a)
    BY <1>1, <1>2, <2>1 DEF Launched
  <2>2. CASE ~Launched(a)
    BY <1>1, <1>2, <2>2 DEF Returned, Open
  <2>. QED
    BY <2>1, <2>2
<1>5. agents' = [agents EXCEPT ![a] = r]
  <2>1. CASE Launched(a)
    BY <1>3, <2>1, RunnerIs DEF Launched
  <2>2. CASE ~Launched(a)
    BY <1>3, <2>2, RunnerIs DEF Returned
  <2>. QED
    BY <2>1, <2>2
<1>6. h.kind = "result" /\ h.by = p /\ h.call = a /\ h.child = a /\ (h.done <=> ~Launched(a)) /\ h.done \in BOOLEAN
  BY <1>2
<1>7. /\ r \in AgentRecords /\ r.caller = p /\ r.runs = agents[a].runs /\ r.named
      /\ (r.async <=> agents[a].async)
      /\ r.life = IF Launched(a) THEN agents[a].life ELSE "over"
  <2>1. CASE Launched(a)
    BY <1>1, <1>3, <2>1, AgentIs DEF AgentRecords
  <2>2. CASE ~Launched(a)
    BY <1>1, <1>3, <2>2, AgentIs DEF AgentRecords, Lives
  <2>. QED
    BY <2>1, <2>2
<1>8. agents[a].life \in {"called", "running", "ended"} /\ p # None /\ p \in Agent \cup {Root}
  BY <1>1, <1>4, AgentIs DEF Open, AgentFits, AgentRecords
<1>9. AgentFits(a, r) /\ GrowsTo(agents[a], r)
  BY <1>1, <1>4, <1>7, <1>8, AgentIs DEF AgentFits, GrowsTo
<1>10. agents'[a] = r /\ \A b \in Agent : b # a => agents'[b] = agents[b]
  BY <1>5, <1>9, OneGoes, RunnerIs
<1>11. HookFits(h)'
  BY <1>6, <1>7, <1>8, <1>10 DEF HookFits, Was
<1>12. ASSUME NoneFailed' PROVE CallersWait' /\ (p \in Agent => p # a /\ agents[p].life = "running")
  <2>1. CallersWait
    BY <1>9, <1>10, <1>12, RunnerIs DEF NoneFailed, GrowsTo
  <2>2. ~Open(a)'
    BY <1>4, <1>7, <1>10 DEF Open
  <2>3. ASSUME NEW b \in Agent, NEW q \in Agent, Open(b)', agents'[b].caller = q
        PROVE  agents'[q].life = "running"
    <3>1. b # a /\ Open(b) /\ agents[b].caller = q
      BY <1>10, <2>2, <2>3 DEF Open
    <3>2. agents[q].life = "running"
      BY <2>1, <3>1 DEF CallersWait
    <3>. QED
      BY <1>4, <1>7, <1>10, <3>2
  <2>4. p \in Agent => agents[p].life = "running"
    BY <1>1, <1>4, <2>1 DEF CallersWait
  <2>5. p # a
    BY <1>1, <1>8, AgentIs DEF AgentFits
  <2>. QED
    BY <2>3, <2>4, <2>5 DEF CallersWait
<1>13. busy' \in BOOLEAN /\ asked' \in [Question -> Agent \cup {Root, None}]
  BY <1>4, RunnerIs
<1>. QED
  BY <1>4, <1>5, <1>6, <1>7, <1>9, <1>11, <1>12, <1>13, OneKeeps

\* After a call failed, little is promised.
LEMMA CallFailsKeeps ==
    ASSUME TreeInv, NEW a \in Agent, NEW interrupt \in BOOLEAN, CallFails(a, interrupt)
    PROVE  TreeInv' /\ WaitsForChildren
<1>1. PICK p : p = agents[a].caller
  OBVIOUS
<1>2. PICK h : h = [kind |-> "failed", by |-> p, call |-> a, interrupt |-> interrupt]
  OBVIOUS
<1>3. PICK r : r = [agents[a] EXCEPT !.life = "failed"]
  OBVIOUS
<1>4. PICK n : n = [at |-> clock + 1, hook |-> h]
  OBVIOUS
<1>5. /\ Emit(h) /\ busy' = (busy /\ ~interrupt) /\ asked' = asked
      /\ agents[a].life \in {"called", "running"} /\ agents' = [agents EXCEPT ![a].life = "failed"]
  BY <1>1, <1>2 DEF CallFails, Goes
<1>6. agents' = [agents EXCEPT ![a] = r]
  BY <1>3, <1>5, RunnerIs
<1>7. h.kind = "failed" /\ h.by = p /\ h.call = a /\ h.interrupt = interrupt
  BY <1>2
<1>8. r \in AgentRecords /\ r.life = "failed" /\ r.caller = p
  BY <1>1, <1>3, AgentIs DEF AgentRecords, Lives
<1>9. p \in Agent \cup {Root} /\ p # a
  BY <1>1, <1>5, AgentIs DEF AgentFits, AgentRecords
<1>10. AgentFits(a, r) /\ GrowsTo(agents[a], r)
  BY <1>1, <1>8, <1>9, NamesAssumption DEF AgentFits, GrowsTo
<1>11. AgentsTyped' /\ Grows /\ agents'[a] = r
  BY <1>6, <1>10, OneGoes, RunnerIs
<1>12. ~NoneFailed'
  BY <1>8, <1>11 DEF NoneFailed
<1>13. HookFits(h)'
  <2>1. \E b \in Agent : agents'[b].life = "failed"
    BY <1>8, <1>11
  <2>. QED
    BY <1>7, <1>9, <2>1 DEF HookFits
<1>14. asked' \in [Question -> Agent \cup {Root, None}]
  BY <1>5, RunnerIs
<1>15. busy' \in BOOLEAN
  <2>1. CASE interrupt
    BY <1>5, <2>1
  <2>2. CASE ~interrupt
    BY <1>5, <2>2, RunnerIs
  <2>. QED
    BY <2>1, <2>2
<1>. QED
  BY <1>4, <1>5, <1>7, <1>11, <1>12, <1>13, <1>14, <1>15, EmitKeeps

\* A result comes to its caller as a prompt, and the caller, which had ended, runs again.
LEMMA ReportsKeeps ==
    ASSUME TreeInv, NEW a \in Agent, Reports(a) PROVE TreeInv' /\ WaitsForChildren
<1>1. PICK p : p = agents[a].caller
  OBVIOUS
<1>2. PICK h : h = [kind |-> "prompt", by |-> p, notes |-> {a}]
  OBVIOUS
<1>3. PICK n : n = [at |-> clock + 1, hook |-> h]
  OBVIOUS
<1>4. /\ Emit(h) /\ busy' = (busy \/ p = Root) /\ asked' = asked
      /\ agents[a].named /\ agents[a].life = "ended" /\ (p \in Agent => agents[p].life = "ended")
      /\ agents' = [b \in Agent |-> IF b = a THEN [agents[b] EXCEPT !.life = "over"]
                                    ELSE IF b = p THEN [agents[b] EXCEPT !.life = "running", !.runs = @ + 1]
                                    ELSE agents[b]]
  BY <1>1, <1>2 DEF Reports
<1>5. h.kind = "prompt" /\ h.by = p /\ h.notes = {a} /\ n.hook = h
  BY <1>2, <1>3
<1>6. p \in Agent \cup {Root} /\ p # a
  BY <1>1, <1>4, AgentIs DEF AgentFits, AgentRecords
<1>7. /\ agents'[a] \in AgentRecords /\ agents'[a].life = "over" /\ agents'[a].caller = p
      /\ agents'[a].runs = agents[a].runs /\ agents'[a].named
  <2>1. agents'[a] = [agents[a] EXCEPT !.life = "over"]
    BY <1>4
  <2>. QED
    BY <1>1, <1>4, <2>1, AgentIs DEF AgentRecords, Lives
<1>8. p \in Agent => /\ agents'[p] \in AgentRecords /\ agents'[p].life = "running"
                     /\ agents'[p].caller = agents[p].caller /\ agents'[p].runs = agents[p].runs + 1
                     /\ (agents'[p].named <=> agents[p].named) /\ (agents'[p].async <=> agents[p].async)
  <2>. SUFFICES ASSUME p \in Agent
       PROVE  /\ agents'[p] \in AgentRecords /\ agents'[p].life = "running"
              /\ agents'[p].caller = agents[p].caller /\ agents'[p].runs = agents[p].runs + 1
              /\ (agents'[p].named <=> agents[p].named) /\ (agents'[p].async <=> agents[p].async)
    OBVIOUS
  <2>1. PICK old \in AgentRecords : old = agents[p]
    BY AgentIs
  <2>2. PICK runs : runs = old.runs + 1
    OBVIOUS
  <2>3. runs \in Nat /\ "running" \in Lives
    BY <2>1, <2>2 DEF AgentRecords, Lives
  <2>4. agents'[p] = [old EXCEPT !.life = "running", !.runs = runs]
    BY <1>4, <1>6, <2>1, <2>2
  <2>. QED
    BY <2>1, <2>2, <2>3, <2>4 DEF AgentRecords
<1>9. \A b \in Agent : b # a /\ b # p => agents'[b] = agents[b]
  BY <1>4
<1>10. \A b \in Agent : AgentFits(b, agents'[b]) /\ GrowsTo(agents[b], agents'[b])
  <2>. SUFFICES ASSUME NEW b \in Agent PROVE AgentFits(b, agents'[b]) /\ GrowsTo(agents[b], agents'[b])
    OBVIOUS
  <2>1. CASE b = a
    BY <1>1, <1>4, <1>6, <1>7, <2>1, AgentIs, NamesAssumption DEF AgentFits, GrowsTo
  <2>2. CASE b = p
    <3>1. p \in Agent /\ agents[p].life = "ended" /\ agents[p].caller \notin {None, p} /\ agents[p].runs \in Nat
      BY <1>4, <2>2, AgentIs DEF AgentFits, AgentRecords
    <3>2. /\ agents'[p] \in AgentRecords /\ agents'[p].life = "running" /\ agents'[p].caller = agents[p].caller
          /\ agents'[p].runs >= 1
      BY <1>8, <3>1
    <3>. QED
      BY <2>2, <3>1, <3>2 DEF AgentFits, GrowsTo
  <2>3. CASE b # a /\ b # p
    BY <1>9, <2>3, AgentIs DEF GrowsTo
  <2>. QED
    BY <2>1, <2>2, <2>3
<1>11. AgentsTyped' /\ Grows
  <2>1. DOMAIN agents' = Agent /\ agents' = [b \in Agent |-> agents'[b]]
    BY <1>4
  <2>. QED
    BY <1>10, <2>1 DEF AgentsTyped, AgentFits, AgentRecords, Grows
<1>12. HookFits(h)'
  BY <1>5, <1>6, <1>7 DEF HookFits
<1>13. ASSUME NoneFailed' PROVE CallersWait'
  <2>1. CallersWait
    BY <1>11, <1>13, RunnerIs DEF NoneFailed, Grows, GrowsTo
  <2>. SUFFICES ASSUME NEW b \in Agent, NEW q \in Agent, Open(b)', agents'[b].caller = q
                PROVE  agents'[q].life = "running"
    BY DEF CallersWait
  <2>2. b # a
    BY <1>7 DEF Open
  <2>3. Open(b) /\ agents[b].caller = q
    <3>1. CASE b = p
      BY <1>4, <1>8, <2>2, <3>1 DEF Open
    <3>2. CASE b # p
      BY <1>9, <2>2, <3>2 DEF Open
    <3>. QED
      BY <3>1, <3>2
  <2>4. agents[q].life = "running"
    BY <2>1, <2>3 DEF CallersWait
  <2>5. q # a /\ q # p
    BY <1>4, <2>4
  <2>. QED
    BY <1>9, <2>4, <2>5
<1>14. Settles(n)
  <2>. SUFFICES ASSUME NEW b \in Agent PROVE QuietTo(agents[b], agents'[b], Works1(n, b), Finishes(n, b))
    BY DEF Settles
  <2>1. ~Works1(n, b) /\ (Finishes(n, b) <=> b = a)
    BY <1>5 DEF Works1, Finishes
  <2>2. CASE b = a
    BY <1>7, <2>1, <2>2 DEF QuietTo
  <2>3. CASE b = p
    <3>1. agents[p].runs \in Nat /\ agents[p].runs >= 1
      BY <1>4, <2>3, AgentIs DEF AgentFits, AgentRecords
    <3>. QED
      BY <1>8, <2>3, <3>1 DEF QuietTo
  <2>4. CASE b # a /\ b # p
    BY <1>9, <2>1, <2>4 DEF QuietTo
  <2>. QED
    BY <2>2, <2>3, <2>4
<1>15. asked' \in [Question -> Agent \cup {Root, None}]
  BY <1>4, RunnerIs
<1>16. busy' \in BOOLEAN
  <2>1. CASE p = Root
    BY <1>4, <2>1
  <2>2. CASE p # Root
    BY <1>4, <2>2, RunnerIs
  <2>. QED
    BY <2>1, <2>2
<1>17. h.kind # "call"
  BY <1>5
<1>. QED
  BY <1>3, <1>4, <1>11, <1>12, <1>13, <1>14, <1>15, <1>16, <1>17, EmitKeeps

-----------------------------------------------------------------------------

LEMMA TreeInit == ASSUME Init PROVE TreeInv
<1>1. /\ clock = 0 /\ others = 0 /\ busy \in BOOLEAN /\ asked = [q \in Question |-> None] /\ wire = {}
      /\ agents \in [Agent -> [caller : {None}, type : Type, async : {FALSE}, life : {"none"},
                               runs : {0}, named : {FALSE}]]
      /\ rec = [a \in Agent |-> Blank] /\ spawns = [a \in Agent |-> NoCall] /\ pending = <<>>
      /\ turn = [ended |-> TRUE, promptAt |-> 0, stopAt |-> 0, background |-> {}]
      /\ needs = NoNeed /\ seen = {}
      /\ heard = [named |-> {}, told |-> {}, answered |-> {}, lastAt |-> 0, lastEnds |-> TRUE]
  BY DEF Init
<1>2. 0 \in Time /\ 0 \in 0..MaxOther
  BY HooksAssumption DEF Time
<1>3. \A a \in Agent : /\ agents[a].caller = None /\ agents[a].life = "none" /\ agents[a].runs = 0
                       /\ agents[a] \in AgentRecords
  <2>. SUFFICES ASSUME NEW a \in Agent
       PROVE  /\ agents[a].caller = None /\ agents[a].life = "none" /\ agents[a].runs = 0
              /\ agents[a] \in AgentRecords
    OBVIOUS
  <2>1. PICK r \in [caller : {None}, type : Type, async : {FALSE}, life : {"none"}, runs : {0}, named : {FALSE}] :
            r = agents[a]
    BY <1>1
  <2>2. r.caller = None /\ r.life = "none" /\ r.runs = 0 /\ r.type \in Type /\ r.async = FALSE /\ r.named = FALSE
    OBVIOUS
  <2>3. r = [caller |-> r.caller, type |-> r.type, async |-> r.async, life |-> r.life, runs |-> r.runs,
             named |-> r.named]
    OBVIOUS
  <2>4. r.async \in BOOLEAN /\ r.named \in BOOLEAN
    BY <2>2
  <2>5. r \in AgentRecords
    BY <2>2, <2>3, <2>4 DEF AgentRecords, Lives
  <2>. QED
    BY <2>1, <2>2, <2>5
<1>4. RunnerTyped
  <2>1. agents \in [Agent -> AgentRecords]
    BY <1>1, <1>3
  <2>. QED
    BY <1>1, <1>2, <1>3, <2>1 DEF RunnerTyped, AgentRecords
<1>5. WireFits /\ CallsComeOnce
  BY <1>1 DEF WireFits, CallsComeOnce
<1>6. SoundBut(Tree, {})
  <2>1. PICK t : t = Tree
    OBVIOUS
  <2>2. t.rec = rec /\ t.spawns = spawns /\ t.pending = pending
    BY <2>1 DEF Tree
  <2>3. Blank \in Records /\ NoCall \in CallsMade
    BY <1>2 DEF Blank, Records, NoCall, CallsMade
  <2>4. TreeTyped(t)
    BY <1>1, <2>1, <2>3 DEF TreeTyped, Tree
  <2>5. \A a \in Agent : /\ ~t.rec[a].known /\ ~t.rec[a].live /\ t.rec[a].finished = 0 /\ t.rec[a].resumed = 0
                         /\ t.rec[a].spawn = None /\ ~t.rec[a].sure
                         /\ ~t.spawns[a].made /\ t.spawns[a].child = None /\ ~t.spawns[a].sure
    <3>1. /\ ~Blank.known /\ ~Blank.live /\ Blank.finished = 0 /\ Blank.resumed = 0
          /\ Blank.spawn = None /\ ~Blank.sure
      BY DEF Blank
    <3>2. ~NoCall.made /\ NoCall.child = None /\ ~NoCall.sure
      BY DEF NoCall
    <3>3. \A a \in Agent : t.rec[a] = Blank /\ t.spawns[a] = NoCall
      BY <1>1, <2>2
    <3>. QED
      BY <3>1, <3>2, <3>3
  <2>6. RecordsTell(t) /\ SureIsTrue(t) /\ MadeWas(t)
    BY <2>5 DEF RecordsTell, SureIsTrue, MadeWas
  <2>7. Paired(t)
    BY <2>5, NamesAssumption DEF Paired
  <2>8. WaitingAre(t, {})
    <3>1. DOMAIN t.pending = {}
      BY <1>1, <2>2
    <3>. QED
      BY <2>5, <3>1 DEF WaitingAre, Queued, Once
  <2>. QED
    BY <2>1, <2>4, <2>6, <2>7, <2>8 DEF SoundBut
<1>7. StateTyped
  BY <1>1, <1>2 DEF StateTyped, AnsweredStaysAnswered, NoNeed
<1>8. CallersWait
  BY <1>3 DEF CallersWait, Open
<1>9. EndedIsQuiet
  <2>1. \A a \in Agent : rec[a].resumed = 0 /\ rec[a].finished = 0
    BY <1>1 DEF Blank
  <2>. QED
    BY <1>1, <2>1 DEF EndedIsQuiet
<1>. QED
  BY <1>4, <1>5, <1>6, <1>7, <1>8, <1>9 DEF TreeInv

LEMMA TreeStutters == ASSUME TreeInv, UNCHANGED vars PROVE TreeInv' /\ WaitsForChildren
<1>1. /\ clock' = clock /\ others' = others /\ agents' = agents /\ busy' = busy /\ asked' = asked /\ wire' = wire
      /\ rec' = rec /\ spawns' = spawns /\ pending' = pending
      /\ turn' = turn /\ needs' = needs /\ seen' = seen /\ heard' = heard
  BY DEF vars, runner, tree, state
<1>2. RunnerTyped' /\ WireFits' /\ CallsComeOnce' /\ StateTyped'
  BY <1>1 DEF TreeInv, RunnerTyped, WireFits, HookFits, Was, CallsComeOnce, StateTyped, AnsweredStaysAnswered
<1>3. SoundBut(Tree, {})'
  <2>1. PICK t : t = Tree
    OBVIOUS
  <2>2. Tree' = t
    BY <1>1, <2>1 DEF Tree
  <2>3. SoundBut(t, {})'
    BY <1>1, <2>1 DEF TreeInv, SoundBut, TreeTyped, RecordsTell, Paired, WaitingAre, SureIsTrue, MadeWas
  <2>. QED
    BY <2>2, <2>3
<1>4. NoneFailed' => CallersWait' /\ EndedIsQuiet'
  BY <1>1 DEF TreeInv, NoneFailed, CallersWait, Open, EndedIsQuiet
<1>5. WaitsForChildren
  BY <1>1 DEF WaitsForChildren
<1>. QED
  BY <1>2, <1>3, <1>4, <1>5 DEF TreeInv

LEMMA HearsKeeps == ASSUME TreeInv, NEW m \in wire, Hears(m) PROVE TreeInv' /\ WaitsForChildren
<1>1. CASE HookCall(m)
  BY <1>1, HookCallKeeps
<1>2. CASE HookTool(m)
  BY <1>2, HookToolKeeps
<1>3. CASE HookAsk(m)
  BY <1>3, HookAskKeeps
<1>4. CASE HookAnswer(m)
  BY <1>4, HookAnswerKeeps
<1>5. CASE HookResult(m)
  BY <1>5, HookResultKeeps
<1>6. CASE HookFailed(m)
  BY <1>6, HookFailedKeeps
<1>7. CASE HookStart(m)
  BY <1>7, HookStartKeeps
<1>8. CASE HookStop(m)
  BY <1>8, HookStopKeeps
<1>9. CASE HookPrompt(m)
  BY <1>9, HookPromptKeeps
<1>10. CASE HookTurnEnd(m)
  BY <1>10, HookTurnEndKeeps
<1>11. CASE HookNotify(m)
  BY <1>11, HookNotifyKeeps
<1>. QED
  BY <1>1, <1>2, <1>3, <1>4, <1>5, <1>6, <1>7, <1>8, <1>9, <1>10, <1>11 DEF Hears

LEMMA TreeStep == ASSUME TreeInv, [Next]_vars PROVE TreeInv' /\ WaitsForChildren
<1>1. ASSUME NEW p \in Agent \cup {Root}, NEW a \in Agent, NEW background \in BOOLEAN, Calls(p, a, background)
      PROVE  TreeInv' /\ WaitsForChildren
  BY <1>1, CallsKeeps
<1>2. ASSUME NEW p \in Agent \cup {Root}, Works(p) \/ NeedsPermission(p) \/ Ends(p)
      PROVE  TreeInv' /\ WaitsForChildren
  BY <1>2, WorksKeeps, EndsKeeps
<1>3. ASSUME NEW p \in Agent \cup {Root}, NEW q \in Question, Asks(p, q) PROVE TreeInv' /\ WaitsForChildren
  BY <1>3, AsksKeeps
<1>4. ASSUME NEW q \in Question, Answered(q) PROVE TreeInv' /\ WaitsForChildren
  BY <1>4, AnsweredKeeps
<1>5. ASSUME NEW a \in Agent, Starts(a) \/ Launched(a) \/ Returned(a) \/ Reports(a) \/ Resumes(a)
      PROVE  TreeInv' /\ WaitsForChildren
  BY <1>5, StartsKeeps, ResultKeeps, ReportsKeeps
<1>6. ASSUME NEW a \in Agent, NEW interrupt \in BOOLEAN, CallFails(a, interrupt) PROVE TreeInv' /\ WaitsForChildren
  BY <1>6, CallFailsKeeps
<1>7. CASE Prompts \/ TurnEnds
  BY <1>7, RootKeeps
<1>8. ASSUME NEW m \in wire, Hears(m) PROVE TreeInv' /\ WaitsForChildren
  BY <1>8, HearsKeeps
<1>9. CASE UNCHANGED vars
  BY <1>9, TreeStutters
<1>. QED
  BY <1>1, <1>2, <1>3, <1>4, <1>5, <1>6, <1>7, <1>8, <1>9 DEF Next

LEMMA TreeShows ==
    ASSUME TreeInv
    PROVE  TypeOK /\ PairedOnce /\ NamedStays /\ ToldStaysDone /\ AnsweredStaysAnswered
<1>1. PICK t : t = Tree
  OBVIOUS
<1>2. SoundBut(t, {}) /\ t.rec = rec /\ t.spawns = spawns /\ t.pending = pending
  BY <1>1, TreeIs
<1>3. RunnerTyped /\ StateTyped /\ (NoneFailed => EndedIsQuiet)
  BY DEF TreeInv
<1>4. rec \in [Agent -> Records] /\ spawns \in [Agent -> CallsMade] /\ pending \in Seq(Agent)
  BY <1>2 DEF SoundBut, TreeTyped
<1>5. \A a \in Agent : rec[a].known => (rec[a].live <=> rec[a].finished = 0)
  BY <1>2 DEF SoundBut, RecordsTell
<1>6. TypeOK
  BY <1>3, <1>4, <1>5 DEF TypeOK, RunnerTyped, StateTyped, Records, CallsMade
<1>7. PairedOnce
  <2>1. \A i \in DOMAIN pending : pending[i] \in Agent
    BY <1>4
  <2>2. \A c \in Agent : (\E i \in DOMAIN pending : pending[i] = c) <=> spawns[c].made /\ spawns[c].child = None
    BY <1>2 DEF SoundBut, WaitingAre, Queued
  <2>3. {pending[i] : i \in DOMAIN pending} = {c \in Agent : spawns[c].made /\ spawns[c].child = None}
    BY <2>1, <2>2
  <2>4. \A a \in Agent, c \in Agent : spawns[c].child = a <=> rec[a].spawn = c
    BY <1>2 DEF SoundBut, Paired
  <2>5. \A i \in DOMAIN pending, j \in DOMAIN pending : pending[i] = pending[j] => i = j
    BY <1>2 DEF SoundBut, WaitingAre, Once
  <2>. QED
    BY <2>3, <2>4, <2>5 DEF PairedOnce
<1>8. NamedStays
  <2>1. \A a \in heard.named : a \in Agent /\ rec[a].sure
    BY <1>3 DEF StateTyped
  <2>. QED
    BY <1>2, <2>1 DEF NamedStays, SoundBut, SureIsTrue
<1>9. ToldStaysDone
  <2>. SUFFICES ASSUME NoneFailed, NEW a \in heard.told, agents[a].runs = 1 PROVE ~rec[a].live
    BY DEF ToldStaysDone, NoneFailed
  <2>1. a \in Agent
    BY <1>3 DEF StateTyped
  <2>2. rec[a].finished # 0
    BY <1>3, <2>1 DEF EndedIsQuiet
  <2>. QED
    BY <1>2, <2>1, <2>2 DEF SoundBut, RecordsTell
<1>10. AnsweredStaysAnswered
  BY <1>3 DEF StateTyped
<1>. QED
  BY <1>6, <1>7, <1>8, <1>9, <1>10

LEMMA TreeInvariant == Spec => []TreeInv
  BY TreeInit, TreeStep, PTL DEF Spec

\* What the code's own types let the tracker's variables hold is all they ever hold, and a
\* record of an agent heard of is live until it has finished.
THEOREM TreeIsTyped == Spec => []TypeOK
  BY TreeInvariant, TreeShows, PTL

\* In whatever order the hooks of calls, starts, results and reports arrive, calls and
\* children are paired one to one, and a call waits for a child exactly while it has none.
THEOREM ChildrenArePaired == Spec => []PairedOnce
  BY TreeInvariant, TreeShows, PTL

\* A child its own call's result has named stays under the agent that made the call.
THEOREM NamedChildrenStay == Spec => []NamedStays
  BY TreeInvariant, TreeShows, PTL

\* As long as no call failed, an agent that ran once and whose outcome has been told is not
\* live again, whatever arrives late.
THEOREM ToldAgentsStayDone == Spec => []ToldStaysDone
  BY TreeInvariant, TreeShows, PTL

\* An answered question is not put before the user again, though it be heard of late.
THEOREM AnswersStay == Spec => []AnsweredStaysAnswered
  BY TreeInvariant, TreeShows, PTL

\* A stop alone finishes no agent whose own children still run.
THEOREM AgentsWaitForChildren == Spec => OutlivesChildren
  BY TreeInvariant, TreeStep, PTL DEF Spec, OutlivesChildren
-----------------------------------------------------------------------------
\* A bounded set of numbers has a greatest.
LEMMA GreatestIs ==
    ASSUME NEW U, NEW top \in Nat, U \subseteq -1..top, U # {}
    PROVE  \E u \in U : \A v \in U : u >= v
<1>. DEFINE below == {top - u : u \in U}
<1>0. \A u \in U : u \in Int /\ top - u \in Nat
  <2>. SUFFICES ASSUME NEW u \in U PROVE u \in Int /\ top - u \in Nat
    OBVIOUS
  <2>1. u \in -1..top
    OBVIOUS
  <2>. QED
    BY <2>1
<1>1. below \subseteq Nat /\ below # {}
  BY <1>0
<1>. HIDE DEF below
<1>2. \E b \in below : \A d \in below : ~ (<<d, b>> \in OpToRel(<, Nat))
  BY Zenon, <1>1, NatLessThanWellFounded, WFMin
<1>3. PICK b \in below : \A d \in below : ~ (<<d, b>> \in OpToRel(<, Nat))
  BY Zenon, <1>2
<1>4. \A d \in below : ~ (d < b)
  BY <1>1, <1>3 DEF OpToRel
<1>5. PICK u \in U : b = top - u
  BY DEF below
<1>6. ASSUME NEW v \in U PROVE u >= v
  <2>1. top - v \in below /\ top - v \in Nat /\ u \in Int /\ v \in Int
    BY <1>0 DEF below
  <2>. QED
    BY <1>1, <1>4, <1>5, <2>1
<1>. QED
  BY <1>6


-----------------------------------------------------------------------------
(* The fences of a document.  A fence that is open has been read like a block   *)
(* that ends at the last line.                                                 *)

fenceLines == v1
open == v2
found == v3
blocks == v4
USE DEF fenceLines, open, found, blocks

Block == [line : Nat \ {0}, end : Nat]

\* A block that starts where it may and holds no line that closes it before its end.
IsBlock(b) ==
    /\ b \in Block /\ b.line <= b.end /\ b.end <= Len(fenceLines)
    /\ Fences!Opens(fenceLines[b.line])
    /\ \A i \in b.line + 1 .. b.end - 1 : ~Fences!Shuts(i, b.line)

IsClosed(b) ==
    /\ IsBlock(b) /\ b.line < b.end /\ Fences!Shuts(b.end, b.line)
    /\ fenceLines[b.line].info = "d2" <=> b \in found

\* The fence that is open: its opening line, and nothing since that closes it.
IsOpen(f) ==
    /\ f.at \in 1 .. Len(fenceLines)
    /\ Fences!Opens(fenceLines[f.at])
    /\ f.char = fenceLines[f.at].char /\ f.length = fenceLines[f.at].length
    /\ f.d2 \in BOOLEAN /\ (f.d2 <=> fenceLines[f.at].info = "d2")
    /\ \A i \in f.at + 1 .. Len(fenceLines) : ~Fences!Shuts(i, f.at)
    /\ \A b \in blocks : b.end < f.at

\* A line that could open a fence is inside one.
IsInside(i) ==
    \/ \E b \in blocks : b.line <= i /\ i <= b.end
    \/ open # Fences!NoFence /\ open.at <= i

FencesInv ==
    /\ fenceLines \in Seq(Fences!Lines)
    /\ found \subseteq blocks
    /\ \A b \in blocks : IsClosed(b)
    /\ \A b, c \in blocks : b # c => b.end < c.line \/ c.end < b.line
    /\ open # Fences!NoFence => IsOpen(open)
    /\ \A i \in 1 .. Len(fenceLines) : Fences!Opens(fenceLines[i]) => IsInside(i)

LEMMA FencesInit == Fences!Init => FencesInv
  BY DEF Fences!Init, FencesInv

\* A line more leaves what was read as it was.
LEMMA LineIsAdded ==
    ASSUME FencesInv, NEW l \in Fences!Lines, fenceLines' = Append(fenceLines, l)
    PROVE  /\ fenceLines' \in Seq(Fences!Lines) /\ Len(fenceLines') = Len(fenceLines) + 1
           /\ fenceLines'[Len(fenceLines) + 1] = l
           /\ \A i \in 1 .. Len(fenceLines) : fenceLines'[i] = fenceLines[i]
           /\ Len(fenceLines) \in Nat
  BY DEF FencesInv

LEMMA BlocksStay ==
    ASSUME FencesInv, NEW l \in Fences!Lines, fenceLines' = Append(fenceLines, l),
           NEW b \in blocks, b \in found <=> b \in found'
    PROVE  IsClosed(b)'
<1>1. IsClosed(b) /\ b \in Block
  BY DEF FencesInv, IsClosed, IsBlock
<1>2. b.line \in 1 .. Len(fenceLines) /\ b.end \in 1 .. Len(fenceLines)
  BY <1>1, LineIsAdded DEF IsClosed, IsBlock, Block
<1>3. ASSUME NEW i \in b.line + 1 .. b.end PROVE Fences!Shuts(i, b.line)' <=> Fences!Shuts(i, b.line)
  <2>1. fenceLines'[i] = fenceLines[i] /\ fenceLines'[b.line] = fenceLines[b.line]
    BY <1>2, LineIsAdded
  <2>. QED
    BY <2>1 DEF Fences!Shuts, Fences!Closes
<1>4. \A i \in b.line + 1 .. b.end - 1 : i \in b.line + 1 .. b.end
  BY <1>2
<1>5. b.line < b.end => b.end \in b.line + 1 .. b.end
  BY <1>2
<1>6. fenceLines'[b.line] = fenceLines[b.line] /\ b.end <= Len(fenceLines')
  BY <1>2, LineIsAdded
<1>7. IsBlock(b)'
  BY <1>1, <1>3, <1>4, <1>6 DEF IsClosed, IsBlock
<1>. QED
  BY <1>1, <1>3, <1>5, <1>6, <1>7 DEF IsClosed

\* What is open stays so for as long as no line closes it.
LEMMA OpenStays ==
    ASSUME FencesInv, NEW l \in Fences!Lines, fenceLines' = Append(fenceLines, l),
           open # Fences!NoFence, ~Fences!Closes(l, open), UNCHANGED <<open, blocks>>
    PROVE  IsOpen(open)'
<1>1. IsOpen(open)
  BY DEF FencesInv
<1>2. PICK at \in 1 .. Len(fenceLines) : at = open.at
  BY <1>1 DEF IsOpen
<1>3. fenceLines'[at] = fenceLines[at]
  BY LineIsAdded
<1>4. \A i \in at + 1 .. Len(fenceLines) : ~Fences!Shuts(i, at)'
  <2>. SUFFICES ASSUME NEW i \in at + 1 .. Len(fenceLines) PROVE ~Fences!Shuts(i, at)'
    OBVIOUS
  <2>1. fenceLines'[i] = fenceLines[i]
    BY LineIsAdded
  <2>2. ~Fences!Shuts(i, at)
    BY <1>1, <1>2 DEF IsOpen
  <2>. QED
    BY <1>3, <2>1, <2>2 DEF Fences!Shuts, Fences!Closes
<1>5. PICK n : n = Len(fenceLines) + 1
  OBVIOUS
<1>6. ~Fences!Shuts(n, at)'
  BY <1>1, <1>2, <1>3, <1>5, LineIsAdded DEF Fences!Shuts, Fences!Closes, IsOpen
<1>7. \A i \in at + 1 .. Len(fenceLines') : ~Fences!Shuts(i, at)'
  <2>1. \A i \in at + 1 .. Len(fenceLines') : i \in at + 1 .. Len(fenceLines) \/ i = n
    BY <1>5, LineIsAdded
  <2>. QED
    BY <1>4, <1>6, <2>1
<1>8. at \in 1 .. Len(fenceLines') /\ open'.at = at
  BY <1>2, LineIsAdded
<1>. QED
  BY <1>1, <1>2, <1>3, <1>7, <1>8 DEF IsOpen

\* A line opens a fence.
LEMMA OpensKeeps ==
    ASSUME FencesInv, NEW l \in Fences!Lines, fenceLines' = Append(fenceLines, l),
           open = Fences!NoFence, Fences!Opens(l), UNCHANGED <<found, blocks>>,
           open' = [char |-> l.char, length |-> l.length, d2 |-> l.info = "d2",
                    at |-> Len(fenceLines) + 1]
    PROVE  FencesInv'
<1>. DEFINE n == Len(fenceLines) + 1
<1>1. /\ open'.at = n /\ open'.char = l.char /\ open'.length = l.length
      /\ open'.d2 \in BOOLEAN /\ (open'.d2 <=> l.info = "d2")
      /\ n \in Nat /\ n > 0
  <2>1. open'.at = n /\ open'.char = l.char /\ open'.length = l.length /\ n \in Nat /\ n > 0
    BY LineIsAdded
  <2>2. open'.d2 = (l.info = "d2")
    BY Zenon
  <2>. QED
    BY <2>1, <2>2
<1>2. fenceLines'[n] = l /\ Len(fenceLines') = n
  BY LineIsAdded
<1>3. \A b \in blocks : b.end < n
  BY LineIsAdded DEF FencesInv, IsClosed, IsBlock, Block
<1>4. open' # Fences!NoFence
  BY <1>1 DEF Fences!NoFence
<1>5. IsOpen(open)'
  BY <1>1, <1>2, <1>3 DEF IsOpen
<1>6. \A b \in blocks' : IsClosed(b)'
  BY BlocksStay
<1>7. ASSUME NEW i \in 1 .. Len(fenceLines'), Fences!Opens(fenceLines'[i])
      PROVE  IsInside(i)'
  <2>1. CASE i = n
    BY <1>1, <1>4, <2>1 DEF IsInside
  <2>2. CASE i # n
    <3>1. i \in 1 .. Len(fenceLines) /\ fenceLines'[i] = fenceLines[i]
      BY <1>2, <2>2, LineIsAdded
    <3>. QED
      BY <1>7, <3>1 DEF FencesInv, IsInside
  <2>. QED
    BY <2>1, <2>2
<1>. QED
  BY <1>5, <1>6, <1>7, LineIsAdded DEF FencesInv

\* A line closes the fence that is open.
LEMMA ClosesKeeps ==
    ASSUME FencesInv, NEW l \in Fences!Lines, fenceLines' = Append(fenceLines, l),
           open # Fences!NoFence, Fences!Closes(l, open),
           NEW e, e = [line |-> open.at, end |-> Len(fenceLines) + 1],
           found' = IF open.d2 THEN found \cup {e} ELSE found,
           blocks' = blocks \cup {e}, open' = Fences!NoFence
    PROVE  FencesInv'
<1>. DEFINE n == Len(fenceLines) + 1
<1>1. IsOpen(open)
  BY DEF FencesInv
<1>2. /\ n \in Nat /\ open.at \in 1 .. Len(fenceLines) /\ open.at < n
      /\ e.line = open.at /\ e.end = n /\ e \in Block
  BY <1>1, LineIsAdded DEF IsOpen, Block
<1>3. fenceLines'[n] = l /\ Len(fenceLines') = n /\ fenceLines'[open.at] = fenceLines[open.at]
  BY <1>2, LineIsAdded
<1>4. \A b \in blocks : b.end < e.line /\ b \in Block
  BY <1>1, <1>2 DEF IsOpen, FencesInv, IsClosed, IsBlock
<1>5. e \notin blocks
  BY <1>2, <1>4 DEF Block
<1>6. ASSUME NEW b \in blocks PROVE IsClosed(b)'
  <2>1. b \in found <=> b \in found'
    BY <1>5
  <2>. QED
    BY <2>1, BlocksStay
<1>7. IsClosed(e)'
  <2>1. Fences!Shuts(e.end, e.line)'
    BY <1>1, <1>2, <1>3 DEF IsOpen, Fences!Shuts, Fences!Closes
  <2>3. ASSUME NEW i \in e.line + 1 .. e.end - 1 PROVE ~Fences!Shuts(i, e.line)'
    <3>1. i \in open.at + 1 .. Len(fenceLines) /\ i \in 1 .. Len(fenceLines)
      BY <1>2, LineIsAdded
    <3>2. fenceLines'[i] = fenceLines[i]
      BY <3>1, LineIsAdded
    <3>3. ~Fences!Shuts(i, open.at)
      BY <1>1, <3>1 DEF IsOpen
    <3>. QED
      BY <1>2, <1>3, <3>2, <3>3 DEF Fences!Shuts, Fences!Closes
  <2>4. e \in found' <=> fenceLines'[e.line].info = "d2"
    BY <1>1, <1>2, <1>3, <1>5 DEF IsOpen, FencesInv
  <2>5. IsBlock(e)'
    BY <1>1, <1>2, <1>3, <2>3 DEF IsOpen, IsBlock
  <2>. QED
    BY <1>2, <2>1, <2>4, <2>5 DEF IsClosed
<1>8. \A b \in blocks' : IsClosed(b)'
  BY <1>6, <1>7
<1>9. \A b, c \in blocks' : b # c => b.end < c.line \/ c.end < b.line
  BY <1>4 DEF FencesInv
<1>10. ASSUME NEW i \in 1 .. Len(fenceLines'), Fences!Opens(fenceLines'[i])
       PROVE  IsInside(i)'
  <2>1. CASE i >= open.at
    BY <1>2, <1>3, <2>1 DEF IsInside
  <2>2. CASE i < open.at
    <3>1. i \in 1 .. Len(fenceLines) /\ fenceLines'[i] = fenceLines[i]
      BY <1>2, <1>3, <2>2, LineIsAdded
    <3>. QED
      BY <1>2, <1>10, <2>2, <3>1 DEF FencesInv, IsInside
  <2>. QED
    BY <1>2, <1>3, <2>1, <2>2
<1>. QED
  BY <1>8, <1>9, <1>10, LineIsAdded DEF FencesInv

LEMMA FencesStep == FencesInv /\ [Fences!Next]_(Fences!fenceVars) => FencesInv'
<1>. SUFFICES ASSUME FencesInv, [Fences!Next]_(Fences!fenceVars) PROVE FencesInv'
  OBVIOUS
<1>1. CASE UNCHANGED Fences!fenceVars
  BY <1>1 DEF Fences!fenceVars, FencesInv, IsClosed, IsBlock, IsOpen, IsInside, Fences!Shuts
<1>2. CASE Fences!Next
  <2>1. PICK l \in Fences!Lines :
          /\ fenceLines' = Append(fenceLines, l)
          /\ \/ /\ open = Fences!NoFence /\ Fences!Opens(l)
                /\ open' = [char |-> l.char, length |-> l.length, d2 |-> l.info = "d2",
                            at |-> Len(fenceLines) + 1]
                /\ UNCHANGED <<found, blocks>>
             \/ /\ open # Fences!NoFence /\ Fences!Closes(l, open)
                /\ found' = IF open.d2 THEN found \cup {Fences!Ended(Len(fenceLines) + 1)} ELSE found
                /\ blocks' = blocks \cup {Fences!Ended(Len(fenceLines) + 1)}
                /\ open' = Fences!NoFence
             \/ /\ IF open = Fences!NoFence THEN ~Fences!Opens(l) ELSE ~Fences!Closes(l, open)
                /\ UNCHANGED <<open, found, blocks>>
    BY <1>2 DEF Fences!Next, Fences!ReadLine, Fences!Tracks
  <2>2. CASE open = Fences!NoFence /\ Fences!Opens(l) /\ open' # Fences!NoFence
    BY <2>1, <2>2, OpensKeeps
  <2>3. CASE open # Fences!NoFence /\ Fences!Closes(l, open) /\ open' = Fences!NoFence
    <3>1. PICK e : e = [line |-> open.at, end |-> Len(fenceLines) + 1]
      OBVIOUS
    <3>2. /\ found' = IF open.d2 THEN found \cup {e} ELSE found
          /\ blocks' = blocks \cup {e}
      BY <2>1, <2>3, <3>1 DEF Fences!Ended
    <3>. QED
      BY <2>1, <2>3, <3>1, <3>2, ClosesKeeps
  <2>4. CASE /\ IF open = Fences!NoFence THEN ~Fences!Opens(l) ELSE ~Fences!Closes(l, open)
             /\ UNCHANGED <<open, found, blocks>>
    <3>1. \A b \in blocks' : IsClosed(b)'
      BY <2>1, <2>4, BlocksStay
    <3>2. open' # Fences!NoFence => IsOpen(open)'
      BY <2>1, <2>4, OpenStays
    <3>3. ASSUME NEW i \in 1 .. Len(fenceLines'), Fences!Opens(fenceLines'[i])
          PROVE  IsInside(i)'
      <4>1. CASE i = Len(fenceLines) + 1 /\ open # Fences!NoFence
        BY <2>1, <2>4, <4>1, LineIsAdded DEF IsInside, FencesInv, IsOpen
      <4>2. CASE i = Len(fenceLines) + 1 /\ open = Fences!NoFence
        BY <2>1, <2>4, <3>3, <4>2, LineIsAdded
      <4>3. CASE i # Len(fenceLines) + 1
        <5>1. i \in 1 .. Len(fenceLines) /\ fenceLines'[i] = fenceLines[i]
          BY <2>1, <4>3, LineIsAdded
        <5>. QED
          BY <2>4, <3>3, <5>1 DEF FencesInv, IsInside
      <4>. QED
        BY <4>1, <4>2, <4>3
    <3>. QED
      BY <2>1, <2>4, <3>1, <3>2, <3>3, LineIsAdded DEF FencesInv
  <2>. QED
    BY <2>1, <2>2, <2>3, <2>4 DEF Fences!NoFence
<1>. QED
  BY <1>1, <1>2

\* With what is open, what was read line by line is found in the document as a whole.
LEMMA FencesShow == FencesInv => Fences!ScanFindsTheFences
<1>. SUFFICES ASSUME FencesInv PROVE Fences!ScanFindsTheFences
  OBVIOUS
<1>. DEFINE n == Len(fenceLines)
<1>0. n \in Nat /\ DOMAIN fenceLines = 1 .. n
  BY DEF FencesInv
<1>1. CASE open = Fences!NoFence
  <2>1. Fences!All = blocks /\ Fences!Scan = found
    BY <1>1 DEF Fences!All, Fences!Scan, Fences!Unclosed, Fences!NoFence
  <2>2. \A b \in blocks : IsBlock(b) /\ b.end > b.line /\ Fences!Shuts(b.end, b.line)
                          /\ (fenceLines[b.line].info = "d2" <=> b \in found)
    BY DEF FencesInv, IsClosed, IsBlock, Block
  <2>3. \A i \in DOMAIN fenceLines :
          Fences!Opens(fenceLines[i]) => \E b \in blocks : b.line <= i /\ i <= b.end
    BY <1>0, <1>1 DEF FencesInv, IsInside
  <2>. QED
    BY <2>1, <2>2, <2>3 DEF Fences!ScanFindsTheFences, FencesInv, IsBlock
<1>2. CASE open # Fences!NoFence
  <2>1. IsOpen(open)
    BY <1>2 DEF FencesInv
  <2>2. PICK e : e = [line |-> open.at, end |-> n]
    OBVIOUS
  <2>3. e.line = open.at /\ e.end = n /\ open.at \in 1 .. n
    BY <2>1, <2>2 DEF IsOpen
  <2>4. Fences!All = blocks \cup {e} /\ Fences!Scan = IF open.d2 THEN found \cup {e} ELSE found
    BY <1>2, <2>2 DEF Fences!All, Fences!Scan, Fences!Unclosed, Fences!Ended
  <2>5. \A b \in blocks : b.end < e.line /\ b.line <= b.end /\ b.end \in Nat /\ b.line \in Nat
    BY <2>1, <2>3 DEF IsOpen, FencesInv, IsClosed, IsBlock, Block
  <2>6. e \notin blocks
    BY <2>3, <2>5
  <2>7. ASSUME NEW b \in Fences!All
        PROVE  /\ Fences!Opens(fenceLines[b.line])
               /\ \A i \in b.line + 1 .. b.end - 1 : ~Fences!Shuts(i, b.line)
               /\ \/ b.end > b.line /\ Fences!Shuts(b.end, b.line)
                  \/ b.end = n
               /\ fenceLines[b.line].info = "d2" <=> b \in Fences!Scan
    <3>1. CASE b = e
      <4>1. Fences!Opens(fenceLines[e.line]) /\ \A i \in e.line + 1 .. n : ~Fences!Shuts(i, e.line)
        BY <2>1, <2>3 DEF IsOpen
      <4>2. fenceLines[e.line].info = "d2" <=> e \in Fences!Scan
        BY <2>1, <2>3, <2>4, <2>6 DEF IsOpen, FencesInv
      <4>. QED
        BY <1>0, <2>3, <3>1, <4>1, <4>2
    <3>2. CASE b # e
      <4>1. b \in blocks /\ IsClosed(b) /\ (b \in Fences!Scan <=> b \in found)
        BY <2>4, <2>7, <3>2 DEF FencesInv
      <4>. QED
        BY <2>5, <4>1 DEF IsClosed, IsBlock
    <3>. QED
      BY <3>1, <3>2
  <2>8. \A b, c \in Fences!All : b # c => b.end < c.line \/ c.end < b.line
    BY <2>4, <2>5 DEF FencesInv
  <2>9. ASSUME NEW i \in DOMAIN fenceLines, Fences!Opens(fenceLines[i])
        PROVE  \E b \in Fences!All : b.line <= i /\ i <= b.end
    BY <1>0, <2>3, <2>4, <2>9 DEF FencesInv, IsInside
  <2>. QED
    BY <2>7, <2>8, <2>9 DEF Fences!ScanFindsTheFences
<1>. QED
  BY <1>1, <1>2

-----------------------------------------------------------------------------
(* The marks of a document.  The sections and the phases read so far are those  *)
(* of the headings read so far, in their order.                                 *)

kind == v1
tells == v2
doc == v3
sections == v4
phases == v5
inPhase == v6
verifying == v7
verified == v8
USE DEF kind, tells, doc, sections, phases, inPhase, verifying, verified

Words    == Marks!SectionName \cup Marks!Item \cup Marks!Heading \cup {"quote", "text"}
States   == {"empty", "framed", "answered"}
Headings == {i \in 1 .. Len(doc) : doc[i] \in Marks!SectionName}
PhasesAt == {i \in 1 .. Len(doc) : doc[i] = "Phase"}

\* at numbers the members of S from the first to the last.
Numbers(at, S, n) ==
    /\ at \in [1 .. n -> S]
    /\ \A i \in S : \E k \in 1 .. n : at[k] = i
    /\ \A k, m \in 1 .. n : k < m => at[k] < at[m]

StateAt(i) == IF Marks!IsAnswered(i) THEN "answered" ELSE IF Marks!Under(i) # {} THEN "framed" ELSE "empty"
Rank(i)    == Cardinality({j \in PhasesAt : j <= i})
Total(i)   == Cardinality(Marks!Criteria(i))
Ticks(i)   == {k \in Marks!Criteria(i) : doc[k] = Marks!Ticked}
Met(i)     == Cardinality(Ticks(i))

SectionsAre(at) ==
    /\ Numbers(at, Headings, Len(sections))
    /\ \A n \in 1 .. Len(sections) : sections[n].name = doc[at[n]] /\ sections[n].state = StateAt(at[n])

PhasesAre(at) ==
    /\ Numbers(at, PhasesAt, Len(phases))
    /\ \A n \in 1 .. Len(phases) :
          /\ Rank(at[n]) = n
          /\ phases[n].total = Total(at[n]) /\ phases[n].met = Met(at[n])

\* The last heading so far.
IsLast(i) == i \in Headings /\ \A j \in i + 1 .. Len(doc) : doc[j] \notin Marks!SectionName

\* The items read now are below the first Verify heading of that phase, and no other ended it.
FirstVerify(i, v) ==
    /\ v \in i + 1 .. Len(doc) /\ doc[v] = "Verify"
    /\ \A j \in i + 1 .. v - 1 : doc[j] # "Verify"
StillOf(v, k)    == \A j \in v + 1 .. k : doc[j] \in Marks!Item \cup {"quote", "text", "h4"}
HasVerify(i)     == \E v \in i + 1 .. Len(doc) : doc[v] = "Verify"
IsVerifying(i)   == \E v : FirstVerify(i, v) /\ StillOf(v, Len(doc))

MarksTyped ==
    /\ kind \in {"research", "audits", "plans"}
    /\ tells \in {Marks!Absent, Marks!Malformed} \cup SUBSET Marks!Tell
    /\ doc \in Seq(Words)
    /\ sections \in Seq([name : Marks!SectionName, state : States])
    /\ phases \in Seq([met : Nat, total : Nat])
    /\ inPhase \in BOOLEAN /\ verifying \in BOOLEAN /\ verified \in BOOLEAN

PlaceIsKnown ==
    /\ inPhase <=> \E i \in PhasesAt : IsLast(i)
    /\ verifying <=> \E i \in PhasesAt : IsLast(i) /\ IsVerifying(i)
    /\ \A i \in PhasesAt : IsLast(i) => (verified <=> (~verifying /\ HasVerify(i)))

MarksInv ==
    /\ MarksTyped
    /\ \E at : SectionsAre(at)
    /\ \E at : PhasesAre(at)
    /\ PlaceIsKnown

LEMMA MarksInit == Marks!Init => MarksInv
<1>. SUFFICES ASSUME Marks!Init PROVE MarksInv
  OBVIOUS
<1>0. doc = << >> /\ sections = << >> /\ phases = << >> /\ Headings = {} /\ PhasesAt = {}
  BY DEF Marks!Init, Headings, PhasesAt
<1>1. /\ ~inPhase /\ ~verifying /\ ~verified
      /\ inPhase \in BOOLEAN /\ verifying \in BOOLEAN /\ verified \in BOOLEAN
  BY Zenon DEF Marks!Init
<1>2. MarksTyped
  BY <1>0, <1>1 DEF Marks!Init, MarksTyped
<1>3. PICK at : at = [n \in 1 .. 0 |-> 0]
  OBVIOUS
<1>4. SectionsAre(at) /\ PhasesAre(at)
  BY <1>0, <1>3 DEF SectionsAre, PhasesAre, Numbers
<1>5. PlaceIsKnown
  BY <1>0, <1>1 DEF PlaceIsKnown
<1>. QED
  BY <1>2, <1>4, <1>5 DEF MarksInv

\* A greater member is numbered next.
LEMMA NumbersOneMore ==
    ASSUME NEW at, NEW S \in SUBSET Nat, NEW n \in Nat, Numbers(at, S, n),
           NEW x \in Nat, \A i \in S : i < x,
           NEW more, more = [k \in 1 .. n + 1 |-> IF k = n + 1 THEN x ELSE at[k]],
           NEW T, T = S \cup {x}
    PROVE  /\ Numbers(more, T, n + 1)
           /\ more[n + 1] = x
           /\ \A k \in 1 .. n : more[k] = at[k]
<1>1. more[n + 1] = x /\ \A k \in 1 .. n : more[k] = at[k] /\ at[k] \in S
  BY DEF Numbers
<1>2. \A k \in 1 .. n + 1 : more[k] \in T
  BY <1>1
<1>3. more \in [1 .. n + 1 -> T]
  BY <1>2
<1>4. \A i \in T : \E k \in 1 .. n + 1 : more[k] = i
  BY <1>1 DEF Numbers
<1>5. ASSUME NEW k \in 1 .. n + 1, NEW m \in 1 .. n + 1, k < m PROVE more[k] < more[m]
  <2>0. k \in 1 .. n
    BY <1>5
  <2>1. at[k] \in S /\ at[k] < x
    BY <1>1, <2>0
  <2>2. CASE m = n + 1
    BY <1>1, <2>0, <2>1, <2>2
  <2>3. CASE m # n + 1
    <3>1. m \in 1 .. n
      BY <2>3
    <3>. QED
      BY <1>1, <1>5, <2>0, <3>1 DEF Numbers
  <2>. QED
    BY <2>2, <2>3
<1>. QED
  BY <1>1, <1>3, <1>4, <1>5 DEF Numbers

\* Of those numbered, the last is the greatest.
LEMMA NumbersEndAtLast ==
    ASSUME NEW at, NEW S \in SUBSET Nat, NEW n \in Nat, Numbers(at, S, n), NEW i \in S
    PROVE  n > 0 /\ i <= at[n]
<1>1. PICK k \in 1 .. n : at[k] = i
  BY DEF Numbers
<1>2. n \in 1 .. n /\ at[n] \in Nat /\ i \in Nat
  <2>1. n \in 1 .. n
    BY <1>1
  <2>2. at[n] \in S
    BY <2>1 DEF Numbers
  <2>. QED
    BY <2>1, <2>2
<1>3. CASE k = n
  BY <1>1, <1>2, <1>3
<1>4. CASE k # n
  <2>1. k < n
    BY <1>4
  <2>2. at[k] < at[n]
    BY <1>2, <2>1 DEF Numbers
  <2>. QED
    BY <1>1, <1>2, <2>2
<1>. QED
  BY <1>3, <1>4

\* One block more leaves what was read as it was.
Reads(b) == doc' = Append(doc, b) /\ b \in Words

LEMMA BlockIsAdded ==
    ASSUME MarksTyped, NEW b, Reads(b)
    PROVE  /\ doc' \in Seq(Words) /\ Len(doc') = Len(doc) + 1 /\ Len(doc) \in Nat
           /\ doc'[Len(doc) + 1] = b
           /\ \A i \in 1 .. Len(doc) : doc'[i] = doc[i]
  BY DEF MarksTyped, Reads

LEMMA HeadingsGrow ==
    ASSUME MarksTyped, NEW b, Reads(b), NEW n, n = Len(doc) + 1
    PROVE  /\ Headings' = IF b \in Marks!SectionName THEN Headings \cup {n} ELSE Headings
           /\ PhasesAt' = IF b = "Phase" THEN PhasesAt \cup {n} ELSE PhasesAt
           /\ Headings \subseteq 1 .. Len(doc) /\ PhasesAt \subseteq Headings
           /\ \A i \in Headings : i < n
<1>1. \A i : i \in 1 .. Len(doc') <=> i \in 1 .. Len(doc) \/ i = n
  BY BlockIsAdded
<1>2. /\ \A i : i \in Headings' <=> i \in Headings \/ (i = n /\ b \in Marks!SectionName)
      /\ \A i : i \in PhasesAt' <=> i \in PhasesAt \/ (i = n /\ b = "Phase")
  BY <1>1, BlockIsAdded DEF Headings, PhasesAt
<1>3. PhasesAt \subseteq Headings
  BY DEF PhasesAt, Headings, Marks!SectionName
<1>4. \A i \in Headings : i < n
  BY BlockIsAdded DEF Headings
<1>. QED
  BY <1>2, <1>3, <1>4 DEF Headings

\* What stands under a heading grows by a block under the last one, and no other.
LEMMA UnderGrows ==
    ASSUME MarksTyped, NEW b, Reads(b), NEW i \in Headings, NEW n, n = Len(doc) + 1
    PROVE  /\ Marks!Under(i)' = IF b \notin Marks!SectionName /\ IsLast(i)
                                THEN Marks!Under(i) \cup {n} ELSE Marks!Under(i)
           /\ Marks!Under(i) \subseteq i + 1 .. Len(doc)
<1>0. i \in 1 .. Len(doc) /\ n \in Nat
  BY BlockIsAdded DEF Headings
<1>1. ASSUME NEW k \in i + 1 .. Len(doc)
      PROVE  k \in Marks!Under(i)' <=> k \in Marks!Under(i)
  <2>1. k \in i + 1 .. Len(doc')
    BY <1>0, BlockIsAdded
  <2>2. \A j \in i + 1 .. k : doc'[j] = doc[j]
    BY <1>0, BlockIsAdded
  <2>. QED
    BY <2>1, <2>2 DEF Marks!Under
<1>2. n \in Marks!Under(i)' <=> b \notin Marks!SectionName /\ IsLast(i)
  <2>1. n \in i + 1 .. Len(doc')
    BY <1>0, BlockIsAdded
  <2>2. \A j \in i + 1 .. n : j \in i + 1 .. Len(doc) \/ j = n
    BY <1>0
  <2>3. \A j \in i + 1 .. Len(doc) : doc'[j] = doc[j] /\ j \in i + 1 .. n
    BY <1>0, BlockIsAdded
  <2>4. n \in i + 1 .. n /\ doc'[n] = b
    BY <1>0, BlockIsAdded
  <2>. QED
    BY <2>1, <2>2, <2>3, <2>4 DEF Marks!Under, IsLast
<1>3. \A k \in i + 1 .. Len(doc') : k \in i + 1 .. Len(doc) \/ k = n
  BY <1>0, BlockIsAdded
<1>4. /\ \A k \in Marks!Under(i)' : k \in i + 1 .. Len(doc) \/ k = n
      /\ \A k \in Marks!Under(i) : k \in i + 1 .. Len(doc)
      /\ n \notin Marks!Under(i)
  BY <1>0, <1>3 DEF Marks!Under
<1>. QED
  BY <1>1, <1>2, <1>4

\* A block answers the last section, or frames it.
LEMMA StateGrows ==
    ASSUME MarksTyped, NEW b, Reads(b), NEW i \in Headings
    PROVE  /\ b \notin Marks!SectionName /\ IsLast(i) => StateAt(i)' = Marks!StateWith(StateAt(i), b)
           /\ ~(b \notin Marks!SectionName /\ IsLast(i)) => StateAt(i)' = StateAt(i)
<1>. PICK n : n = Len(doc) + 1
  OBVIOUS
<1>0. i \in 1 .. Len(doc) /\ n \in Nat /\ doc'[n] = b
  BY BlockIsAdded DEF Headings
<1>1. \A k \in Marks!Under(i) : k \in 1 .. Len(doc) /\ doc'[k] = doc[k]
  BY <1>0, UnderGrows, BlockIsAdded
<1>2. CASE b \notin Marks!SectionName /\ IsLast(i)
  <2>1. Marks!Under(i)' = Marks!Under(i) \cup {n}
    BY <1>2, UnderGrows
  <2>2. Marks!IsAnswered(i)' <=> Marks!IsAnswered(i) \/ b # "quote"
    BY <1>0, <1>1, <2>1 DEF Marks!IsAnswered
  <2>. QED
    BY <1>2, <2>1, <2>2 DEF StateAt, Marks!StateWith
<1>3. CASE ~(b \notin Marks!SectionName /\ IsLast(i))
  <2>1. Marks!Under(i)' = Marks!Under(i)
    BY <1>3, UnderGrows
  <2>2. Marks!IsAnswered(i)' <=> Marks!IsAnswered(i)
    BY <1>1, <2>1 DEF Marks!IsAnswered
  <2>. QED
    BY <1>3, <2>1, <2>2 DEF StateAt
<1>. QED
  BY <1>2, <1>3

\* The last heading numbered is the last there is.
LEMMA LastIsNumbered ==
    ASSUME MarksTyped, NEW at, SectionsAre(at), NEW k \in 1 .. Len(sections)
    PROVE  at[k] \in Headings /\ (IsLast(at[k]) <=> k = Len(sections))
<1>0. Len(sections) \in Nat /\ Len(doc) \in Nat
  BY DEF MarksTyped
<1>1. /\ \A m \in 1 .. Len(sections) : at[m] \in Headings /\ at[m] \in 1 .. Len(doc)
      /\ \A m, p \in 1 .. Len(sections) : m < p => at[m] < at[p]
      /\ \A i \in Headings : \E m \in 1 .. Len(sections) : at[m] = i
  BY DEF SectionsAre, Numbers, Headings
<1>2. ASSUME k = Len(sections), NEW j \in at[k] + 1 .. Len(doc), doc[j] \in Marks!SectionName
      PROVE  FALSE
  <2>1. j \in Headings /\ j > at[k]
    BY <1>0, <1>1, <1>2 DEF Headings
  <2>2. PICK m \in 1 .. Len(sections) : at[m] = j
    BY <1>1, <2>1
  <2>3. m < k \/ m = k
    BY <1>0, <1>2
  <2>. QED
    BY <1>1, <2>1, <2>2, <2>3
<1>3. ASSUME k # Len(sections)
      PROVE  ~IsLast(at[k])
  <2>1. Len(sections) \in 1 .. Len(sections) /\ k < Len(sections)
    BY <1>0, <1>3
  <2>2. PICK j \in Headings : j = at[Len(sections)]
    BY <1>1, <2>1
  <2>3. j \in at[k] + 1 .. Len(doc) /\ doc[j] \in Marks!SectionName
    BY <1>0, <1>1, <2>1, <2>2 DEF Headings
  <2>. QED
    BY <2>3 DEF IsLast
<1>. QED
  BY <1>1, <1>2, <1>3 DEF IsLast

LEMMA SectionsGrow ==
    ASSUME MarksTyped, NEW b, Reads(b), NEW at, SectionsAre(at), Marks!Sectioned(b)
    PROVE  /\ sections' \in Seq([name : Marks!SectionName, state : States])
           /\ \E more : SectionsAre(more)'
<1>. PICK n : n = Len(doc) + 1
  OBVIOUS
<1>0. Len(sections) \in Nat /\ n \in Nat /\ sections \in Seq([name : Marks!SectionName, state : States])
      /\ Headings \in SUBSET Nat /\ Len(doc) \in Nat
  BY DEF MarksTyped, Headings
<1>1. \A m \in 1 .. Len(sections) : at[m] \in Headings /\ at[m] \in 1 .. Len(doc) /\ doc'[at[m]] = doc[at[m]]
  BY BlockIsAdded DEF SectionsAre, Numbers, Headings
<1>2. CASE b \in Marks!SectionName
  <2>1. PICK s \in [name : Marks!SectionName, state : States] : s.name = b /\ s.state = "empty" /\ sections' = Append(sections, s)
    BY <1>2 DEF Marks!Sectioned, States
  <2>2. /\ sections' \in Seq([name : Marks!SectionName, state : States])
        /\ Len(sections') = Len(sections) + 1 /\ sections'[Len(sections) + 1] = s
        /\ \A m \in 1 .. Len(sections) : sections'[m] = sections[m]
    BY <1>0, <2>1
  <2>3. PICK more : more = [k \in 1 .. Len(sections) + 1 |-> IF k = Len(sections) + 1 THEN n ELSE at[k]]
    OBVIOUS
  <2>4. PICK T : T = Headings \cup {n}
    OBVIOUS
  <2>5. T = Headings' /\ \A i \in Headings : i < n
    BY <1>2, <2>4, HeadingsGrow
  <2>6. /\ Numbers(more, T, Len(sections) + 1) /\ more[Len(sections) + 1] = n
        /\ \A k \in 1 .. Len(sections) : more[k] = at[k]
    BY <1>0, <2>3, <2>4, <2>5, NumbersOneMore DEF SectionsAre
  <2>7. ASSUME NEW m \in 1 .. Len(sections)
        PROVE  sections'[m].name = doc'[more[m]] /\ sections'[m].state = StateAt(more[m])'
    <3>1. PICK i \in Headings : i = at[m]
      BY <1>1
    <3>2. StateAt(i)' = StateAt(i)
      BY <1>2, StateGrows
    <3>. QED
      BY <1>1, <2>2, <2>6, <3>1, <3>2 DEF SectionsAre
  <2>8. StateAt(n)' = "empty" /\ doc'[n] = b
    <3>1. Marks!Under(n)' = {}
      <4>1. n + 1 .. Len(doc') = {}
        BY <1>0, BlockIsAdded
      <4>. QED
        BY <4>1 DEF Marks!Under
    <3>. QED
      BY <3>1, BlockIsAdded DEF StateAt, Marks!IsAnswered
  <2>9. \A m \in 1 .. Len(sections') : m \in 1 .. Len(sections) \/ m = Len(sections) + 1
    BY <1>0, <2>2
  <2>10. \A m \in 1 .. Len(sections') : sections'[m].name = doc'[more[m]] /\ sections'[m].state = StateAt(more[m])'
    BY <2>1, <2>2, <2>6, <2>7, <2>8, <2>9
  <2>11. SectionsAre(more)'
    BY <2>2, <2>5, <2>6, <2>10 DEF SectionsAre
  <2>. QED
    BY <2>2, <2>11
<1>3. CASE b \notin Marks!SectionName /\ sections = << >>
  <2>1. sections' = << >> /\ Headings' = Headings /\ Len(sections) = 0
    BY <1>3, HeadingsGrow DEF Marks!Sectioned
  <2>2. SectionsAre(at)'
    BY <2>1, <1>3 DEF SectionsAre
  <2>. QED
    BY <1>0, <1>3, <2>1, <2>2
<1>4. CASE b \notin Marks!SectionName /\ sections # << >>
  <2>. PICK last : last = Len(sections)
    OBVIOUS
  <2>1. last \in 1 .. Len(sections) /\ Headings' = Headings
    BY <1>0, <1>4, HeadingsGrow
  <2>0. sections[last] \in [name : Marks!SectionName, state : States]
    BY <1>0, <2>1, ElementOfSeq
  <2>2. PICK old \in [name : Marks!SectionName, state : States] : old = sections[last]
    BY <2>0
  <2>3. PICK s : s = [name |-> old.name, state |-> Marks!StateWith(old.state, b)]
    OBVIOUS
  <2>4. s \in [name : Marks!SectionName, state : States]
    BY <2>2, <2>3 DEF Marks!StateWith, States
  <2>5. sections' = [sections EXCEPT ![last] = s]
    <3>1. [old EXCEPT !.state = Marks!StateWith(old.state, b)] = s
      BY <2>3
    <3>2. sections' = [sections EXCEPT ![Len(sections)].state = Marks!StateWith(@, b)]
      BY <1>4 DEF Marks!Sectioned
    <3>. QED
      BY <2>2, <3>1, <3>2, Zenon
  <2>6. /\ sections' \in Seq([name : Marks!SectionName, state : States])
        /\ Len(sections') = Len(sections) /\ sections'[last] = s
        /\ \A m \in 1 .. Len(sections) : m # last => sections'[m] = sections[m]
    BY <1>0, <2>1, <2>4, <2>5
  <2>7. ASSUME NEW m \in 1 .. Len(sections)
        PROVE  sections'[m].name = doc'[at[m]] /\ sections'[m].state = StateAt(at[m])'
    <3>1. PICK i \in Headings : i = at[m]
      BY <1>1
    <3>2. IsLast(i) <=> m = last
      BY <3>1, LastIsNumbered
    <3>3. sections[m].name = doc[i] /\ sections[m].state = StateAt(i)
      BY <3>1 DEF SectionsAre
    <3>4. CASE m = last
      BY <1>1, <1>4, <2>2, <2>3, <2>6, <3>1, <3>2, <3>3, <3>4, StateGrows
    <3>5. CASE m # last
      BY <1>1, <1>4, <2>6, <3>1, <3>2, <3>3, <3>5, StateGrows
    <3>. QED
      BY <3>4, <3>5
  <2>8. SectionsAre(at)'
    BY <2>1, <2>6, <2>7 DEF SectionsAre
  <2>. QED
    BY <2>6, <2>8
<1>. QED
  BY <1>2, <1>3, <1>4

Plain == Marks!Item \cup {"quote", "text", "h4"}

\* Where a heading is the last, and what a block makes of what is read under it.
LEMMA LastMoves ==
    ASSUME MarksTyped, NEW b, Reads(b)
    PROVE  /\ \A i \in Headings : IsLast(i)' <=> IsLast(i) /\ b \notin Marks!SectionName
           /\ \A i \in Headings' : b \in Marks!SectionName => (IsLast(i)' <=> i = Len(doc) + 1)
           /\ \A i, j \in Headings : IsLast(i) /\ IsLast(j) => i = j
<1>. PICK n : n = Len(doc) + 1
  OBVIOUS
<1>0. /\ n \in Nat /\ Len(doc') = n /\ doc'[n] = b /\ Len(doc) \in Nat
      /\ \A i \in 1 .. Len(doc) : doc'[i] = doc[i]
  BY BlockIsAdded
<1>1. /\ \A i \in Headings : i \in 1 .. Len(doc) /\ i \in Headings'
      /\ \A i \in Headings' : i \in Headings \/ (i = n /\ b \in Marks!SectionName)
      /\ b \in Marks!SectionName => n \in Headings'
  BY HeadingsGrow
<1>2. ASSUME NEW i \in Headings
      PROVE  IsLast(i)' <=> IsLast(i) /\ b \notin Marks!SectionName
  <2>1. \A j \in i + 1 .. Len(doc') : j \in i + 1 .. Len(doc) \/ j = n
    BY <1>0, <1>1
  <2>2. /\ n \in i + 1 .. Len(doc')
        /\ \A j \in i + 1 .. Len(doc) : j \in i + 1 .. Len(doc') /\ doc'[j] = doc[j]
    BY <1>0, <1>1
  <2>. QED
    BY <1>0, <1>1, <2>1, <2>2 DEF IsLast
<1>3. ASSUME b \in Marks!SectionName, NEW i \in Headings'
      PROVE  IsLast(i)' <=> i = n
  <2>1. CASE i = n
    BY <1>0, <1>1, <1>3, <2>1 DEF IsLast
  <2>2. CASE i # n
    BY <1>1, <1>2, <1>3, <2>2
  <2>. QED
    BY <2>1, <2>2
<1>4. ASSUME NEW i \in Headings, NEW j \in Headings, IsLast(i), IsLast(j)
      PROVE  i = j
  <2>1. i \in 1 .. Len(doc) /\ j \in 1 .. Len(doc) /\ doc[i] \in Marks!SectionName /\ doc[j] \in Marks!SectionName
    BY DEF Headings
  <2>2. ~(j \in i + 1 .. Len(doc)) /\ ~(i \in j + 1 .. Len(doc))
    BY <1>4, <2>1 DEF IsLast
  <2>. QED
    BY <1>0, <2>1, <2>2
<1>. QED
  BY <1>2, <1>3, <1>4

LEMMA VerifyGrows ==
    ASSUME MarksTyped, NEW b, Reads(b), NEW i \in Headings
    PROVE  /\ HasVerify(i)' <=> HasVerify(i) \/ b = "Verify"
           /\ IsVerifying(i)' <=> \/ IsVerifying(i) /\ b \in Plain
                                  \/ b = "Verify" /\ ~HasVerify(i)
           /\ IsVerifying(i) => HasVerify(i)
<1>. PICK n : n = Len(doc) + 1
  OBVIOUS
<1>0. /\ n \in Nat /\ Len(doc') = n /\ doc'[n] = b /\ Len(doc) \in Nat
      /\ \A j \in 1 .. Len(doc) : doc'[j] = doc[j]
      /\ i \in 1 .. Len(doc)
  BY BlockIsAdded DEF Headings
<1>1. /\ \A v \in i + 1 .. Len(doc') : v \in i + 1 .. Len(doc) \/ v = n
      /\ \A v \in i + 1 .. Len(doc) : v \in i + 1 .. Len(doc') /\ doc'[v] = doc[v] /\ v # n
      /\ n \in i + 1 .. Len(doc')
  BY <1>0
<1>2. HasVerify(i)' <=> HasVerify(i) \/ b = "Verify"
  BY <1>0, <1>1 DEF HasVerify
<1>3. ASSUME NEW v \in i + 1 .. Len(doc)
      PROVE  /\ FirstVerify(i, v)' <=> FirstVerify(i, v)
             /\ StillOf(v, Len(doc))' <=> StillOf(v, Len(doc)) /\ b \in Plain
  <2>1. \A j \in i + 1 .. v - 1 : doc'[j] = doc[j]
    BY <1>0
  <2>2. /\ \A j \in v + 1 .. n : j \in v + 1 .. Len(doc) \/ j = n
        /\ \A j \in v + 1 .. Len(doc) : j \in v + 1 .. n /\ doc'[j] = doc[j]
        /\ n \in v + 1 .. n
    BY <1>0
  <2>3. StillOf(v, Len(doc))' <=> \A j \in v + 1 .. n : doc'[j] \in Plain
    BY <1>0 DEF StillOf, Plain
  <2>4. StillOf(v, Len(doc)) <=> \A j \in v + 1 .. Len(doc) : doc[j] \in Plain
    BY DEF StillOf, Plain
  <2>. QED
    BY <1>0, <1>1, <2>1, <2>2, <2>3, <2>4 DEF FirstVerify
<1>4. /\ FirstVerify(i, n)' <=> b = "Verify" /\ ~HasVerify(i)
      /\ StillOf(n, Len(doc))'
  <2>1. \A j : j \in i + 1 .. n - 1 <=> j \in i + 1 .. Len(doc)
    BY <1>0
  <2>2. n + 1 .. Len(doc') = {}
    BY <1>0
  <2>. QED
    BY <1>0, <1>1, <2>1, <2>2 DEF FirstVerify, HasVerify, StillOf
<1>5. \A v : /\ FirstVerify(i, v)' => v \in i + 1 .. Len(doc) \/ v = n
             /\ FirstVerify(i, v) => v \in i + 1 .. Len(doc)
  BY <1>1 DEF FirstVerify
<1>6. IsVerifying(i) => HasVerify(i)
  BY DEF IsVerifying, HasVerify, FirstVerify
<1>7. IsVerifying(i)' => \/ IsVerifying(i) /\ b \in Plain
                         \/ b = "Verify" /\ ~HasVerify(i)
  BY <1>3, <1>4, <1>5 DEF IsVerifying
<1>8. IsVerifying(i) /\ b \in Plain => IsVerifying(i)'
  BY <1>3, <1>5 DEF IsVerifying
<1>9. b = "Verify" /\ ~HasVerify(i) => IsVerifying(i)'
  BY <1>4 DEF IsVerifying
<1>. QED
  BY <1>2, <1>6, <1>7, <1>8, <1>9

\* The criteria of a phase grow by an item that is read while verifying it.
LEMMA CriteriaGrow ==
    ASSUME MarksTyped, NEW b, Reads(b), NEW i \in PhasesAt, NEW n, n = Len(doc) + 1
    PROVE  /\ Marks!Criteria(i)' = IF b \in Marks!Item /\ IsLast(i) /\ IsVerifying(i)
                                   THEN Marks!Criteria(i) \cup {n} ELSE Marks!Criteria(i)
           /\ Ticks(i)' = IF b = Marks!Ticked /\ IsLast(i) /\ IsVerifying(i)
                          THEN Ticks(i) \cup {n} ELSE Ticks(i)
           /\ Marks!Criteria(i) \subseteq 1 .. Len(doc)
<1>0. /\ n \in Nat /\ Len(doc') = n /\ doc'[n] = b /\ Len(doc) \in Nat
      /\ \A j \in 1 .. Len(doc) : doc'[j] = doc[j]
      /\ i \in 1 .. Len(doc) /\ i \in Headings
  BY BlockIsAdded, HeadingsGrow DEF PhasesAt
<1>1. /\ Marks!Under(i) \subseteq i + 1 .. Len(doc)
      /\ \A v \in i + 1 .. Len(doc) : v \in Marks!Under(i)' <=> v \in Marks!Under(i)
      /\ n \in Marks!Under(i)' <=> b \notin Marks!SectionName /\ IsLast(i)
      /\ Marks!Under(i)' \subseteq Marks!Under(i) \cup {n}
  <2>1. \A v \in i + 1 .. Len(doc) : v # n
    BY <1>0
  <2>. QED
    BY <1>0, <2>1, UnderGrows
<1>2. \A v : /\ v \in Marks!At("Verify") <=> v \in 1 .. Len(doc) /\ doc[v] = "Verify"
             /\ v \in Marks!At("Verify")' <=> v \in 1 .. Len(doc') /\ doc'[v] = "Verify"
  BY BlockIsAdded DEF Marks!At, MarksTyped
<1>3. ASSUME NEW k \in i + 1 .. Len(doc), NEW v \in Nat
      PROVE  /\ v \in Marks!Under(i) \cap Marks!At("Verify") /\ v < k
                <=> (v \in Marks!Under(i) \cap Marks!At("Verify"))' /\ v < k
             /\ v < k => /\ (\A j \in i + 1 .. v - 1 : doc'[j] # "Verify")
                            <=> (\A j \in i + 1 .. v - 1 : doc[j] # "Verify")
                         /\ (\A j \in v + 1 .. k : doc'[j] \in Plain) <=> (\A j \in v + 1 .. k : doc[j] \in Plain)
  <2>1. v < k => /\ \A j \in i + 1 .. v - 1 : doc'[j] = doc[j]
                 /\ \A j \in v + 1 .. k : doc'[j] = doc[j]
    <3>1. Len(doc) \in Nat /\ i \in 1 .. Len(doc)
      BY <1>0
    <3>2. v < k => /\ \A j \in i + 1 .. v - 1 : j \in 1 .. Len(doc)
                   /\ \A j \in v + 1 .. k : j \in 1 .. Len(doc)
      BY <3>1
    <3>. QED
      BY <1>0, <3>2
  <2>2. v < k /\ v \in i + 1 .. n => /\ v \in i + 1 .. Len(doc) /\ v \in 1 .. Len(doc) /\ v \in 1 .. Len(doc')
                                     /\ doc'[v] = doc[v]
    BY <1>0
  <2>3. v \in Marks!Under(i) \/ v \in Marks!Under(i)' => v \in i + 1 .. n
    BY <1>0, <1>1
  <2>4. ASSUME v < k
        PROVE  v \in Marks!Under(i) \cap Marks!At("Verify") <=> (v \in Marks!Under(i) \cap Marks!At("Verify"))'
    BY <1>1, <1>2, <2>2, <2>3, <2>4
  <2>. QED
    BY <2>1, <2>4
<1>4. \A k : k \in Marks!Criteria(i) <=>
               /\ k \in Marks!Under(i) /\ doc[k] \in Marks!Item
               /\ \E v \in Marks!Under(i) \cap Marks!At("Verify") :
                     /\ v < k
                     /\ \A j \in i + 1 .. v - 1 : doc[j] # "Verify"
                     /\ \A j \in v + 1 .. k : doc[j] \in Plain
  BY DEF Marks!Criteria, Plain
<1>5. \A k : k \in Marks!Criteria(i)' <=>
               /\ k \in Marks!Under(i)' /\ doc'[k] \in Marks!Item
               /\ \E v \in (Marks!Under(i) \cap Marks!At("Verify"))' :
                     /\ v < k
                     /\ \A j \in i + 1 .. v - 1 : doc'[j] # "Verify"
                     /\ \A j \in v + 1 .. k : doc'[j] \in Plain
  BY DEF Marks!Criteria, Plain
<1>6. \A v : v \in Marks!Under(i) \/ v \in Marks!Under(i)' => v \in Nat
  BY <1>0, <1>1
<1>7. ASSUME NEW k \in i + 1 .. Len(doc)
      PROVE  k \in Marks!Criteria(i)' <=> k \in Marks!Criteria(i)
  <2>1. /\ k \in Marks!Under(i)' <=> k \in Marks!Under(i)
        /\ doc'[k] = doc[k]
    BY <1>0, <1>1
  <2>2. ASSUME k \in Marks!Criteria(i)' PROVE k \in Marks!Criteria(i)
    <3>1. PICK v \in (Marks!Under(i) \cap Marks!At("Verify"))' :
             /\ v < k
             /\ \A j \in i + 1 .. v - 1 : doc'[j] # "Verify"
             /\ \A j \in v + 1 .. k : doc'[j] \in Plain
      BY <1>5, <2>2
    <3>2. v \in Nat
      BY <1>6, <3>1
    <3>3. /\ v \in Marks!Under(i) \cap Marks!At("Verify")
          /\ \A j \in i + 1 .. v - 1 : doc[j] # "Verify"
          /\ \A j \in v + 1 .. k : doc[j] \in Plain
      BY <1>3, <3>1, <3>2
    <3>. QED
      BY <1>4, <1>5, <2>1, <2>2, <3>1, <3>3
  <2>3. ASSUME k \in Marks!Criteria(i) PROVE k \in Marks!Criteria(i)'
    <3>1. PICK v \in Marks!Under(i) \cap Marks!At("Verify") :
             /\ v < k
             /\ \A j \in i + 1 .. v - 1 : doc[j] # "Verify"
             /\ \A j \in v + 1 .. k : doc[j] \in Plain
      BY <1>4, <2>3
    <3>2. v \in Nat
      BY <1>6, <3>1
    <3>3. /\ v \in (Marks!Under(i) \cap Marks!At("Verify"))'
          /\ \A j \in i + 1 .. v - 1 : doc'[j] # "Verify"
          /\ \A j \in v + 1 .. k : doc'[j] \in Plain
      BY <1>3, <3>1, <3>2
    <3>. QED
      BY <1>4, <1>5, <2>1, <2>3, <3>1, <3>3
  <2>. QED
    BY <2>2, <2>3
<1>8. n \in Marks!Criteria(i)' <=> b \in Marks!Item /\ IsLast(i) /\ IsVerifying(i)
  <2>0. b \in Marks!Item => b \notin Marks!SectionName /\ b \in Plain
    BY DEF Marks!Item, Marks!SectionName, Marks!Ticked, Marks!Unticked, Plain
  <2>1. ASSUME n \in Marks!Criteria(i)'
        PROVE  b \in Marks!Item /\ IsLast(i) /\ IsVerifying(i)
    <3>1. n \in Marks!Under(i)' /\ doc'[n] \in Marks!Item
      BY <1>5, <2>1
    <3>2. PICK v \in (Marks!Under(i) \cap Marks!At("Verify"))' :
             /\ v < n
             /\ \A j \in i + 1 .. v - 1 : doc'[j] # "Verify"
             /\ \A j \in v + 1 .. n : doc'[j] \in Plain
      BY <1>5, <2>1
    <3>3. v \in i + 1 .. Len(doc) /\ doc'[v] = "Verify" /\ doc'[v] = doc[v]
      BY <1>0, <1>1, <1>2, <3>2
    <3>4. /\ \A j \in i + 1 .. v - 1 : doc'[j] = doc[j]
          /\ \A j \in v + 1 .. Len(doc) : doc'[j] = doc[j] /\ j \in v + 1 .. n
      BY <1>0, <3>3
    <3>5. FirstVerify(i, v) /\ StillOf(v, Len(doc))
      BY <3>2, <3>3, <3>4 DEF FirstVerify, StillOf, Plain
    <3>. QED
      BY <1>0, <1>1, <3>1, <3>5 DEF IsVerifying
  <2>2. ASSUME b \in Marks!Item, IsLast(i), IsVerifying(i)
        PROVE  n \in Marks!Criteria(i)'
    <3>1. PICK v : FirstVerify(i, v) /\ StillOf(v, Len(doc))
      BY <2>2 DEF IsVerifying
    <3>2. v \in i + 1 .. Len(doc) /\ doc[v] = "Verify"
      BY <3>1 DEF FirstVerify
    <3>3. v \in Marks!Under(i)
      <4>1. \A j \in i + 1 .. v : j \in i + 1 .. Len(doc)
        BY <1>0, <3>2
      <4>. QED
        BY <2>2, <3>2, <4>1 DEF Marks!Under, IsLast
    <3>4. v \in (Marks!Under(i) \cap Marks!At("Verify"))' /\ v < n
      BY <1>0, <1>1, <1>2, <3>2, <3>3
    <3>5. \A j \in i + 1 .. v - 1 : doc'[j] # "Verify"
      BY <1>0, <3>1, <3>2 DEF FirstVerify
    <3>6. \A j \in v + 1 .. n : doc'[j] \in Plain
      <4>1. \A j \in v + 1 .. n : j = n \/ j \in v + 1 .. Len(doc)
        BY <1>0, <3>2
      <4>2. \A j \in v + 1 .. Len(doc) : doc'[j] = doc[j]
        BY <1>0, <3>2
      <4>. QED
        BY <1>0, <2>0, <2>2, <3>1, <4>1, <4>2 DEF StillOf, Plain
    <3>7. n \in Marks!Under(i)'
      BY <1>1, <2>0, <2>2
    <3>. QED
      BY <1>0, <1>5, <2>2, <3>4, <3>5, <3>6, <3>7
  <2>. QED
    BY <2>1, <2>2
<1>9. /\ Marks!Criteria(i) \subseteq i + 1 .. Len(doc)
      /\ \A k \in Marks!Criteria(i)' : k \in i + 1 .. Len(doc) \/ k = n
      /\ n \notin i + 1 .. Len(doc)
  BY <1>0, <1>1, <1>4, <1>5
<1>10. Marks!Criteria(i)' = IF b \in Marks!Item /\ IsLast(i) /\ IsVerifying(i)
                            THEN Marks!Criteria(i) \cup {n} ELSE Marks!Criteria(i)
  BY <1>7, <1>8, <1>9
<1>11. \A k \in Marks!Criteria(i) : doc'[k] = doc[k] /\ k \in 1 .. Len(doc)
  BY <1>0, <1>9
<1>12. Marks!Ticked \in Marks!Item
  BY DEF Marks!Item
<1>13. Ticks(i)' = {k \in Marks!Criteria(i)' : doc'[k] = Marks!Ticked}
  BY DEF Ticks, Marks!Ticked
<1>14. Ticks(i)' = IF b = Marks!Ticked /\ IsLast(i) /\ IsVerifying(i) THEN Ticks(i) \cup {n} ELSE Ticks(i)
  BY <1>0, <1>10, <1>11, <1>12, <1>13 DEF Ticks
<1>. QED
  BY <1>10, <1>11, <1>14

PhaseRow == [met : Nat, total : Nat]

\* Below the top of a document there are finitely many blocks.
LEMMA FewBlocks ==
    ASSUME MarksTyped, NEW S, S \subseteq 1 .. Len(doc)
    PROVE  IsFiniteSet(S) /\ Cardinality(S) \in Nat
<1>1. Len(doc) \in Int /\ 1 \in Int
  BY DEF MarksTyped
<1>2. IsFiniteSet(1 .. Len(doc))
  BY <1>1, FS_Interval
<1>. QED
  BY <1>2, FS_Subset, FS_CardinalityType

LEMMA PhasesAreCounted ==
    ASSUME MarksTyped, NEW at, PhasesAre(at)
    PROVE  Cardinality(PhasesAt) = Len(phases)
<1>. PICK p : p = Len(phases)
  OBVIOUS
<1>0. p \in Nat /\ PhasesAt \in SUBSET Nat /\ Numbers(at, PhasesAt, p)
  BY DEF MarksTyped, PhasesAt, PhasesAre
<1>1. CASE Len(phases) = 0
  <2>1. PhasesAt = {}
    <3>1. SUFFICES ASSUME NEW i \in PhasesAt PROVE FALSE
      OBVIOUS
    <3>2. p > 0
      BY <1>0, <3>1, NumbersEndAtLast
    <3>. QED
      BY <1>1, <3>2
  <2>. QED
    BY <1>1, <2>1, FS_EmptySet
<1>2. CASE Len(phases) # 0
  <2>1. Len(phases) \in 1 .. Len(phases)
    BY <1>0, <1>2
  <2>2. \A j \in PhasesAt : j <= at[p]
    BY <1>0, NumbersEndAtLast
  <2>3. {j \in PhasesAt : j <= at[p]} = PhasesAt
    BY <2>2
  <2>. QED
    BY <2>1, <2>3 DEF PhasesAre, Rank
<1>. QED
  BY <1>1, <1>2

\* Which phase is being verified, if any.
LEMMA VerifyingTheLast ==
    ASSUME MarksTyped, PlaceIsKnown, NEW at, PhasesAre(at), NEW m \in 1 .. Len(phases)
    PROVE  IsLast(at[m]) /\ IsVerifying(at[m]) <=> verifying /\ m = Len(phases)
<1>. PICK p : p = Len(phases)
  OBVIOUS
<1>0. /\ p \in Nat /\ PhasesAt \in SUBSET Nat /\ PhasesAt \subseteq Headings
      /\ Numbers(at, PhasesAt, p) /\ p \in 1 .. p /\ m \in 1 .. p
  BY DEF MarksTyped, PhasesAt, Headings, Marks!SectionName, PhasesAre
<1>1. PICK i \in PhasesAt : i = at[m]
  BY DEF PhasesAre, Numbers
<1>2. PICK z \in PhasesAt : z = at[p]
  BY <1>0 DEF Numbers
<1>3. \A j \in PhasesAt : IsLast(j) => j = z
  <2>1. SUFFICES ASSUME NEW j \in PhasesAt, IsLast(j), j # z PROVE FALSE
    OBVIOUS
  <2>2. j <= z
    BY <1>0, <1>2, NumbersEndAtLast
  <2>3. z \in 1 .. Len(doc) /\ j \in 1 .. Len(doc) /\ Len(doc) \in Nat /\ doc[z] \in Marks!SectionName
    BY DEF PhasesAt, Marks!SectionName, MarksTyped
  <2>4. z \in j + 1 .. Len(doc)
    BY <2>1, <2>2, <2>3
  <2>. QED
    BY <2>1, <2>3, <2>4 DEF IsLast
<1>4. i = z <=> m = p
  <2>1. CASE m = p
    BY <1>1, <1>2, <2>1
  <2>2. CASE m # p
    <3>1. m < p
      BY <1>0, <2>2
    <3>2. i < z
      BY <1>0, <1>1, <1>2, <3>1 DEF Numbers
    <3>. QED
      BY <1>0, <2>2, <3>2
  <2>. QED
    BY <2>1, <2>2
<1>5. verifying <=> IsLast(z) /\ IsVerifying(z)
  BY <1>3 DEF PlaceIsKnown
<1>. QED
  BY <1>1, <1>3, <1>4, <1>5

LEMMA PhasesMove ==
    ASSUME NEW b, b \in Words, Marks!Phased(b)
    PROVE  /\ b = "Phase" => phases' = Append(phases, [met |-> 0, total |-> 0])
           /\ b \in Marks!Item /\ verifying =>
                 phases' = [phases EXCEPT ![Len(phases)] =
                              [met   |-> @.met + IF b = Marks!Ticked THEN 1 ELSE 0,
                               total |-> @.total + 1]]
           /\ b # "Phase" /\ ~(b \in Marks!Item /\ verifying) => phases' = phases
  BY DEF Marks!Phased, Marks!Item, Marks!Ticked, Marks!Unticked, Marks!SectionName, Marks!Heading, Words

LEMMA PhasesGrow ==
    ASSUME MarksTyped, PlaceIsKnown, NEW b, Reads(b), NEW at, PhasesAre(at), Marks!Phased(b)
    PROVE  /\ phases' \in Seq(PhaseRow)
           /\ \E more : PhasesAre(more)'
<1>. PICK n : n = Len(doc) + 1
  OBVIOUS
<1>0. /\ Len(phases) \in Nat /\ n \in Nat /\ phases \in Seq(PhaseRow) /\ b \in Words
      /\ PhasesAt \in SUBSET Nat /\ Len(doc) \in Nat
  BY DEF MarksTyped, PhasesAt, PhaseRow, Reads
<1>1. \A m \in 1 .. Len(phases) : at[m] \in PhasesAt /\ at[m] \in Nat
  BY DEF PhasesAre, Numbers, PhasesAt
<1>2. /\ PhasesAt' = IF b = "Phase" THEN PhasesAt \cup {n} ELSE PhasesAt
      /\ \A i \in PhasesAt : i < n
      /\ PhasesAt \subseteq 1 .. Len(doc) /\ n \notin 1 .. Len(doc)
  <2>1. n \notin 1 .. Len(doc)
    BY <1>0
  <2>. QED
    BY <2>1, HeadingsGrow
<1>3. ASSUME NEW m \in 1 .. Len(phases), NEW i \in PhasesAt, i = at[m]
      PROVE  /\ Rank(i)' = m
             /\ b \in Marks!Item /\ verifying /\ m = Len(phases) => Total(i)' = phases[m].total + 1
             /\ ~(b \in Marks!Item /\ verifying /\ m = Len(phases)) => Total(i)' = phases[m].total
             /\ b = Marks!Ticked /\ verifying /\ m = Len(phases) => Met(i)' = phases[m].met + 1
             /\ ~(b = Marks!Ticked /\ verifying /\ m = Len(phases)) => Met(i)' = phases[m].met
  <2>2. {j \in PhasesAt' : j <= i} = {j \in PhasesAt : j <= i}
    BY <1>0, <1>2
  <2>3. /\ IsLast(i) /\ IsVerifying(i) <=> verifying /\ m = Len(phases)
    BY <1>3, VerifyingTheLast
  <2>4. /\ Marks!Criteria(i)' = IF b \in Marks!Item /\ IsLast(i) /\ IsVerifying(i)
                                THEN Marks!Criteria(i) \cup {n} ELSE Marks!Criteria(i)
        /\ Ticks(i)' = IF b = Marks!Ticked /\ IsLast(i) /\ IsVerifying(i)
                       THEN Ticks(i) \cup {n} ELSE Ticks(i)
        /\ Marks!Criteria(i) \subseteq 1 .. Len(doc)
    BY CriteriaGrow
  <2>5. IsFiniteSet(Marks!Criteria(i)) /\ n \notin Marks!Criteria(i)
    BY <1>2, <2>4, FewBlocks
  <2>6. Ticks(i) \subseteq Marks!Criteria(i)
    BY DEF Ticks
  <2>7. IsFiniteSet(Ticks(i)) /\ n \notin Ticks(i)
    BY <2>4, <2>5, <2>6, FewBlocks
  <2>8. /\ Cardinality(Marks!Criteria(i) \cup {n}) = Cardinality(Marks!Criteria(i)) + 1
        /\ Cardinality(Ticks(i) \cup {n}) = Cardinality(Ticks(i)) + 1
    BY <2>5, <2>7, FS_AddElement
  <2>9. /\ Rank(i) = m
        /\ phases[m].total = Cardinality(Marks!Criteria(i)) /\ phases[m].met = Cardinality(Ticks(i))
    BY <1>3 DEF PhasesAre, Total, Met
  <2>10. Rank(i)' = m
    BY <2>2, <2>9 DEF Rank
  <2>11. Total(i)' = Cardinality(Marks!Criteria(i)') /\ Met(i)' = Cardinality(Ticks(i)')
    BY DEF Total, Met
  <2>12. /\ b \in Marks!Item /\ verifying /\ m = Len(phases) => Total(i)' = phases[m].total + 1
         /\ ~(b \in Marks!Item /\ verifying /\ m = Len(phases)) => Total(i)' = phases[m].total
    BY <2>3, <2>4, <2>8, <2>9, <2>11
  <2>13. /\ b = Marks!Ticked /\ verifying /\ m = Len(phases) => Met(i)' = phases[m].met + 1
         /\ ~(b = Marks!Ticked /\ verifying /\ m = Len(phases)) => Met(i)' = phases[m].met
    BY <2>3, <2>4, <2>8, <2>9, <2>11
  <2>. QED
    BY <2>10, <2>12, <2>13
<1>4. CASE b = "Phase"
  <2>0. b \notin Marks!Item /\ b # Marks!Ticked
    BY <1>4 DEF Marks!Item, Marks!Ticked, Marks!Unticked
  <2>1. PICK s \in PhaseRow : s.met = 0 /\ s.total = 0 /\ phases' = Append(phases, s)
    BY <1>0, <1>4, PhasesMove DEF PhaseRow
  <2>2. /\ phases' \in Seq(PhaseRow)
        /\ Len(phases') = Len(phases) + 1 /\ phases'[Len(phases) + 1] = s
        /\ \A m \in 1 .. Len(phases) : phases'[m] = phases[m] /\ phases[m] \in PhaseRow
    BY <1>0, <2>1
  <2>3. PICK more : more = [k \in 1 .. Len(phases) + 1 |-> IF k = Len(phases) + 1 THEN n ELSE at[k]]
    OBVIOUS
  <2>4. PICK T : T = PhasesAt \cup {n}
    OBVIOUS
  <2>5. T = PhasesAt'
    BY <1>2, <1>4, <2>4
  <2>6. /\ Numbers(more, T, Len(phases) + 1) /\ more[Len(phases) + 1] = n
        /\ \A k \in 1 .. Len(phases) : more[k] = at[k]
    BY <1>0, <1>2, <2>3, <2>4, NumbersOneMore DEF PhasesAre
  <2>7. ASSUME NEW m \in 1 .. Len(phases)
        PROVE  Rank(more[m])' = m /\ phases'[m].total = Total(more[m])' /\ phases'[m].met = Met(more[m])'
    <3>1. PICK i \in PhasesAt : i = at[m] /\ i = more[m]
      BY <1>1, <2>6
    <3>2. Rank(i)' = m /\ Total(i)' = phases[m].total /\ Met(i)' = phases[m].met
      BY <1>3, <2>0, <3>1
    <3>. QED
      BY <2>2, <3>1, <3>2
  <2>8. Rank(n)' = Len(phases) + 1 /\ Total(n)' = 0 /\ Met(n)' = 0
    <3>1. {j \in PhasesAt' : j <= n} = PhasesAt \cup {n}
      <4>1. \A j \in PhasesAt : j <= n
        BY <1>0, <1>2
      <4>2. PhasesAt' = PhasesAt \cup {n} /\ n <= n
        BY <1>0, <1>2, <1>4
      <4>. QED
        BY <4>1, <4>2
    <3>2. Cardinality(PhasesAt \cup {n}) = Cardinality(PhasesAt) + 1
      BY <1>2, FewBlocks, FS_AddElement
    <3>3. Marks!Under(n)' = {}
      <4>1. n + 1 .. Len(doc') = {}
        BY <1>0, BlockIsAdded
      <4>. QED
        BY <4>1 DEF Marks!Under
    <3>4. Marks!Criteria(n)' = {} /\ Ticks(n)' = {}
      BY <3>3 DEF Marks!Criteria, Ticks
    <3>. QED
      BY <3>1, <3>2, <3>4, PhasesAreCounted, FS_EmptySet DEF Rank, Total, Met
  <2>9. \A m \in 1 .. Len(phases') : m \in 1 .. Len(phases) \/ m = Len(phases) + 1
    BY <1>0, <2>2
  <2>10. \A m \in 1 .. Len(phases') :
            Rank(more[m])' = m /\ phases'[m].total = Total(more[m])' /\ phases'[m].met = Met(more[m])'
    BY <2>1, <2>2, <2>6, <2>7, <2>8, <2>9
  <2>11. PhasesAre(more)'
    BY <2>2, <2>5, <2>6, <2>10 DEF PhasesAre
  <2>. QED
    BY <2>2, <2>11
<1>5. CASE b \in Marks!Item /\ verifying
  <2>0. b # "Phase" /\ PhasesAt' = PhasesAt
    BY <1>2, <1>5 DEF Marks!Item, Marks!Ticked, Marks!Unticked
  <2>. PICK last : last = Len(phases)
    OBVIOUS
  <2>1. last \in 1 .. Len(phases)
    <3>1. PhasesAt # {}
      BY <1>5 DEF PlaceIsKnown
    <3>2. Numbers(at, PhasesAt, last) /\ last \in Nat
      BY <1>0 DEF PhasesAre
    <3>3. PICK i \in PhasesAt : TRUE
      BY <3>1
    <3>4. last > 0
      BY <1>0, <3>2, <3>3, NumbersEndAtLast
    <3>. QED
      BY <3>2, <3>4
  <2>2. phases[last] \in PhaseRow
    BY <1>0, <2>1, ElementOfSeq
  <2>3. PICK old \in PhaseRow : old = phases[last]
    BY <2>2
  <2>4. PICK s : s = [met   |-> old.met + IF b = Marks!Ticked THEN 1 ELSE 0, total |-> old.total + 1]
    OBVIOUS
  <2>14. /\ s \in PhaseRow /\ s.total = old.total + 1
         /\ b = Marks!Ticked => s.met = old.met + 1
         /\ b # Marks!Ticked => s.met = old.met
    BY <2>4 DEF PhaseRow
  <2>5. phases' = [phases EXCEPT ![last] = s]
    <3>1. phases' = [phases EXCEPT ![Len(phases)] =
                              [met   |-> @.met + IF b = Marks!Ticked THEN 1 ELSE 0,
                               total |-> @.total + 1]]
      BY <1>0, <1>5, PhasesMove
    <3>. QED
      BY <2>3, <2>4, <3>1, Zenon
  <2>6. /\ phases' \in Seq(PhaseRow)
        /\ Len(phases') = Len(phases) /\ phases'[last] = s
        /\ \A m \in 1 .. Len(phases) : m # last => phases'[m] = phases[m] /\ phases[m] \in PhaseRow
    BY <1>0, <2>1, <2>5, <2>14
  <2>7. ASSUME NEW m \in 1 .. Len(phases)
        PROVE  Rank(at[m])' = m /\ phases'[m].total = Total(at[m])' /\ phases'[m].met = Met(at[m])'
    <3>0. PICK i \in PhasesAt : i = at[m]
      BY <1>1
    <3>1. CASE m = last
      <4>1. Rank(i)' = m /\ Total(i)' = old.total + 1
        BY <1>3, <1>5, <2>3, <3>0, <3>1
      <4>2. Met(i)' = s.met
        BY <1>3, <1>5, <2>3, <2>14, <3>0, <3>1
      <4>. QED
        BY <2>6, <2>14, <3>0, <3>1, <4>1, <4>2
    <3>2. CASE m # last
      <4>1. Rank(i)' = m /\ Total(i)' = phases[m].total /\ Met(i)' = phases[m].met
        BY <1>3, <3>0, <3>2
      <4>. QED
        BY <2>6, <3>0, <3>2, <4>1
    <3>. QED
      BY <3>1, <3>2
  <2>8. PhasesAre(at)'
    BY <2>0, <2>6, <2>7 DEF PhasesAre
  <2>. QED
    BY <2>6, <2>8
<1>6. CASE b # "Phase" /\ ~(b \in Marks!Item /\ verifying)
  <2>1. phases' = phases /\ PhasesAt' = PhasesAt
    BY <1>0, <1>2, <1>6, PhasesMove
  <2>2. b = Marks!Ticked => b \in Marks!Item
    BY DEF Marks!Item
  <2>4. ASSUME NEW m \in 1 .. Len(phases)
        PROVE  Rank(at[m])' = m /\ phases'[m].total = Total(at[m])' /\ phases'[m].met = Met(at[m])'
    <3>1. PICK i \in PhasesAt : i = at[m]
      BY <1>1
    <3>2. Rank(i)' = m /\ Total(i)' = phases[m].total /\ Met(i)' = phases[m].met
      BY <1>3, <1>6, <2>2, <3>1
    <3>. QED
      BY <2>1, <3>1, <3>2
  <2>5. PhasesAre(at)'
    BY <2>1, <2>4 DEF PhasesAre
  <2>. QED
    BY <1>0, <2>1, <2>5
<1>. QED
  BY <1>4, <1>5, <1>6

LEMMA PlaceKeeps ==
    ASSUME MarksTyped, PlaceIsKnown, NEW b, Reads(b), Marks!Phased(b)
    PROVE  /\ PlaceIsKnown'
           /\ inPhase' \in BOOLEAN /\ verifying' \in BOOLEAN /\ verified' \in BOOLEAN
<1>. PICK n : n = Len(doc) + 1
  OBVIOUS
<1>0. /\ b \in Words /\ inPhase \in BOOLEAN /\ verifying \in BOOLEAN /\ verified \in BOOLEAN
      /\ PhasesAt \subseteq Headings
      /\ Headings' = IF b \in Marks!SectionName THEN Headings \cup {n} ELSE Headings
      /\ PhasesAt' = IF b = "Phase" THEN PhasesAt \cup {n} ELSE PhasesAt
  BY HeadingsGrow DEF Reads, MarksTyped
<1>1. /\ \A i \in Headings : IsLast(i)' <=> IsLast(i) /\ b \notin Marks!SectionName
      /\ \A i \in Headings' : b \in Marks!SectionName => (IsLast(i)' <=> i = n)
      /\ \A i, j \in Headings : IsLast(i) /\ IsLast(j) => i = j
  BY LastMoves
<1>2. "Phase" \in Marks!SectionName
  BY DEF Marks!SectionName
<1>3. CASE b \in Marks!SectionName
  <2>0. b \notin Marks!Heading /\ b \notin Marks!Item \cup {"quote", "text"}
    BY <1>3 DEF Marks!SectionName, Marks!Heading, Marks!Item, Marks!Ticked, Marks!Unticked
  <2>1. /\ inPhase' \in BOOLEAN /\ (inPhase' <=> b = "Phase")
        /\ ~verifying' /\ verifying' \in BOOLEAN /\ ~verified' /\ verified' \in BOOLEAN
    <3>1. inPhase' = (b = "Phase") /\ verifying' = FALSE /\ verified' = FALSE
      BY <2>0, Zenon DEF Marks!Phased
    <3>. QED
      BY <3>1, Zenon
  <2>2. \A i \in PhasesAt' : IsLast(i)' <=> i = n
    BY <1>0, <1>1, <1>2, <1>3
  <2>3. n \in PhasesAt' <=> b = "Phase"
    <3>1. n \notin PhasesAt
      BY HeadingsGrow, BlockIsAdded DEF PhasesAt
    <3>. QED
      BY <1>0, <3>1
  <2>4. ~HasVerify(n)' /\ ~IsVerifying(n)'
    <3>1. n + 1 .. Len(doc') = {}
      BY BlockIsAdded
    <3>. QED
      BY <3>1 DEF HasVerify, IsVerifying, FirstVerify
  <2>. QED
    BY <2>1, <2>2, <2>3, <2>4 DEF PlaceIsKnown
<1>4. CASE b \notin Marks!SectionName
  <2>1. PhasesAt' = PhasesAt /\ (\A i \in PhasesAt : IsLast(i)' <=> IsLast(i))
    BY <1>0, <1>1, <1>2, <1>4
  <2>2. \A i \in PhasesAt :
          /\ HasVerify(i)' <=> HasVerify(i) \/ b = "Verify"
          /\ IsVerifying(i)' <=> \/ IsVerifying(i) /\ b \in Plain
                                 \/ b = "Verify" /\ ~HasVerify(i)
          /\ IsVerifying(i) => HasVerify(i)
    BY <1>0, VerifyGrows
  <2>3. \A i, j \in PhasesAt : IsLast(i) /\ IsLast(j) => i = j
    BY <1>0, <1>1
  <2>4. b \in Plain \/ b \in Marks!Heading \ {"h4"}
    BY <1>0, <1>4 DEF Words, Plain
  <2>5. CASE b \in Plain
    <3>0. b # "Verify" /\ (b \in Marks!Heading => b = "h4")
      BY <2>5 DEF Plain, Marks!Heading, Marks!Item, Marks!Ticked, Marks!Unticked
    <3>2. ~Marks!Ends("h4")
      BY DEF Marks!Ends
    <3>3. \/ UNCHANGED <<inPhase, verifying, verified>>
          \/ UNCHANGED <<inPhase, verified>> /\ verifying' = (verifying \/ (inPhase /\ ~verified /\ b = "Verify"))
      BY <1>4, <3>0, <3>2, Zenon DEF Marks!Phased
    <3>1. UNCHANGED <<inPhase, verifying, verified>>
      BY <1>0, <3>0, <3>3, Zenon
    <3>. QED
      BY <1>0, <2>1, <2>2, <2>5, <3>0, <3>1 DEF PlaceIsKnown
  <2>6. CASE b \in Marks!Heading \ {"h4"}
    <3>0. b \notin Plain /\ Marks!Ends(b)
      BY <2>6 DEF Plain, Marks!Heading, Marks!Item, Marks!Ticked, Marks!Unticked, Marks!Ends
    <3>1. /\ inPhase' = inPhase
          /\ verifying => verifying' = FALSE /\ verified' = TRUE
          /\ ~verifying => /\ verifying' = (verifying \/ (inPhase /\ ~verified /\ b = "Verify"))
                           /\ verified' = verified
      BY <1>4, <3>0, Zenon DEF Marks!Phased, Plain
    <3>2. /\ verifying' \in BOOLEAN /\ verified' \in BOOLEAN
          /\ verifying' <=> (~verifying /\ inPhase /\ ~verified /\ b = "Verify")
          /\ verified' <=> (verifying \/ (verified /\ ~verifying))
      <4>1. CASE verifying
        <5>1. verifying' = FALSE /\ verified' = TRUE
          BY <3>1, <4>1
        <5>2. ~verifying' /\ verifying' \in BOOLEAN /\ verified' /\ verified' \in BOOLEAN
          BY <5>1, Zenon
        <5>. QED
          BY <4>1, <5>2
      <4>2. CASE ~verifying
        <5>1. verifying' = (verifying \/ (inPhase /\ ~verified /\ b = "Verify")) /\ verified' = verified
          BY <3>1, <4>2
        <5>2. verifying' \in BOOLEAN /\ (verifying' <=> (inPhase /\ ~verified /\ b = "Verify"))
          BY <4>2, <5>1, Zenon
        <5>. QED
          BY <1>0, <4>2, <5>1, <5>2
      <4>. QED
        BY <4>1, <4>2
    <3>3. CASE \E i \in PhasesAt : IsLast(i)
      <4>1. PICK i \in PhasesAt : IsLast(i)
        BY <3>3
      <4>2. \A j \in PhasesAt : IsLast(j) <=> j = i
        BY <2>3, <4>1
      <4>3. /\ inPhase /\ (verifying <=> IsVerifying(i))
            /\ verified <=> ~verifying /\ HasVerify(i)
        BY <4>1, <4>2 DEF PlaceIsKnown
      <4>4. /\ verifying' <=> IsVerifying(i)'
            /\ verified' <=> (~verifying' /\ HasVerify(i)')
        BY <2>2, <3>0, <3>2, <4>3
      <4>. QED
        BY <1>0, <2>1, <3>1, <3>2, <4>1, <4>2, <4>3, <4>4 DEF PlaceIsKnown
    <3>4. CASE ~\E i \in PhasesAt : IsLast(i)
      <4>1. ~inPhase /\ ~verifying
        BY <3>4 DEF PlaceIsKnown
      <4>2. ~verifying' /\ inPhase' = inPhase
        BY <3>1, <3>2, <4>1
      <4>3. \A i \in PhasesAt' : ~(IsLast(i)')
        BY <2>1, <3>4
      <4>. QED
        BY <1>0, <3>2, <4>1, <4>2, <4>3 DEF PlaceIsKnown
    <3>. QED
      BY <3>3, <3>4
  <2>. QED
    BY <2>4, <2>5, <2>6
<1>. QED
  BY <1>3, <1>4

LEMMA MarksStep == MarksInv /\ [Marks!Next]_(Marks!markVars) => MarksInv'
<1>. SUFFICES ASSUME MarksInv, [Marks!Next]_(Marks!markVars) PROVE MarksInv'
  OBVIOUS
<1>0. MarksTyped /\ PlaceIsKnown
  BY DEF MarksInv
<1>1. CASE UNCHANGED Marks!markVars
  <2>1. /\ kind' = kind /\ tells' = tells /\ doc' = doc /\ sections' = sections /\ phases' = phases
        /\ inPhase' = inPhase /\ verifying' = verifying /\ verified' = verified
    BY <1>1 DEF Marks!markVars
  <2>2. Headings' = Headings /\ PhasesAt' = PhasesAt
    BY <2>1 DEF Headings, PhasesAt
  <2>3. \A i : StateAt(i)' = StateAt(i)
    BY <2>1 DEF StateAt, Marks!IsAnswered, Marks!Under
  <2>4. \A i : Marks!Criteria(i)' = Marks!Criteria(i)
    BY <2>1 DEF Marks!Criteria, Marks!Under, Marks!At
  <2>5. \A i : Rank(i)' = Rank(i) /\ Total(i)' = Total(i) /\ Met(i)' = Met(i)
    BY <2>1, <2>2, <2>4 DEF Rank, Total, Met, Ticks
  <2>6. \A i : /\ IsLast(i)' <=> IsLast(i)
               /\ HasVerify(i)' <=> HasVerify(i)
               /\ IsVerifying(i)' <=> IsVerifying(i)
    BY <2>1, <2>2 DEF IsLast, HasVerify, IsVerifying, FirstVerify, StillOf
  <2>7. MarksTyped' /\ PlaceIsKnown'
    BY <1>0, <2>1, <2>2, <2>6 DEF MarksTyped, PlaceIsKnown
  <2>8. /\ \A at : SectionsAre(at) => SectionsAre(at)'
        /\ \A at : PhasesAre(at) => PhasesAre(at)'
    BY <2>1, <2>2, <2>3, <2>5 DEF SectionsAre, PhasesAre
  <2>. QED
    BY <2>7, <2>8 DEF MarksInv
<1>2. CASE Marks!Next
  <2>1. PICK b : /\ b \in Marks!Blocks[kind] /\ doc' = Append(doc, b)
                 /\ Marks!Sectioned(b) /\ Marks!Phased(b) /\ UNCHANGED <<kind, tells>>
    BY <1>2 DEF Marks!Next, Marks!ReadBlock
  <2>2. b \in Words
    <3>1. kind \in {"research", "audits", "plans"} /\ "Dead" \in Words /\ Marks!SectionName \subseteq Words
          /\ {"quote", "text"} \cup Marks!Heading \cup Marks!Item \subseteq Words
      BY <1>0 DEF MarksTyped, Words, Marks!SectionName
    <3>2. /\ Marks!Blocks["research"] \subseteq Words
          /\ Marks!Blocks["audits"] \subseteq Words
          /\ Marks!Blocks["plans"] \subseteq Words
      BY <3>1 DEF Marks!Blocks, Marks!SectionName
    <3>. QED
      BY <2>1, <3>1, <3>2
  <2>3. Reads(b)
    BY <2>1, <2>2 DEF Reads
  <2>4. PICK at : SectionsAre(at)
    BY DEF MarksInv
  <2>5. PICK at2 : PhasesAre(at2)
    BY DEF MarksInv
  <2>6. /\ sections' \in Seq([name : Marks!SectionName, state : States])
        /\ \E more : SectionsAre(more)'
    BY <1>0, <2>1, <2>3, <2>4, SectionsGrow
  <2>7. phases' \in Seq(PhaseRow) /\ \E more : PhasesAre(more)'
    BY <1>0, <2>1, <2>3, <2>5, PhasesGrow
  <2>8. /\ PlaceIsKnown'
        /\ inPhase' \in BOOLEAN /\ verifying' \in BOOLEAN /\ verified' \in BOOLEAN
    BY <1>0, <2>1, <2>3, PlaceKeeps
  <2>9. doc' \in Seq(Words)
    BY <1>0, <2>3, BlockIsAdded
  <2>10. kind' \in {"research", "audits", "plans"}
         /\ tells' \in {Marks!Absent, Marks!Malformed} \cup SUBSET Marks!Tell
    BY <1>0, <2>1 DEF MarksTyped
  <2>11. MarksTyped'
    BY <2>6, <2>7, <2>8, <2>9, <2>10 DEF MarksTyped, PhaseRow
  <2>. QED
    BY <2>6, <2>7, <2>8, <2>11 DEF MarksInv
<1>. QED
  BY <1>1, <1>2

-----------------------------------------------------------------------------
(* What the marks say is what a reader of the whole document would say. *)

LEMMA HeadedIs ==
    ASSUME MarksTyped
    PROVE  /\ Marks!At("Phase") = PhasesAt
           /\ Marks!Headed(Marks!SectionName) = Headings
           /\ \A name : Marks!At(name) = {i \in 1 .. Len(doc) : doc[i] = name}
           /\ \A name : Marks!Headed({name}) = Marks!At(name)
<1>1. \A name : Marks!At(name) = {i \in 1 .. Len(doc) : doc[i] = name}
  BY DEF Marks!At, MarksTyped
<1>2. Marks!At("Phase") = PhasesAt
  BY <1>1 DEF PhasesAt
<1>3. \A i : i \in Marks!Headed(Marks!SectionName) <=> \E name \in Marks!SectionName : i \in Marks!At(name)
  BY DEF Marks!Headed
<1>4. Marks!Headed(Marks!SectionName) = Headings
  BY <1>1, <1>3 DEF Headings
<1>5. \A name : Marks!Headed({name}) = Marks!At(name)
  BY DEF Marks!Headed
<1>. QED
  BY <1>1, <1>2, <1>4, <1>5

LEMMA MarksCounts == \A S : Marks!Cardinality(S) = Cardinality(S)
<1>. SUFFICES ASSUME NEW S PROVE Marks!Cardinality(S) = Cardinality(S)
  OBVIOUS
<1>. QED
  BY Zenon DEF Marks!Cardinality, Cardinality

LEMMA PhasesShow ==
    ASSUME MarksTyped, NEW at, PhasesAre(at)
    PROVE  Marks!PhasesCountTheirOwn
<1>1. Marks!At("Phase") = PhasesAt
  BY HeadedIs
<1>2. Len(phases) = Cardinality(PhasesAt)
  BY PhasesAreCounted
<1>3. ASSUME NEW i \in PhasesAt
      PROVE  /\ phases[Rank(i)].total = Cardinality(Marks!Criteria(i))
             /\ phases[Rank(i)].met = Cardinality({k \in Marks!Criteria(i) : doc[k] = Marks!Ticked})
  <2>1. PICK m \in 1 .. Len(phases) : at[m] = i
    BY DEF PhasesAre, Numbers
  <2>2. Rank(i) = m /\ phases[m].total = Total(i) /\ phases[m].met = Met(i)
    BY <2>1 DEF PhasesAre
  <2>. QED
    BY <2>2 DEF Total, Met, Ticks
<1>4. \A i : Rank(i) = Cardinality({j \in Marks!At("Phase") : j <= i})
  BY <1>1 DEF Rank
<1>5. ASSUME NEW i \in Marks!At("Phase"), NEW n, n = Cardinality({j \in Marks!At("Phase") : j <= i})
      PROVE  /\ phases[n].total = Cardinality(Marks!Criteria(i))
             /\ phases[n].met = Cardinality({k \in Marks!Criteria(i) : doc[k] = Marks!Ticked})
  <2>1. i \in PhasesAt /\ n = Rank(i)
    BY <1>1, <1>4, <1>5
  <2>. QED
    BY <1>3, <2>1
<1>6. Len(phases) = Cardinality(Marks!At("Phase"))
  BY <1>1, <1>2
<1>7. \A i \in Marks!At("Phase") :
        /\ phases[Cardinality({j \in Marks!At("Phase") : j <= i})].total = Cardinality(Marks!Criteria(i))
        /\ phases[Cardinality({j \in Marks!At("Phase") : j <= i})].met =
             Cardinality({k \in Marks!Criteria(i) : doc[k] = Marks!Ticked})
  BY <1>5, Zenon
<1>. QED
  BY <1>6, <1>7, MarksCounts, Zenon DEF Marks!PhasesCountTheirOwn

\* A plan is implemented when every criterion of every phase is met.
LEMMA PlansShow ==
    ASSUME MarksTyped, NEW at, PhasesAre(at)
    PROVE  Marks!implemented <=>
             /\ PhasesAt # {}
             /\ \A i \in PhasesAt :
                   Marks!Criteria(i) # {} /\ \A k \in Marks!Criteria(i) : doc[k] = Marks!Ticked
<1>0. Len(phases) \in Nat /\ phases \in Seq(PhaseRow) /\ DOMAIN phases = 1 .. Len(phases)
  BY DEF MarksTyped, PhaseRow
<1>1. ASSUME NEW i \in PhasesAt, NEW m \in 1 .. Len(phases), at[m] = i
      PROVE  (phases[m].total # 0 /\ phases[m].met = phases[m].total)
             <=> (Marks!Criteria(i) # {} /\ \A k \in Marks!Criteria(i) : doc[k] = Marks!Ticked)
  <2>1. phases[m].total = Cardinality(Marks!Criteria(i)) /\ phases[m].met = Cardinality(Ticks(i))
    BY <1>1 DEF PhasesAre, Total, Met
  <2>2. Marks!Criteria(i) \subseteq 1 .. Len(doc)
    BY DEF Marks!Criteria, Marks!Under, PhasesAt, MarksTyped
  <2>3. /\ IsFiniteSet(Marks!Criteria(i)) /\ Cardinality(Marks!Criteria(i)) \in Nat
        /\ Cardinality(Marks!Criteria(i)) = 0 <=> Marks!Criteria(i) = {}
    BY <2>2, FewBlocks, FS_EmptySet
  <2>4. Ticks(i) \in SUBSET Marks!Criteria(i)
    BY DEF Ticks
  <2>5. Cardinality(Marks!Criteria(i)) = Cardinality(Ticks(i)) => Marks!Criteria(i) = Ticks(i)
    BY <2>3, <2>4, FS_Subset
  <2>6. Marks!Criteria(i) = Ticks(i) <=> \A k \in Marks!Criteria(i) : doc[k] = Marks!Ticked
    BY DEF Ticks
  <2>. QED
    BY <2>1, <2>3, <2>5, <2>6
<1>2. /\ \A m \in 1 .. Len(phases) : at[m] \in PhasesAt
      /\ \A i \in PhasesAt : \E m \in 1 .. Len(phases) : at[m] = i
  BY DEF PhasesAre, Numbers
<1>3. phases # << >> <=> PhasesAt # {}
  <2>1. phases # << >> <=> Len(phases) # 0
    BY <1>0
  <2>2. Len(phases) # 0 => 1 \in 1 .. Len(phases)
    BY <1>0
  <2>. QED
    BY <1>0, <1>2, <2>1, <2>2
<1>4. ASSUME Marks!implemented, NEW i \in PhasesAt
      PROVE  Marks!Criteria(i) # {} /\ \A k \in Marks!Criteria(i) : doc[k] = Marks!Ticked
  <2>1. PICK m \in 1 .. Len(phases) : at[m] = i
    BY <1>2
  <2>. QED
    BY <1>0, <1>1, <1>4, <2>1 DEF Marks!implemented
<1>5. ASSUME PhasesAt # {},
             \A i \in PhasesAt : Marks!Criteria(i) # {} /\ \A k \in Marks!Criteria(i) : doc[k] = Marks!Ticked
      PROVE  Marks!implemented
  <2>1. ASSUME NEW m \in 1 .. Len(phases)
        PROVE  phases[m].total # 0 /\ phases[m].met = phases[m].total
    <3>1. PICK i \in PhasesAt : i = at[m]
      BY <1>2
    <3>. QED
      BY <1>1, <1>5, <3>1
  <2>. QED
    BY <1>0, <1>3, <1>5, <2>1 DEF Marks!implemented
<1>. QED
  BY <1>3, <1>4, <1>5 DEF Marks!implemented

\* Research is done when a question is answered and none still holds its framing.
LEMMA ResearchShows ==
    ASSUME MarksTyped, NEW at, SectionsAre(at)
    PROVE  Marks!researched <=>
             IF Headings = {} THEN doc # << >>
             ELSE /\ \A i \in Headings : ~Marks!IsFramed(i)
                  /\ \E i \in Headings :
                        /\ Marks!IsAnswered(i)
                        /\ doc[i] = "Summary" => \E j \in Headings : j < i
<1>0. Len(sections) \in Nat /\ DOMAIN sections = 1 .. Len(sections) /\ Headings \in SUBSET Nat
  BY DEF MarksTyped, Headings
<1>1. /\ \A m \in 1 .. Len(sections) : at[m] \in Headings /\ at[m] \in Nat
      /\ \A i \in Headings : \E m \in 1 .. Len(sections) : at[m] = i
      /\ \A m, p \in 1 .. Len(sections) : m < p => at[m] < at[p]
  BY <1>0 DEF SectionsAre, Numbers
<1>2. ASSUME NEW m \in 1 .. Len(sections), NEW i \in Headings, i = at[m]
      PROVE  /\ sections[m].name = doc[i]
             /\ sections[m].state = "framed" <=> Marks!IsFramed(i)
             /\ sections[m].state = "answered" <=> Marks!IsAnswered(i)
             /\ m > 1 <=> \E j \in Headings : j < i
  <2>1. sections[m].name = doc[i] /\ sections[m].state = StateAt(i)
    BY <1>2 DEF SectionsAre
  <2>2. /\ StateAt(i) = "framed" <=> Marks!IsFramed(i)
        /\ StateAt(i) = "answered" <=> Marks!IsAnswered(i)
    BY DEF StateAt, Marks!IsFramed
  <2>3. ASSUME m > 1 PROVE \E j \in Headings : j < i
    <3>1. 1 \in 1 .. Len(sections) /\ 1 < m
      BY <1>0, <2>3
    <3>. QED
      BY <1>1, <1>2, <3>1
  <2>4. ASSUME NEW j \in Headings, j < i PROVE m > 1
    <3>1. PICK p \in 1 .. Len(sections) : at[p] = j
      BY <1>1
    <3>2. ~(m < p) /\ m # p
      BY <1>0, <1>1, <1>2, <2>4, <3>1
    <3>. QED
      BY <1>0, <3>2
  <2>. QED
    BY <2>1, <2>2, <2>3, <2>4
<1>3. sections = << >> <=> Headings = {}
  <2>1. sections # << >> <=> Len(sections) # 0
    BY <1>0 DEF MarksTyped
  <2>2. Len(sections) # 0 => 1 \in 1 .. Len(sections)
    BY <1>0
  <2>. QED
    BY <1>0, <1>1, <2>1, <2>2
<1>4. (\A m \in 1 .. Len(sections) : sections[m].state # "framed") <=> \A i \in Headings : ~Marks!IsFramed(i)
  <2>1. ASSUME \A i \in Headings : ~Marks!IsFramed(i), NEW m \in 1 .. Len(sections)
        PROVE  sections[m].state # "framed"
    <3>1. PICK i \in Headings : i = at[m]
      BY <1>1
    <3>. QED
      BY <1>2, <2>1, <3>1
  <2>2. ASSUME NEW i \in Headings, Marks!IsFramed(i)
        PROVE  \E m \in 1 .. Len(sections) : sections[m].state = "framed"
    <3>1. PICK m \in 1 .. Len(sections) : i = at[m]
      BY <1>1
    <3>. QED
      BY <1>2, <2>2, <3>1
  <2>. QED
    BY <2>1, <2>2
<1>5. (\E m \in 1 .. Len(sections) : sections[m].state = "answered" /\ (m > 1 \/ sections[m].name # "Summary"))
      <=> \E i \in Headings : Marks!IsAnswered(i) /\ (doc[i] = "Summary" => \E j \in Headings : j < i)
  <2>1. ASSUME NEW m \in 1 .. Len(sections), sections[m].state = "answered",
               m > 1 \/ sections[m].name # "Summary"
        PROVE  \E i \in Headings : Marks!IsAnswered(i) /\ (doc[i] = "Summary" => \E j \in Headings : j < i)
    <3>1. PICK i \in Headings : i = at[m]
      BY <1>1
    <3>. QED
      BY <1>2, <2>1, <3>1
  <2>2. ASSUME NEW i \in Headings, Marks!IsAnswered(i), doc[i] = "Summary" => \E j \in Headings : j < i
        PROVE  \E m \in 1 .. Len(sections) :
                  sections[m].state = "answered" /\ (m > 1 \/ sections[m].name # "Summary")
    <3>1. PICK m \in 1 .. Len(sections) : i = at[m]
      BY <1>1
    <3>. QED
      BY <1>2, <2>2, <3>1
  <2>. QED
    BY <2>1, <2>2
<1>6. Marks!Researched <=> /\ \A i \in Headings : ~Marks!IsFramed(i)
                           /\ \E i \in Headings :
                                 /\ Marks!IsAnswered(i)
                                 /\ doc[i] = "Summary" => \E j \in Headings : j < i
  BY <1>0, <1>4, <1>5 DEF Marks!Researched
<1>. QED
  BY <1>3, <1>6 DEF Marks!researched

\* A section is answered when the last one of its name is.
LEMMA LastOfItsName ==
    ASSUME MarksTyped, NEW at, SectionsAre(at), NEW name \in Marks!SectionName
    PROVE  Marks!StateOf(name) = "answered" <=> Marks!DealtWith({name})
<1>. DEFINE of == {m \in 1 .. Len(sections) : sections[m].name = name}
<1>0. /\ Len(sections) \in Nat /\ DOMAIN sections = 1 .. Len(sections)
      /\ Headings \in SUBSET Nat /\ of \subseteq 1 .. Len(sections)
  BY DEF MarksTyped, Headings
<1>1. /\ \A m \in 1 .. Len(sections) : at[m] \in Headings /\ at[m] \in Nat
      /\ \A i \in Headings : \E m \in 1 .. Len(sections) : at[m] = i
      /\ \A m, p \in 1 .. Len(sections) : m < p => at[m] < at[p]
  BY <1>0 DEF SectionsAre, Numbers
<1>2. \A m \in of : at[m] \in Marks!At(name)
  BY <1>1, HeadedIs DEF SectionsAre, Headings
<1>3. Marks!StateOf(name) = IF of = {} THEN "empty"
                            ELSE sections[CHOOSE m \in of : \A p \in of : p <= m].state
  BY <1>0 DEF Marks!StateOf
<1>4. Marks!DealtWith({name}) <=>
        \E i \in Marks!At(name) : Marks!IsAnswered(i) /\ \A j \in Marks!At(name) : j <= i
  BY HeadedIs DEF Marks!DealtWith
<1>5. Marks!At(name) \subseteq Headings
  BY HeadedIs DEF Headings
<1>6. \A m \in 1 .. Len(sections) : m \in of <=> at[m] \in Marks!At(name)
  BY <1>1, HeadedIs DEF SectionsAre, Headings
<1>7. CASE of = {}
  <2>1. Marks!At(name) = {}
    BY <1>1, <1>5, <1>6, <1>7
  <2>. QED
    BY <1>3, <1>4, <1>7, <2>1
<1>8. CASE of # {}
  <2>1. \E m \in of : \A p \in of : m >= p
    <3>1. PICK U : U = of
      OBVIOUS
    <3>0. PICK top \in Nat : top = Len(sections)
      BY <1>0
    <3>2. U \subseteq -1 .. top /\ U # {}
      BY <1>0, <1>8, <3>0, <3>1
    <3>3. \E u \in U : \A v \in U : u >= v
      BY <3>2, GreatestIs
    <3>. QED
      BY <3>1, <3>3
  <2>2. PICK m : m = CHOOSE k \in of : \A p \in of : p <= k
    OBVIOUS
  <2>3. m \in of /\ \A p \in of : p <= m
    <3>1. \E k \in of : \A p \in of : p <= k
      BY <1>0, <2>1
    <3>. QED
      BY <2>2, <3>1
  <2>4. PICK i \in Marks!At(name) : i = at[m]
    BY <1>2, <2>3
  <2>5. \A j \in Marks!At(name) : j <= i
    <3>. SUFFICES ASSUME NEW j \in Marks!At(name) PROVE j <= i
      OBVIOUS
    <3>1. PICK p \in 1 .. Len(sections) : at[p] = j
      BY <1>1, <1>5
    <3>2. p \in of /\ p <= m /\ m \in 1 .. Len(sections)
      BY <1>0, <1>6, <2>3, <3>1
    <3>3. CASE p = m
      BY <1>1, <2>4, <3>1, <3>2, <3>3
    <3>4. CASE p < m
      BY <1>1, <2>4, <3>1, <3>2, <3>4
    <3>. QED
      BY <1>0, <3>2, <3>3, <3>4
  <2>6. sections[m].state = "answered" <=> Marks!IsAnswered(i)
    BY <1>0, <2>3, <2>4 DEF SectionsAre, StateAt
  <2>7. Marks!StateOf(name) = sections[m].state
    BY <1>3, <1>8, <2>2
  <2>8. Marks!DealtWith({name}) <=> Marks!IsAnswered(i)
    <3>1. ASSUME NEW k \in Marks!At(name), \A j \in Marks!At(name) : j <= k PROVE k = i
      <4>1. k \in Nat /\ i \in Nat /\ k <= i /\ i <= k
        BY <1>0, <1>5, <2>5, <3>1
      <4>. QED
        BY <4>1
    <3>. QED
      BY <1>4, <2>5, <3>1
  <2>. QED
    BY <2>6, <2>7, <2>8
<1>. QED
  BY <1>7, <1>8

\* An audit is done when its summary and every tell it has to deal with are.
LEMMA AuditsShow ==
    ASSUME MarksTyped, NEW at, SectionsAre(at)
    PROVE  Marks!audited <=>
             /\ Marks!DealtWith({"Summary"})
             /\ \A t \in Marks!Tell : Marks!Asked(t) =>
                   Marks!DealtWith({IF Marks!At(Marks!NewName(t)) = {}
                                    THEN Marks!LegacyName(t) ELSE Marks!NewName(t)})
<1>. DEFINE name(t) == IF Marks!LegacyName(t) \in Marks!Present /\ Marks!NewName(t) \notin Marks!Present
                       THEN Marks!LegacyName(t) ELSE Marks!NewName(t)
            read(t) == IF Marks!At(Marks!NewName(t)) = {} THEN Marks!LegacyName(t) ELSE Marks!NewName(t)
<1>1. \A t \in Marks!Tell : t \in Marks!Chosen <=> Marks!Asked(t)
  <2>1. \A t \in Marks!Tell : t = "dead" \/ t = "volkswagen"
    BY DEF Marks!Tell
  <2>2. CASE tells = Marks!Absent
    <3>1. tells # Marks!Malformed /\ tells # {} /\ \A t \in Marks!Tell : t \notin tells
      BY <2>2 DEF Marks!Absent, Marks!Malformed, Marks!Tell
    <3>2. Marks!Chosen = Marks!LegacyTells
      BY <2>2, <3>1 DEF Marks!Chosen
    <3>. QED
      BY <2>2, <3>1, <3>2 DEF Marks!Asked
  <2>3. CASE tells \in {Marks!Malformed, {}}
    <3>1. tells # Marks!Absent
      BY <2>3 DEF Marks!Absent, Marks!Malformed
    <3>2. Marks!Chosen = Marks!Tell
      BY <2>3, <3>1 DEF Marks!Chosen
    <3>. QED
      BY <2>3, <3>2 DEF Marks!Asked
  <2>4. CASE tells # Marks!Absent /\ tells \notin {Marks!Malformed, {}}
    <3>1. Marks!Chosen = tells
      BY <2>4 DEF Marks!Chosen
    <3>. QED
      BY <2>4, <3>1 DEF Marks!Asked
  <2>. QED
    BY <2>2, <2>3, <2>4
<1>2. Marks!Chosen \subseteq Marks!Tell
  <2>1. Marks!LegacyTells \subseteq Marks!Tell
    BY DEF Marks!LegacyTells, Marks!Tell
  <2>2. tells # Marks!Absent /\ tells \notin {Marks!Malformed, {}} => tells \subseteq Marks!Tell
    BY DEF MarksTyped
  <2>3. CASE tells = Marks!Absent
    <3>1. tells \notin {Marks!Malformed, {}}
      BY <2>3 DEF Marks!Absent, Marks!Malformed
    <3>. QED
      BY <2>1, <2>3, <3>1 DEF Marks!Chosen
  <2>4. CASE tells # Marks!Absent /\ tells \in {Marks!Malformed, {}}
    BY <2>4 DEF Marks!Chosen
  <2>5. CASE tells # Marks!Absent /\ tells \notin {Marks!Malformed, {}}
    BY <2>2, <2>5 DEF Marks!Chosen
  <2>. QED
    BY <2>3, <2>4, <2>5
<1>3. \A x \in Marks!SectionName : x \in Marks!Present <=> Marks!At(x) # {}
  <2>0. DOMAIN sections = 1 .. Len(sections)
    BY DEF MarksTyped
  <2>1. /\ \A m \in 1 .. Len(sections) : at[m] \in Headings /\ sections[m].name = doc[at[m]]
        /\ \A i \in Headings : \E m \in 1 .. Len(sections) : at[m] = i
    BY DEF SectionsAre, Numbers
  <2>. SUFFICES ASSUME NEW x \in Marks!SectionName PROVE x \in Marks!Present <=> Marks!At(x) # {}
    OBVIOUS
  <2>2. x \in Marks!Present <=> \E m \in 1 .. Len(sections) : sections[m].name = x
    BY <2>0 DEF Marks!Present
  <2>3. \A i : i \in Marks!At(x) <=> i \in Headings /\ doc[i] = x
    BY HeadedIs DEF Headings
  <2>4. ASSUME NEW m \in 1 .. Len(sections), sections[m].name = x PROVE Marks!At(x) # {}
    BY <2>1, <2>3, <2>4
  <2>5. ASSUME NEW i \in Marks!At(x) PROVE \E m \in 1 .. Len(sections) : sections[m].name = x
    <3>1. PICK m \in 1 .. Len(sections) : at[m] = i
      BY <2>1, <2>3
    <3>. QED
      BY <2>1, <2>3, <3>1
  <2>. QED
    BY <2>2, <2>4, <2>5
<1>4. /\ "" \notin Marks!Present /\ "" \notin Words
      /\ Marks!Present \subseteq Marks!SectionName
  <2>0. DOMAIN sections = 1 .. Len(sections)
    BY DEF MarksTyped
  <2>1. \A m \in 1 .. Len(sections) : at[m] \in Headings /\ sections[m].name = doc[at[m]]
    BY DEF SectionsAre, Numbers
  <2>2. \A m \in DOMAIN sections : sections[m].name \in Marks!SectionName
    BY <2>0, <2>1 DEF Headings
  <2>. QED
    BY <2>2 DEF Marks!Present, Marks!SectionName, Words, Marks!Heading, Marks!Item, Marks!Ticked, Marks!Unticked
<1>5. ASSUME NEW t \in Marks!Tell
      PROVE  /\ name(t) \in Marks!SectionName
             /\ Marks!StateOf(name(t)) = "answered" <=> Marks!DealtWith({read(t)})
  <2>0. /\ Marks!NewName(t) \in Marks!SectionName
        /\ Marks!LegacyName(t) = "" \/ Marks!LegacyName(t) \in Marks!SectionName
    BY DEF Marks!Tell, Marks!NewName, Marks!LegacyName, Marks!SectionName
  <2>1. name(t) \in Marks!SectionName
    BY <1>4, <2>0
  <2>2. PICK x \in Marks!SectionName : x = name(t)
    BY <2>1
  <2>3. Marks!StateOf(x) = "answered" <=> Marks!DealtWith({x})
    BY LastOfItsName
  <2>4. PICK y : y = read(t)
    OBVIOUS
  <2>5. CASE x = y
    BY <2>1, <2>2, <2>3, <2>4, <2>5
  <2>6. CASE x # y
    <3>1. Marks!At(Marks!NewName(t)) = {} /\ x = Marks!NewName(t) /\ y = Marks!LegacyName(t)
      BY <1>3, <1>4, <2>0, <2>2, <2>4, <2>6
    <3>2. Marks!At(y) = {}
      <4>1. CASE y = ""
        <5>1. \A i \in 1 .. Len(doc) : doc[i] \in Words
          BY DEF MarksTyped
        <5>. QED
          BY <1>4, <4>1, <5>1, HeadedIs
      <4>2. CASE y # ""
        BY <1>3, <2>0, <2>2, <2>6, <3>1, <4>2
      <4>. QED
        BY <4>1, <4>2
    <3>3. Marks!Headed({x}) = {} /\ Marks!Headed({y}) = {}
      BY <3>1, <3>2, HeadedIs
    <3>4. ~Marks!DealtWith({x}) /\ ~Marks!DealtWith({y})
      BY <3>3 DEF Marks!DealtWith
    <3>. QED
      BY <2>1, <2>2, <2>3, <2>4, <3>4
  <2>. QED
    BY <2>5, <2>6
<1>6. Marks!StateOf("Summary") = "answered" <=> Marks!DealtWith({"Summary"})
  BY LastOfItsName DEF Marks!SectionName
<1>7. Marks!AuditTells = {name(t) : t \in Marks!Chosen}
  BY DEF Marks!AuditTells
<1>8. Marks!audited <=> /\ Marks!StateOf("Summary") = "answered"
                        /\ \A t \in Marks!Chosen : Marks!StateOf(name(t)) = "answered"
  BY <1>7 DEF Marks!audited
<1>9. (\A t \in Marks!Chosen : Marks!StateOf(name(t)) = "answered")
      <=> \A t \in Marks!Tell : Marks!Asked(t) => Marks!DealtWith({read(t)})
  BY <1>1, <1>2, <1>5
<1>. QED
  BY <1>6, <1>8, <1>9

LEMMA MarksShow == MarksInv => Marks!PhasesCountTheirOwn /\ Marks!MarksAreEarned
<1>. SUFFICES ASSUME MarksInv PROVE Marks!PhasesCountTheirOwn /\ Marks!MarksAreEarned
  OBVIOUS
<1>0. MarksTyped /\ kind \in {"research", "audits", "plans"}
  BY DEF MarksInv, MarksTyped
<1>1. PICK at : SectionsAre(at)
  BY DEF MarksInv
<1>2. PICK at2 : PhasesAre(at2)
  BY DEF MarksInv
<1>3. Marks!PhasesCountTheirOwn
  BY <1>0, <1>2, PhasesShow
<1>4. Marks!At("Phase") = PhasesAt /\ Marks!Headed(Marks!SectionName) = Headings
  BY <1>0, HeadedIs
<1>5. CASE kind = "plans"
  <2>1. Marks!stagesIn <=> Marks!implemented
    BY <1>5 DEF Marks!stagesIn
  <2>. QED
    BY <1>0, <1>2, <1>3, <1>4, <1>5, <2>1, PlansShow DEF Marks!MarksAreEarned
<1>6. CASE kind = "research"
  <2>1. Marks!stagesIn <=> Marks!researched
    BY <1>6 DEF Marks!stagesIn
  <2>. QED
    BY <1>0, <1>1, <1>3, <1>4, <1>6, <2>1, ResearchShows DEF Marks!MarksAreEarned
<1>7. CASE kind = "audits"
  <2>1. Marks!stagesIn <=> Marks!audited
    BY <1>7 DEF Marks!stagesIn
  <2>. QED
    BY <1>0, <1>1, <1>3, <1>7, <2>1, AuditsShow DEF Marks!MarksAreEarned
<1>. QED
  BY <1>0, <1>5, <1>6, <1>7
-----------------------------------------------------------------------------
(* Normalizing the intervals of a report.                                      *)

FiniteIntervals(lines) == lines \subseteq [line : Int, to : Int] /\ IsFiniteSet(lines)

\* Before puts any two intervals in order, so that some have a latest.
IsLatest(l, some) == l \in some /\ \A k \in some \ {l} : Viewport!Before(k, l)
LatestOf(some)  == CHOOSE l \in some : \A k \in some \ {l} : Viewport!Before(k, l)

BeforeIt(l, some) == {k \in some : Viewport!Before(k, l)}
PlaceIn(l, some)  == Cardinality(BeforeIt(l, some))

LEMMA SomeHaveALatest ==
    ASSUME NEW some, FiniteIntervals(some), some # {}
    PROVE  IsLatest(LatestOf(some), some)
<1>. DEFINE ranks == {PlaceIn(l, some) : l \in some}
<1>. USE DEF FiniteIntervals
<1>1. \A l \in some : IsFiniteSet(BeforeIt(l, some)) /\ PlaceIn(l, some) \in 0 .. Cardinality(some)
  <2>. SUFFICES ASSUME NEW l \in some
                PROVE  IsFiniteSet(BeforeIt(l, some)) /\ PlaceIn(l, some) \in 0 .. Cardinality(some)
    OBVIOUS
  <2>1. BeforeIt(l, some) \in SUBSET some
    BY DEF BeforeIt
  <2>2. IsFiniteSet(BeforeIt(l, some)) /\ PlaceIn(l, some) <= Cardinality(some)
    BY <2>1, FS_Subset DEF PlaceIn
  <2>. QED
    BY <2>2, FS_CardinalityType DEF PlaceIn
<1>2. PICK top : top = Cardinality(some)
  OBVIOUS
<1>3. top \in Nat
  BY <1>2, FS_CardinalityType
<1>4. ranks \subseteq -1 .. top /\ ranks # {}
  BY <1>1, <1>2, <1>3
<1>. HIDE DEF ranks
<1>5. PICK u \in ranks : \A v \in ranks : u >= v
  BY <1>3, <1>4, GreatestIs
<1>6. PICK l \in some : u = PlaceIn(l, some)
  BY DEF ranks
<1>7. \A k \in some : PlaceIn(k, some) <= PlaceIn(l, some)
  BY <1>1, <1>5, <1>6 DEF ranks
<1>8. ASSUME NEW k \in some \ {l}, ~ Viewport!Before(k, l) PROVE FALSE
  <2>1. k.line \in Int /\ k.to \in Int /\ l.line \in Int /\ l.to \in Int /\ k = [line |-> k.line, to |-> k.to]
        /\ l = [line |-> l.line, to |-> l.to]
    OBVIOUS
  <2>2. Viewport!Before(l, k)
    BY <1>8, <2>1 DEF Viewport!Before
  <2>3. ASSUME NEW j \in some, Viewport!Before(j, l) PROVE Viewport!Before(j, k)
    <3>1. j.line \in Int /\ j.to \in Int
      OBVIOUS
    <3>. QED
      BY <2>1, <2>2, <2>3, <3>1 DEF Viewport!Before
  <2>4. ~ Viewport!Before(l, l)
    BY <2>1 DEF Viewport!Before
  <2>5. PICK L, K : L = BeforeIt(l, some) /\ K = BeforeIt(k, some)
    OBVIOUS
  <2>6. L \in SUBSET K /\ l \in K /\ l \notin L
    BY <2>2, <2>3, <2>4, <2>5 DEF BeforeIt
  <2>7. IsFiniteSet(K) /\ Cardinality(K) <= Cardinality(L) /\ Cardinality(K) \in Int
    BY <1>1, <1>7, <2>5 DEF PlaceIn
  <2>8. Cardinality(L) <= Cardinality(K) /\ Cardinality(L) \in Int
    BY <1>1, <2>5, <2>6, <2>7, FS_Subset DEF PlaceIn
  <2>9. Cardinality(K) = Cardinality(L)
    BY <2>7, <2>8
  <2>. QED
    BY <2>6, <2>7, <2>9, FS_Subset
<1>. QED
  BY <1>8 DEF LatestOf, IsLatest

\* What NormalizedIntervals has made of some, given what it makes of fewer.
NextOf(f, some) ==
    IF some = {} THEN << >> ELSE Viewport!Merge(f[some \ {LatestOf(some)}], LatestOf(some))
KnownTo(f, lines, n) == \A some \in SUBSET lines : Cardinality(some) <= n => f[some] = NextOf(f, some)

LEMMA SomeOfIntervals ==
    ASSUME NEW lines, FiniteIntervals(lines), NEW some \in SUBSET lines
    PROVE  FiniteIntervals(some) /\ Cardinality(some) \in 0 .. Cardinality(lines)
  BY FS_Subset, FS_CardinalityType DEF FiniteIntervals

LEMMA OneLess ==
    ASSUME NEW some, FiniteIntervals(some), some # {}
    PROVE  /\ some \ {LatestOf(some)} \in SUBSET some
           /\ Cardinality(some \ {LatestOf(some)}) = Cardinality(some) - 1
<1>1. LatestOf(some) \in some
  BY SomeHaveALatest DEF IsLatest
<1>. QED
  BY <1>1, FS_RemoveElement DEF FiniteIntervals

LEMMA MergingIsDefined ==
    ASSUME NEW lines, FiniteIntervals(lines)
    PROVE  \E f : f = [some \in SUBSET lines |-> NextOf(f, some)]
<1>. DEFINE reached == {n \in 0 .. Cardinality(lines) : \E f : KnownTo(f, lines, n)}
<1>1. PICK top : top = Cardinality(lines)
  OBVIOUS
<1>2. top \in Nat
  BY <1>1, FS_CardinalityType DEF FiniteIntervals
<1>3. \A some \in SUBSET lines : Cardinality(some) \in 0 .. top
  BY <1>1, SomeOfIntervals
<1>4. 0 \in reached
  <2>1. PICK f : f = [some \in SUBSET lines |-> << >>]
    OBVIOUS
  <2>2. ASSUME NEW some \in SUBSET lines, Cardinality(some) <= 0 PROVE f[some] = NextOf(f, some)
    <3>1. some = {}
      BY <1>3, <2>2, SomeOfIntervals, FS_EmptySet DEF FiniteIntervals
    <3>. QED
      BY <2>1, <3>1 DEF NextOf
  <2>3. KnownTo(f, lines, 0)
    BY <2>2 DEF KnownTo
  <2>. QED
    BY <1>1, <1>2, <2>3
<1>5. reached \subseteq -1 .. top /\ reached # {}
  BY <1>1, <1>2, <1>4
<1>6. PICK n \in reached : \A m \in reached : n >= m
  <2>. HIDE DEF reached
  <2>. QED
    BY <1>2, <1>5, GreatestIs
<1>7. n \in 0 .. top
  BY <1>1
<1>8. PICK f : KnownTo(f, lines, n)
  OBVIOUS
<1>9. PICK g : g = [some \in SUBSET lines |-> NextOf(f, some)]
  OBVIOUS
<1>10. ASSUME NEW some \in SUBSET lines, Cardinality(some) <= n + 1 PROVE g[some] = NextOf(g, some)
  <2>1. CASE some = {}
    BY <1>9, <2>1 DEF NextOf
  <2>2. CASE some # {}
    <3>1. PICK rest : rest = some \ {LatestOf(some)}
      OBVIOUS
    <3>2. rest \in SUBSET lines /\ Cardinality(rest) <= n
      BY <1>3, <1>7, <1>10, <2>2, <3>1, SomeOfIntervals, OneLess
    <3>3. g[rest] = f[rest]
      BY <1>8, <1>9, <3>2 DEF KnownTo
    <3>. QED
      BY <1>9, <3>1, <3>3 DEF NextOf
  <2>. QED
    BY <2>1, <2>2
<1>11. n = top
  <2>1. SUFFICES ASSUME n # top PROVE FALSE
    OBVIOUS
  <2>2. KnownTo(g, lines, n + 1)
    BY <1>10 DEF KnownTo
  <2>3. n + 1 \in reached
    <3>1. n + 1 \in 0 .. Cardinality(lines)
      BY <1>1, <1>2, <1>7, <2>1
    <3>. QED
      BY Zenon, <2>2, <3>1
  <2>. QED
    BY <1>6, <1>7, <2>3
<1>12. ASSUME NEW some \in SUBSET lines PROVE g[some] = NextOf(g, some)
  BY <1>3, <1>7, <1>10, <1>11
<1>13. g = [some \in SUBSET lines |-> g[some]]
  BY <1>9
<1>14. g = [some \in SUBSET lines |-> NextOf(g, some)]
  BY <1>12, <1>13
<1>. QED
  BY <1>14

\* The two mean the same lines, and the merged ones lie apart, in order and none after
\* the last of those they are made of.
Row == [line : Int, to : Int]
WithinSeq(s, n)   == \E i \in 1 .. Len(s) : s[i].line <= n /\ n <= s[i].to
WithinSet(lines, n) == \E l \in lines : l.line <= n /\ n <= l.to

Merged(s, lines) ==
    /\ s \in Seq(Row)
    /\ \A i \in 1 .. Len(s) : s[i].line <= s[i].to
    /\ \A i \in 1 .. Len(s) : i > 1 => s[i].line > s[i - 1].to + 1
    /\ \A n \in Int : WithinSeq(s, n) <=> WithinSet(lines, n)
    /\ s # << >> => \E l \in lines : s[Len(s)].line <= l.line

LEMMA LastIsLast == ASSUME NEW s PROVE Viewport!Last(s) = s[Len(s)]
  BY Zenon DEF Viewport!Last

LEMMA MergeCovers ==
    ASSUME NEW lines, FiniteIntervals(lines), lines # {}, \A l \in lines : l.line <= l.to,
           NEW s, Merged(s, lines \ {LatestOf(lines)})
    PROVE  Merged(Viewport!Merge(s, LatestOf(lines)), lines)
<1>1. PICK next : next = LatestOf(lines)
  OBVIOUS
<1>2. next \in lines /\ \A k \in lines \ {next} : Viewport!Before(k, next)
  BY <1>1, SomeHaveALatest DEF IsLatest
<1>3. next \in Row /\ next.line \in Int /\ next.to \in Int /\ next.line <= next.to
  BY <1>2 DEF FiniteIntervals, Row
<1>4. \A k \in lines \ {next} : k.line <= next.line
  <2>. SUFFICES ASSUME NEW k \in lines \ {next} PROVE k.line <= next.line
    OBVIOUS
  <2>1. k.line \in Int
    BY DEF FiniteIntervals
  <2>. QED
    BY <1>2, <1>3, <2>1 DEF Viewport!Before
<1>5. PICK rest : rest = lines \ {next}
  OBVIOUS
<1>6. Merged(s, rest)
  BY <1>1, <1>5
<1>7. s \in Seq(Row) /\ Len(s) \in Nat
  BY <1>6 DEF Merged
<1>8. \A i \in 1 .. Len(s) : s[i] \in Row /\ s[i].line \in Int /\ s[i].to \in Int
  <2>. SUFFICES ASSUME NEW i \in 1 .. Len(s)
                PROVE  s[i] \in Row /\ s[i].line \in Int /\ s[i].to \in Int
    OBVIOUS
  <2>1. s[i] \in Row
    BY <1>7, ElementOfSeq
  <2>. QED
    BY <2>1 DEF Row
<1>9. \A n \in Int : WithinSet(lines, n) <=> (WithinSet(rest, n) \/ (next.line <= n /\ n <= next.to))
  BY <1>2, <1>5 DEF WithinSet
<1>10. PICK m : m = Len(s)
  OBVIOUS
<1>11. m \in Nat
  BY <1>7, <1>10
<1>. USE DEF Viewport!Merge, WithinSeq, Merged
<1>12. CASE s # << >> /\ next.line <= s[m].to + 1 /\ next.to > s[m].to
  <2>0. m >= 1 /\ m \in 1 .. Len(s)
    BY <1>7, <1>10, <1>12, EmptySeq
  <2>1. PICK r : r = [s EXCEPT ![m].to = next.to]
    OBVIOUS
  <2>2. Viewport!Merge(s, next) = r
    BY <1>10, <1>12, <2>1, LastIsLast, Zenon
  <2>3. [s[m] EXCEPT !.to = next.to] = [line |-> s[m].line, to |-> next.to]
    <3>1. PICK e : e = s[m]
      OBVIOUS
    <3>2. e \in Row /\ e.line \in Int /\ e.to \in Int
      BY <1>8, <2>0, <3>1
    <3>3. e = [line |-> e.line, to |-> e.to]
      BY <3>2 DEF Row
    <3>4. [e EXCEPT !.to = next.to] = [line |-> e.line, to |-> next.to]
      BY <3>3
    <3>. QED
      BY <3>1, <3>4
  <2>4. r = [s EXCEPT ![m] = [line |-> s[m].line, to |-> next.to]]
    BY Zenon, <2>1, <2>3
  <2>5. [line |-> s[m].line, to |-> next.to] \in Row
    BY <1>3, <1>8, <2>0 DEF Row
  <2>6. r \in Seq(Row) /\ Len(r) = m /\ r[m].line = s[m].line /\ r[m].to = next.to
        /\ \A i \in 1 .. m : i # m => r[i] = s[i]
    BY <1>7, <1>10, <2>0, <2>4, <2>5, ExceptSeq
  <2>7. s[m].line <= next.line
    <3>1. PICK l \in rest : s[m].line <= l.line
      BY <1>6, <1>10, <1>12
    <3>2. l.line \in Int /\ l.line <= next.line
      BY <1>4, <1>5, <3>1 DEF FiniteIntervals
    <3>. QED
      BY <1>3, <1>8, <2>0, <3>1, <3>2
  <2>8. \A i \in 1 .. Len(r) : r[i].line <= r[i].to
    BY <1>3, <1>6, <1>8, <1>10, <2>0, <2>6, <2>7, <1>12
  <2>9. \A i \in 1 .. Len(r) : i > 1 => r[i].line > r[i - 1].to + 1
    <3>. SUFFICES ASSUME NEW i \in 1 .. m, i > 1 PROVE r[i].line > r[i - 1].to + 1
      BY <2>6
    <3>1. i - 1 \in 1 .. m /\ i - 1 # m /\ r[i - 1] = s[i - 1] /\ r[i].line = s[i].line
      <4>1. i - 1 \in 1 .. m /\ i - 1 # m
        BY <1>11
      <4>2. r[i].line = s[i].line
        BY <2>6
      <4>. QED
        BY <2>6, <4>1, <4>2
    <3>2. s[i].line > s[i - 1].to + 1
      BY <1>6, <1>10
    <3>. QED
      BY <3>1, <3>2
  <2>10. ASSUME NEW n \in Int PROVE WithinSeq(r, n) <=> WithinSet(lines, n)
    <3>1. WithinSeq(s, n) <=> WithinSet(rest, n)
      BY <1>6
    <3>2. WithinSeq(r, n) <=> (\E i \in 1 .. m : i # m /\ s[i].line <= n /\ n <= s[i].to)
                              \/ (s[m].line <= n /\ n <= next.to)
      BY <2>0, <2>6, <1>10
    <3>3. WithinSeq(s, n) <=> (\E i \in 1 .. m : i # m /\ s[i].line <= n /\ n <= s[i].to)
                              \/ (s[m].line <= n /\ n <= s[m].to)
      BY <2>0, <1>10
    <3>4. (s[m].line <= n /\ n <= next.to)
            <=> ((s[m].line <= n /\ n <= s[m].to) \/ (next.line <= n /\ n <= next.to))
      BY <1>3, <1>8, <2>0, <2>7, <1>12
    <3>. QED
      BY <1>9, <3>1, <3>2, <3>3, <3>4
  <2>11. \E l \in lines : r[Len(r)].line <= l.line
    BY <1>2, <2>6, <2>7
  <2>. QED
    BY <1>1, <2>2, <2>6, <2>8, <2>9, <2>10, <2>11
<1>13. CASE s # << >> /\ next.line <= s[m].to + 1 /\ ~ (next.to > s[m].to)
  <2>0. m >= 1 /\ m \in 1 .. Len(s)
    BY <1>7, <1>10, <1>13, EmptySeq
  <2>1. Viewport!Merge(s, next) = s
    BY <1>10, <1>13, LastIsLast, Zenon
  <2>2. PICK l \in rest : s[m].line <= l.line
    BY <1>6, <1>10, <1>13
  <2>3. l.line \in Int /\ l.line <= next.line /\ l \in lines
    BY <1>4, <1>5, <2>2 DEF FiniteIntervals
  <2>4. s[m].line <= next.line
    BY <1>3, <1>8, <2>0, <2>2, <2>3
  <2>5. ASSUME NEW n \in Int PROVE WithinSeq(s, n) <=> WithinSet(lines, n)
    <3>1. WithinSeq(s, n) <=> WithinSet(rest, n)
      BY <1>6
    <3>2. next.line <= n /\ n <= next.to => s[m].line <= n /\ n <= s[m].to
      BY <1>3, <1>8, <2>0, <2>4, <1>13
    <3>3. next.line <= n /\ n <= next.to => WithinSeq(s, n)
      BY <2>0, <3>2
    <3>. QED
      BY <1>9, <3>1, <3>3
  <2>6. s[Len(s)].line <= l.line
    BY <1>10, <2>2
  <2>. QED
    BY <1>1, <1>6, <2>1, <2>3, <2>5, <2>6
<1>14. CASE s = << >> \/ ~ (next.line <= s[m].to + 1)
  <2>1. PICK r : r = Append(s, next)
    OBVIOUS
  <2>2. Viewport!Merge(s, next) = r
    BY <1>10, <1>14, <2>1, LastIsLast, Zenon
  <2>3. r \in Seq(Row) /\ Len(r) = m + 1 /\ r[m + 1] = next /\ \A i \in 1 .. m : r[i] = s[i]
    BY <1>3, <1>7, <1>10, <2>1, AppendProperties
  <2>4. m # 0 => next.line > s[m].to + 1
    <3>. SUFFICES ASSUME m # 0 PROVE next.line > s[m].to + 1
      OBVIOUS
    <3>1. s # << >> /\ m \in 1 .. Len(s)
      BY <1>10, <1>11, EmptySeq
    <3>. QED
      BY <1>3, <1>8, <1>14, <3>1
  <2>5. \A i \in 1 .. Len(r) : r[i].line <= r[i].to
    BY <1>3, <1>6, <1>10, <1>11, <2>3
  <2>6. \A i \in 1 .. Len(r) : i > 1 => r[i].line > r[i - 1].to + 1
    <3>. SUFFICES ASSUME NEW i \in 1 .. m + 1, i > 1 PROVE r[i].line > r[i - 1].to + 1
      BY <2>3
    <3>1. i - 1 \in 1 .. m /\ r[i - 1] = s[i - 1]
      BY <1>11, <2>3
    <3>2. CASE i = m + 1
      BY <1>11, <2>3, <2>4, <3>1, <3>2
    <3>3. CASE i # m + 1
      <4>1. i \in 1 .. m /\ r[i] = s[i]
        BY <1>11, <2>3, <3>3
      <4>2. s[i].line > s[i - 1].to + 1
        BY <1>6, <1>10, <4>1
      <4>. QED
        BY <3>1, <4>1, <4>2
    <3>. QED
      BY <3>2, <3>3
  <2>7. ASSUME NEW n \in Int PROVE WithinSeq(r, n) <=> WithinSet(lines, n)
    <3>1. WithinSeq(s, n) <=> WithinSet(rest, n)
      BY <1>6
    <3>2. WithinSeq(r, n) <=> (\E i \in 1 .. m : s[i].line <= n /\ n <= s[i].to)
                              \/ (next.line <= n /\ n <= next.to)
      BY <1>11, <2>3
    <3>. QED
      BY <1>9, <1>10, <3>1, <3>2
  <2>8. \E l \in lines : r[Len(r)].line <= l.line
    BY <1>2, <1>3, <1>11, <2>3
  <2>. QED
    BY <1>1, <2>2, <2>3, <2>5, <2>6, <2>7, <2>8
<1>. QED
  BY <1>12, <1>13, <1>14

\* What normalizing some intervals makes of them means their lines.
LEMMA NormalizedIs ==
    ASSUME NEW lines, FiniteIntervals(lines)
    PROVE  \E f : f = [some \in SUBSET lines |-> NextOf(f, some)] /\ Viewport!NormalizedIntervals(lines) = f[lines]
<1>1. PICK g : g = [some \in SUBSET lines |-> NextOf(g, some)]
  BY MergingIsDefined
<1>2. PICK f : f = CHOOSE h : h = [some \in SUBSET lines |-> NextOf(h, some)]
  OBVIOUS
<1>3. f = [some \in SUBSET lines |-> NextOf(f, some)]
  BY Zenon, <1>1, <1>2
<1>4. Viewport!NormalizedIntervals(lines) = f[lines]
  BY Zenon, <1>2 DEF Viewport!NormalizedIntervals, NextOf, LatestOf
<1>. QED
  BY Zenon, <1>3, <1>4

LEMMA NormalizingCovers ==
    ASSUME NEW lines, FiniteIntervals(lines), \A l \in lines : l.line <= l.to
    PROVE  Merged(Viewport!NormalizedIntervals(lines), lines)
<1>1. PICK f : f = [some \in SUBSET lines |-> NextOf(f, some)] /\ Viewport!NormalizedIntervals(lines) = f[lines]
  BY NormalizedIs
<1>2. \A some \in SUBSET lines : f[some] = NextOf(f, some)
  BY <1>1
<1>. DEFINE wrong == {some \in SUBSET lines : ~ Merged(f[some], some)}
            sizes == {Cardinality(some) : some \in wrong}
<1>3. SUFFICES ASSUME wrong # {} PROVE FALSE
  BY <1>1
<1>4. \A some \in SUBSET lines : Cardinality(some) \in Nat
  BY SomeOfIntervals
<1>5. sizes \subseteq Nat /\ sizes # {}
  BY <1>3, <1>4
<1>. HIDE DEF sizes
<1>6. \E b \in sizes : \A d \in sizes : ~ (<<d, b>> \in OpToRel(<, Nat))
  BY Zenon, <1>5, NatLessThanWellFounded, WFMin
<1>7. PICK b \in sizes : \A d \in sizes : ~ (d < b)
  BY <1>5, <1>6 DEF OpToRel
<1>8. PICK some \in wrong : b = Cardinality(some)
  BY DEF sizes
<1>9. some \in SUBSET lines /\ ~ Merged(f[some], some)
  BY <1>8
<1>10. FiniteIntervals(some) /\ \A l \in some : l.line <= l.to
  BY <1>9, SomeOfIntervals
<1>11. CASE some = {}
  <2>1. f[some] = << >>
    BY <1>2, <1>9, <1>11 DEF NextOf
  <2>2. Merged(<< >>, {})
    BY DEF Merged, WithinSeq, WithinSet
  <2>. QED
    BY <1>9, <1>11, <2>1, <2>2
<1>12. CASE some # {}
  <2>1. PICK rest : rest = some \ {LatestOf(some)}
    OBVIOUS
  <2>2. rest \in SUBSET lines /\ Cardinality(rest) < b
    BY <1>4, <1>8, <1>9, <1>10, <1>12, <2>1, OneLess
  <2>3. Merged(f[rest], rest)
    <3>1. SUFFICES ASSUME rest \in wrong PROVE FALSE
      BY <2>2
    <3>2. Cardinality(rest) \in sizes
      BY <3>1 DEF sizes
    <3>. QED
      BY <1>7, <2>2, <3>2
  <2>4. f[some] = Viewport!Merge(f[rest], LatestOf(some))
    BY <1>2, <1>9, <1>12, <2>1 DEF NextOf
  <2>5. PICK s : s = f[rest]
    OBVIOUS
  <2>6. Merged(s, some \ {LatestOf(some)})
    BY <2>1, <2>3, <2>5
  <2>7. Merged(Viewport!Merge(s, LatestOf(some)), some)
    BY <1>10, <1>12, <2>6, MergeCovers
  <2>. QED
    BY <1>9, <2>4, <2>5, <2>7
<1>. QED
  BY <1>11, <1>12

-----------------------------------------------------------------------------
(* The lines a page has on screen.                                             *)

viewEpoch == v1
viewSeq == v2
view == v3
pageAt == v4
viewReports == v5
USE DEF viewEpoch, viewSeq, view, pageAt, viewReports

ViewInv ==
    /\ Viewport!ViewTypeOK
    /\ \A r \in viewReports : r.lines \subseteq Interval
    /\ Viewport!ViewIsOfThisLoad
    /\ Merged(view.lines, view.from)

\* The intervals a page may report are finitely many, and each has two ends.
LEMMA IntervalsAreFinite == FiniteIntervals(Interval)
<1>1. \A S : Viewport!IsFiniteSet(S) <=> IsFiniteSet(S)
  <2>. SUFFICES ASSUME NEW S PROVE Viewport!IsFiniteSet(S) <=> IsFiniteSet(S)
    OBVIOUS
  <2>. QED
    BY Zenon DEF Viewport!IsFiniteSet, IsFiniteSet
<1>. QED
  BY <1>1, PartsAssumption DEF Viewport!ViewportAssumption, FiniteIntervals

LEMMA NothingIsMerged == Merged(<< >>, {})
  BY DEF Merged, WithinSeq, WithinSet

LEMMA ViewInit == Viewport!Init => ViewInv
<1>. SUFFICES ASSUME Viewport!Init PROVE ViewInv
  OBVIOUS
<1>1. MaxLoads \in Nat /\ MaxReports \in Nat
  BY PartsAssumption DEF Viewport!ViewportAssumption
<1>. QED
  BY <1>1, NothingIsMerged DEF Viewport!Init, Viewport!Unmeasured, ViewInv, Viewport!ViewTypeOK, Viewport!ViewIsOfThisLoad

LEMMA ViewStep == ViewInv /\ [Viewport!Next]_(Viewport!viewVars) => ViewInv'
<1>. SUFFICES ASSUME ViewInv, [Viewport!Next]_(Viewport!viewVars)
              PROVE  ViewInv'
  OBVIOUS
<1>. USE DEF ViewInv, Viewport!ViewTypeOK, Viewport!ViewIsOfThisLoad
<1>0. MaxLoads \in Nat /\ MaxReports \in Nat
  BY PartsAssumption DEF Viewport!ViewportAssumption
<1>1. CASE Viewport!Load
  BY <1>0, <1>1, NothingIsMerged DEF Viewport!Load, Viewport!Unmeasured
<1>2. CASE Viewport!PageReports
  <2>1. PICK lines \in SUBSET Interval :
          viewReports' = viewReports \cup {[epoch |-> pageAt.epoch, seq |-> pageAt.seq + 1, lines |-> lines]}
    BY <1>2 DEF Viewport!PageReports
  <2>2. pageAt.epoch \in 1..MaxLoads /\ pageAt.seq \in 0..MaxReports /\ pageAt.seq + 1 \in 1..MaxReports
    BY <1>0, <1>2 DEF Viewport!PageReports
  <2>3. \A r \in viewReports' : r.epoch \in 1..MaxLoads /\ r.seq \in 1..MaxReports /\ r.lines \subseteq Interval
    BY <2>1, <2>2
  <2>4. pageAt' = [pageAt EXCEPT !.seq = @ + 1] /\ UNCHANGED <<viewEpoch, viewSeq, view>>
    BY <1>2 DEF Viewport!PageReports
  <2>5. pageAt' \in [epoch : 0..MaxLoads, seq : 0..MaxReports]
    BY <1>0, <2>2, <2>4
  <2>. QED
    BY <2>3, <2>4, <2>5 DEF Viewport!Unmeasured
<1>3. ASSUME NEW r \in viewReports, Viewport!Report(r)
      PROVE  ViewInv'
  <2>1. r.epoch \in 1..MaxLoads /\ r.seq \in 1..MaxReports /\ r.lines \subseteq Interval /\ viewReports' \subseteq viewReports
        /\ UNCHANGED <<viewEpoch, pageAt>>
    BY <1>3 DEF Viewport!Report
  <2>2. CASE UNCHANGED <<viewSeq, view>>
    BY <2>1, <2>2 DEF Viewport!Unmeasured
  <2>3. CASE /\ Viewport!Current(r) /\ \A i \in r.lines : i.line >= 1 /\ i.to >= i.line
             /\ viewSeq' = r.seq
             /\ view' = [epoch |-> r.epoch, seq |-> r.seq,
                         lines |-> Viewport!NormalizedIntervals(r.lines), from |-> r.lines]
    <3>1. view'.epoch = viewEpoch /\ view'.seq = r.seq /\ view'.from = r.lines
      BY <2>3 DEF Viewport!Current
    <3>2. \A i \in r.lines : i.line <= i.to
      <4>. SUFFICES ASSUME NEW i \in r.lines PROVE i.line <= i.to
        OBVIOUS
      <4>1. i.line \in Int /\ i.to \in Int /\ i.to >= i.line
        BY <2>1, <2>3, IntervalsAreFinite DEF FiniteIntervals
      <4>. QED
        BY <4>1
    <3>3. PICK lines : lines = r.lines
      OBVIOUS
    <3>4. FiniteIntervals(lines)
      BY <2>1, <3>3, IntervalsAreFinite, FS_Subset DEF FiniteIntervals
    <3>5. Merged(Viewport!NormalizedIntervals(lines), lines)
      BY <3>2, <3>3, <3>4, NormalizingCovers
    <3>6. Merged(view'.lines, view'.from)
      BY <2>3, <3>3, <3>5
    <3>. QED
      BY <2>1, <2>3, <3>1, <3>6
  <2>. QED
    BY <1>3, <2>2, <2>3 DEF Viewport!Report
<1>4. CASE UNCHANGED Viewport!viewVars
  BY <1>4 DEF Viewport!viewVars, Viewport!Unmeasured
<1>. QED
  BY <1>1, <1>2, <1>3, <1>4 DEF Viewport!Next


LEMMA ViewShows == ViewInv => Viewport!ViewIsOfThisLoad /\ Viewport!ViewCoversTheReport
<1>. SUFFICES ASSUME ViewInv PROVE Viewport!ViewIsOfThisLoad /\ Viewport!ViewCoversTheReport
  OBVIOUS
<1>1. PICK s, lines : s = view.lines /\ lines = view.from
  OBVIOUS
<1>2. Merged(s, lines) /\ lines \subseteq [line : Int, to : Int]
  BY <1>1, IntervalsAreFinite DEF ViewInv, Viewport!ViewTypeOK, FiniteIntervals
<1>3. Viewport!ToSet(s) = {s[i] : i \in DOMAIN s}
  BY Zenon DEF Viewport!ToSet
<1>4. DOMAIN s = 1 .. Len(s) /\ \A i \in 1 .. Len(s) : s[i] \in Row
  <2>1. s \in Seq(Row)
    BY <1>2 DEF Merged
  <2>. QED
    BY <2>1, LenProperties, ElementOfSeq
<1>5. \A row \in Row : \A n : n \in row.line .. row.to <=> n \in Int /\ row.line <= n /\ n <= row.to
  BY DEF Row
<1>6. \A n : n \in Viewport!LinesOf(Viewport!ToSet(s)) <=> n \in Int /\ WithinSeq(s, n)
  BY <1>3, <1>4, <1>5 DEF Viewport!LinesOf, WithinSeq
<1>7. \A n : n \in Viewport!LinesOf(lines) <=> n \in Int /\ WithinSet(lines, n)
  BY <1>2, <1>5 DEF Viewport!LinesOf, WithinSet, Row
<1>8. Viewport!LinesOf(Viewport!ToSet(s)) = Viewport!LinesOf(lines)
  BY <1>2, <1>6, <1>7 DEF Merged
<1>. QED
  BY <1>1, <1>2, <1>4, <1>8 DEF ViewInv, Viewport!ViewCoversTheReport, Merged
=============================================================================
