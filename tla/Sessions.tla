------------------------------ MODULE Sessions ------------------------------
(***************************************************************************)
(* The session registry of the workbench process (desktop/session.go): the *)
(* sessions it has booted, the one on screen, and the supervisor process   *)
(* behind each conversation terminal.                                      *)
(*                                                                         *)
(* Show, Reload, Unload, Cleanup, adopt and retire run under showMu, so at *)
(* most one is under way: call["locked"] is where it has got to.  Each of  *)
(* them is a sequence of steps, because what they call (a PTY being        *)
(* stopped, a supervisor command being built, a listener being bound) runs *)
(* while the page, a supervisor's exit, the chrome poller and the quit     *)
(* handler go on without showMu.  call["startup"] is the session run()     *)
(* boots before it enters the event loop, which does not take showMu.      *)
(***************************************************************************)
EXTENDS Naturals, Sequences

CONSTANTS
    Slug,        \* session directory names under the sessions root
    NoSlug,      \* no session at all ("" in the code)
    InitialDirs, \* the sessions on disk when the workbench starts
    LeftBehind,  \* those whose supervisor, from an earlier workbench, is still alive
    Startup,     \* the session the process is started on, or NoSlug
    MayQuit,     \* bound: whether the window is closed while the run is looked at
    MaxBoots     \* bound: sessionStates one run of the workbench creates

ASSUME SlugAssumption ==
    /\ NoSlug \notin Slug
    /\ InitialDirs \subseteq Slug
    /\ LeftBehind \subseteq InitialDirs
    /\ Startup \in InitialDirs \cup {NoSlug}
    /\ MayQuit \in BOOLEAN
ASSUME MaxBootsAssumption == MaxBoots \in Nat

NoTerm  == 0                 \* nil *sessionState
Foreign == MaxBoots + 1      \* a supervisor another workbench left behind
Term    == 1..MaxBoots       \* sessionStates, named by their terminal id
Actor   == {"locked", "startup"}

VARIABLES
    seq,         \* Sessions.seq: terminal ids handed out
    slugOf,      \* sessionState.sessionSlug
    slugs,       \* Sessions.slugs: which state answers for a slug
    terms,       \* Sessions.terms
    showing,     \* Sessions.showing
    history,     \* Sessions.history, most recent last
    rail,        \* Sessions.rail as a set: the slugs the poller has placed
    stopped,     \* sessionState.stopped
    process,     \* the states whose process field is set
    listener,    \* each state's control listener
    life,        \* each supervisor process, and then the goroutine that reaps it
    pidfile,     \* the live process a session's agent.pid names, if any
    foreign,     \* roots whose left-behind supervisor is still alive
    dirs,        \* the slugs Resumable finds on disk
    creating,    \* sessions assembled on disk and not yet adopted
    starts,      \* Term.Start calls past byTerminal
    call,        \* the operation each actor is in the middle of
    quit         \* the quit handler's stopAll

registry == <<seq, slugOf, slugs, terms, showing, history>>
states   == <<stopped, process, listener>>
kernel   == <<life, pidfile, foreign>>
disk     == <<rail, dirs, creating>>
vars     == <<registry, states, kernel, disk, starts, call, quit>>

Ops == {"idle", "show", "reload", "unload", "cleanup", "adopt", "retire", "startup"}
Steps == {"done", "stop", "reap", "forget", "next", "root", "check", "add",
          "serve", "record", "drop", "reveal", "remove"}

\* op is the operation, pc its next step, slug the session it was asked for, root
\* the one it is booting, term the state in hand, fallback what recycling returned,
\* emptied whether recycling took the session off the screen, and grip what
\* stop() found to tear down.
Idle == [op |-> "idle", pc |-> "done", slug |-> NoSlug, root |-> NoSlug,
         term |-> NoTerm, fallback |-> NoTerm, emptied |-> FALSE, grip |-> {}]

Calls == [op : Ops, pc : Steps, slug : Slug \cup {NoSlug}, root : Slug \cup {NoSlug},
          term : Term \cup {NoTerm}, fallback : Term \cup {NoTerm}, emptied : BOOLEAN,
          grip : SUBSET {"process", "control"}]

\* A supervisor is forked, records its pid, may be sent SIGTERM, and exits with
\* code 0 or not; its pump then runs childExited, which may wait to retire it.
Lives == {"none", "forked", "up", "signalled", "clean", "failed", "retiring", "ended"}
Running(t) == life[t] \in {"forked", "up"}
Exited(t)  == life[t] \in {"clean", "failed", "retiring", "ended"}

TypeOK ==
    /\ seq \in 0..MaxBoots
    /\ slugOf \in [Term -> Slug \cup {NoSlug}]
    /\ slugs \in [Slug -> Term \cup {NoTerm}]
    /\ terms \subseteq Term
    /\ showing \in Term \cup {NoTerm}
    /\ history \in Seq(Term)
    /\ rail \subseteq Slug
    /\ stopped \subseteq Term
    /\ process \subseteq Term
    /\ listener \in [Term -> {"none", "bound", "held", "closing", "closed"}]
    /\ life \in [Term -> Lives]
    /\ pidfile \in [Slug -> Term \cup {NoTerm, Foreign}]
    /\ foreign \subseteq Slug
    /\ dirs \subseteq Slug
    /\ creating \subseteq Slug
    /\ starts \subseteq Term
    /\ call \in [Actor -> Calls]
    /\ quit \in [phase : {"no", "stopping", "done"}, left : SUBSET Term,
                 term : Term \cup {NoTerm}, grip : SUBSET {"process", "control"}]

\* sessionState.alive: a state between add and the page's first start counts.
Alive(t) == t # NoTerm /\ t \notin stopped /\ (t \in process => ~Exited(t))

\* session.AgentAlive: agent.pid names a process that still answers.  A file
\* whose process has died reads as no file at all, and is kept as NoTerm.
AgentAlive(s) == pidfile[s] # NoTerm

\* without: history with one session removed, which is in it at most once.
Without(h, t) ==
    LET at == {i \in DOMAIN h : h[i] = t}
        i  == CHOOSE i \in at : TRUE
    IN  IF at = {} THEN h ELSE SubSeq(h, 1, i - 1) \o SubSeq(h, i + 1, Len(h))

\* The most recent session in h that is still registered and alive.
LastAlive(h) ==
    LET live == {i \in DOMAIN h : slugs'[slugOf[h[i]]] = h[i] /\ Alive(h[i])}
        last == {i \in live : \A j \in live : j <= i}
    IN  IF last = {} THEN NoTerm ELSE h[CHOOSE i \in last : TRUE]

Init ==
    /\ seq = 0
    /\ slugOf = [t \in Term |-> NoSlug]
    /\ slugs = [s \in Slug |-> NoTerm]
    /\ terms = {} /\ showing = NoTerm /\ history = << >>
    /\ rail = {} /\ creating = {}
    /\ stopped = {} /\ process = {}
    /\ listener = [t \in Term |-> "none"]
    /\ life = [t \in Term |-> "none"]
    /\ dirs = InitialDirs
    /\ foreign = LeftBehind
    /\ pidfile = [s \in Slug |-> IF s \in foreign THEN Foreign ELSE NoTerm]
    /\ starts = {}
    /\ call = [a \in Actor |->
                 IF a = "startup" /\ Startup # NoSlug
                 THEN [Idle EXCEPT !.op = "startup", !.pc = "check",
                                   !.slug = Startup, !.root = Startup]
                 ELSE Idle]
    /\ quit = [phase |-> "no", left |-> {}, term |-> NoTerm, grip |-> {}]

-----------------------------------------------------------------------------
(* Operations that take showMu.  Each entry reads the registry and decides   *)
(* the first step.                                                           *)

Free == call["locked"] = Idle /\ quit.phase # "done"

\* run() boots the startup session before it enters the event loop: until then the
\* page does not run, and only a ticket on the process socket reaches Show.
PageRuns == call["startup"] = Idle /\ quit.phase # "done"

Enter(op, s, step, t) ==
    call' = [call EXCEPT !["locked"] =
               [Idle EXCEPT !.op = op, !.pc = step, !.slug = s, !.root = s, !.term = t]]

\* A live session is revealed; one whose supervisor died is recycled first.
Show(s) ==
    /\ Free
    /\ LET t == slugs[s]
       IN  Enter("show", s, IF Alive(t) THEN "reveal" ELSE IF t # NoTerm THEN "stop" ELSE "root", t)
    /\ UNCHANGED <<registry, states, kernel, disk, starts, quit>>

Reload(s) ==
    /\ Free /\ PageRuns /\ s \in dirs
    /\ Enter("reload", s, IF slugs[s] # NoTerm THEN "stop" ELSE "check", slugs[s])
    /\ UNCHANGED <<registry, states, kernel, disk, starts, quit>>

Unload(s) ==
    /\ Free /\ PageRuns /\ s \in dirs /\ slugs[s] # NoTerm
    /\ Enter("unload", s, "stop", slugs[s])
    /\ UNCHANGED <<registry, states, kernel, disk, starts, quit>>

\* Mutant: the directory goes without the session being retired.
CleanupUnretired(s) ==
    /\ Free /\ PageRuns /\ s \in dirs
    /\ slugs[s] = NoTerm => ~AgentAlive(s)
    /\ Enter("cleanup", s, "remove", slugs[s])
    /\ UNCHANGED <<registry, states, kernel, disk, starts, quit>>

\* Cleanup refuses an unregistered session whose agent still runs elsewhere.
Cleanup(s) ==
    /\ Free /\ PageRuns /\ s \in dirs
    /\ slugs[s] = NoTerm => ~AgentAlive(s)
    /\ Enter("cleanup", s, IF slugs[s] # NoTerm THEN "stop" ELSE "remove", slugs[s])
    /\ UNCHANGED <<registry, states, kernel, disk, starts, quit>>

\* session.Create, outside showMu: the manifest is written last.
CreateSession(s) ==
    /\ PageRuns /\ s \notin dirs
    /\ dirs' = dirs \cup {s} /\ creating' = creating \cup {s}
    /\ UNCHANGED <<registry, states, kernel, rail, starts, call, quit>>

Adopt(s) ==
    /\ Free /\ s \in creating
    /\ creating' = creating \ {s}
    /\ Enter("adopt", s, IF slugs[s] # NoTerm THEN "reveal" ELSE "check", slugs[s])
    /\ UNCHANGED <<registry, states, kernel, rail, dirs, starts, quit>>

\* Mutant: the pump does not look again once it has the lock.
RetireUnchecked(t) ==
    /\ Free /\ life[t] = "retiring"
    /\ life' = [life EXCEPT ![t] = "ended"]
    /\ Enter("retire", slugOf[t], "stop", t)
    /\ UNCHANGED <<registry, states, pidfile, foreign, disk, starts, quit>>

\* The pump of a supervisor that exited cleanly gets the lock, and looks again.
Retire(t) ==
    /\ Free /\ life[t] = "retiring"
    /\ life' = [life EXCEPT ![t] = "ended"]
    /\ IF t \in stopped \/ slugs[slugOf[t]] # t
       THEN UNCHANGED call
       ELSE Enter("retire", slugOf[t], "stop", t)
    /\ UNCHANGED <<registry, states, pidfile, foreign, disk, starts, quit>>

-----------------------------------------------------------------------------
(* The steps.                                                               *)

Goto(a, step) == call' = [call EXCEPT ![a].pc = step]
RevealNext(a, t) == call' = [call EXCEPT ![a].pc = "reveal", ![a].term = t]
Finish(a) == call' = [call EXCEPT ![a] = Idle]

\* Mutant: a boot that failed leaves the window as recycling left it.
FailedOnEmpty(a) ==
    /\ Finish(a)
    /\ quit' = IF call[a].op = "startup" THEN [quit EXCEPT !.phase = "done"] ELSE quit

\* A boot that failed: the window goes back to the fallback if it was emptied,
\* and a retirement whose next session would not boot leaves it on nothing.  A
\* startup session that fails ends the process.
Failed(a) ==
    /\ IF call[a].emptied THEN RevealNext(a, call[a].fallback) ELSE Finish(a)
    /\ quit' = IF call[a].op = "startup" THEN [quit EXCEPT !.phase = "done"] ELSE quit

\* The first half of sessionState.stop: both handles are cleared under the lock
\* and the process group is sent SIGTERM.
Grip(t) == (IF t \in process THEN {"process"} ELSE {}) \cup
           (IF listener[t] = "held" THEN {"control"} ELSE {})
StopMark(t) ==
    /\ stopped' = stopped \cup {t}
    /\ process' = process \ {t}
    /\ listener' = [listener EXCEPT ![t] = IF @ = "held" THEN "closing" ELSE @]
    /\ life' = [life EXCEPT ![t] = IF t \in process /\ Running(t) THEN "signalled" ELSE @]

\* The second half: wait for the exit, SIGKILL after the grace, then close the
\* listener.  A caller that found a handle already cleared waits for nothing.
StopReap(t, grip) ==
    /\ life' = [life EXCEPT ![t] = IF "process" \in grip /\ @ = "signalled" THEN "failed" ELSE @]
    /\ pidfile' = [s \in Slug |-> IF "process" \in grip /\ pidfile[s] = t THEN NoTerm ELSE pidfile[s]]
    /\ listener' = [listener EXCEPT ![t] = IF "control" \in grip THEN "closed" ELSE @]

Stop(a) ==
    LET t == call[a].term
    IN  /\ call[a].pc = "stop"
        /\ StopMark(t)
        /\ call' = [call EXCEPT ![a].pc = "reap", ![a].grip = Grip(t)]
        /\ UNCHANGED <<registry, pidfile, foreign, disk, starts, quit>>

Reap(a) ==
    /\ call[a].pc = "reap"
    /\ StopReap(call[a].term, call[a].grip)
    /\ call' = [call EXCEPT ![a].pc = "forget", ![a].grip = {}]
    /\ UNCHANGED <<registry, stopped, process, foreign, disk, starts, quit>>

\* Sessions.forget.  It deletes by slug, whoever is registered under it.
Unregister(t) ==
    /\ slugs' = [slugs EXCEPT ![slugOf[t]] = NoTerm]
    /\ terms' = terms \ {t}
    /\ history' = Without(history, t)
    /\ showing' = IF showing = t THEN NoTerm ELSE showing
    /\ UNCHANGED <<seq, slugOf>>

AfterForget(op, wasShown) ==
    CASE op = "show"    -> "root"
      [] op = "reload"  -> "check"
      [] op = "unload"  -> IF wasShown THEN "reveal" ELSE "done"
      [] op = "cleanup" -> IF wasShown THEN "next" ELSE "remove"
      [] op = "retire"  -> IF wasShown THEN "next" ELSE "done"

Forget(a) ==
    LET c == call[a]
        wasShown == showing = c.term
        fallback == IF wasShown THEN LastAlive(Without(history, c.term)) ELSE NoTerm
        step == AfterForget(c.op, wasShown)
    IN  /\ c.pc = "forget"
        /\ Unregister(c.term)
        /\ call' = [call EXCEPT ![a] =
              IF step = "done" THEN Idle
              ELSE [c EXCEPT !.pc = step, !.term = IF step = "reveal" THEN fallback ELSE NoTerm,
                             !.fallback = fallback, !.emptied = wasShown]]
        /\ UNCHANGED <<states, kernel, disk, starts, quit>>

\* retireLocked, when the retired session was on screen: the fallback, else the
\* next inactive session of the rail, else nothing.
Candidates(s) == {c \in (rail \cap dirs) \ {s} : slugs[c] = NoTerm}

NextInactive(a) ==
    LET c == call[a]
    IN  /\ c.pc = "next"
        /\ \/ c.fallback # NoTerm /\ RevealNext(a, c.fallback)
           \/ c.fallback = NoTerm /\ Candidates(c.slug) = {} /\ RevealNext(a, NoTerm)
           \/ /\ c.fallback = NoTerm
              /\ \E s \in Candidates(c.slug) :
                    call' = [call EXCEPT ![a].pc = "check", ![a].root = s]
        /\ UNCHANGED <<registry, states, kernel, disk, starts, quit>>

\* Show asks for the root only once it has recycled what was there.
Root(a) ==
    /\ call[a].pc = "root"
    /\ IF call[a].slug \in dirs THEN Goto(a, "check") /\ UNCHANGED quit ELSE Failed(a)
    /\ UNCHANGED <<registry, states, kernel, disk, starts>>

\* Mutant: start does not ask whether the agent is alive.
CheckNothing(a) ==
    /\ call[a].pc = "check"
    /\ \/ seq < MaxBoots /\ Goto(a, "add") /\ UNCHANGED quit
       \/ Failed(a)
    /\ UNCHANGED <<registry, states, kernel, disk, starts>>

\* Sessions.start: the left-behind supervisor is refused, and NewSocketPath or
\* the launcher may fail; the bound on boots is one more such failure.
Check(a) ==
    /\ call[a].pc = "check"
    /\ \/ ~AgentAlive(call[a].root) /\ seq < MaxBoots /\ Goto(a, "add") /\ UNCHANGED quit
       \/ Failed(a)
    /\ UNCHANGED <<registry, states, kernel, disk, starts>>

\* Mutant: the id is handed out before it is counted, so the first is nobody's.
AddUncounted(a) ==
    LET s == call[a].root
    IN  /\ call[a].pc = "add"
        /\ IF seq < MaxBoots
           THEN /\ seq' = seq + 1
                /\ slugOf' = [slugOf EXCEPT ![seq + 1] = s]
                /\ slugs' = [slugs EXCEPT ![s] = seq]
                /\ terms' = terms \cup {seq}
                /\ call' = [call EXCEPT ![a].pc = "serve", ![a].term = seq]
                /\ UNCHANGED quit
           ELSE UNCHANGED <<seq, slugOf, slugs, terms>> /\ Failed(a)
        /\ UNCHANGED <<showing, history, states, kernel, disk, starts>>

Add(a) ==
    LET s == call[a].root
    IN  /\ call[a].pc = "add"
        /\ IF seq < MaxBoots
           THEN /\ seq' = seq + 1
                /\ slugOf' = [slugOf EXCEPT ![seq + 1] = s]
                /\ slugs' = [slugs EXCEPT ![s] = seq + 1]
                /\ terms' = terms \cup {seq + 1}
                /\ call' = [call EXCEPT ![a].pc = "serve", ![a].term = seq + 1]
                /\ UNCHANGED quit
           ELSE UNCHANGED <<seq, slugOf, slugs, terms>> /\ Failed(a)
        /\ UNCHANGED <<showing, history, states, kernel, disk, starts>>

Serve(a) ==
    LET t == call[a].term
    IN  /\ call[a].pc = "serve"
        /\ \/ listener' = [listener EXCEPT ![t] = "bound"] /\ Goto(a, "record")
           \/ UNCHANGED listener /\ Goto(a, "drop")
        /\ UNCHANGED <<registry, stopped, process, kernel, disk, starts, quit>>

\* Mutant: serve records a listener on a state that was stopped meanwhile.
RecordAnyway(a) ==
    LET t == call[a].term
    IN  /\ call[a].pc = "record"
        /\ listener' = [listener EXCEPT ![t] = "held"]
        /\ Goto(a, "reveal")
        /\ UNCHANGED <<registry, stopped, process, kernel, disk, starts, quit>>

\* sessionState.serve refuses a state stopped meanwhile; the caller closes.
Record(a) ==
    LET t == call[a].term
    IN  /\ call[a].pc = "record"
        /\ listener' = [listener EXCEPT ![t] = IF t \in stopped THEN "closed" ELSE "held"]
        /\ Goto(a, IF t \in stopped THEN "drop" ELSE "reveal")
        /\ UNCHANGED <<registry, stopped, process, kernel, disk, starts, quit>>

Drop(a) ==
    /\ call[a].pc = "drop"
    /\ Unregister(call[a].term)
    /\ Failed(a)
    /\ UNCHANGED <<states, kernel, disk, starts>>

Reveal(a) ==
    LET t == call[a].term
    IN  /\ call[a].pc = "reveal"
        /\ showing' = t
        /\ history' = IF t \in {showing, NoTerm} THEN history ELSE Append(Without(history, t), t)
        /\ IF call[a].op = "cleanup" THEN Goto(a, "remove") ELSE Finish(a)
        /\ UNCHANGED <<seq, slugOf, slugs, terms, states, kernel, disk, starts, quit>>

\* session.Remove: once the manifest has gone the directory is no session,
\* whether or not the rest of the removal succeeds.
RemoveRoot(a) ==
    /\ call[a].pc = "remove"
    /\ dirs' \in {dirs, dirs \ {call[a].slug}}
    /\ pidfile' = [pidfile EXCEPT ![call[a].slug] = IF dirs' = dirs THEN @ ELSE NoTerm]
    /\ Finish(a)
    /\ UNCHANGED <<registry, states, life, foreign, rail, creating, starts, quit>>

Step(a) == Stop(a) \/ Reap(a) \/ Forget(a) \/ NextInactive(a) \/ Root(a)
           \/ Check(a) \/ Add(a) \/ Serve(a) \/ Record(a) \/ Drop(a) \/ Reveal(a) \/ RemoveRoot(a)

-----------------------------------------------------------------------------
(* What goes on without showMu.                                             *)

\* The chrome poller places every session it finds on disk.
Poll ==
    /\ rail # rail \cup dirs
    /\ rail' = rail \cup dirs
    /\ UNCHANGED <<registry, states, kernel, dirs, creating, starts, call, quit>>

\* Term.Start for the terminal on screen, before and after the state it looked up
\* is locked: the session may be gone by then.  A page reload repeats the call.
PageLookup(t) ==
    /\ PageRuns /\ t = showing /\ t \in terms \ starts
    /\ starts' = starts \cup {t}
    /\ UNCHANGED <<registry, states, kernel, disk, call, quit>>

\* Mutant: Start does not ask whether the state was stopped since it was looked up.
PageStartStopped(t) ==
    /\ t \in starts
    /\ starts' = starts \ {t}
    /\ \/ /\ t \notin process /\ slugOf[t] \in dirs
          /\ process' = process \cup {t}
          /\ life' = [life EXCEPT ![t] = "forked"]
       \/ UNCHANGED <<process, life>>
    /\ UNCHANGED <<registry, stopped, listener, pidfile, foreign, disk, call, quit>>

PageStart(t) ==
    /\ t \in starts
    /\ starts' = starts \ {t}
    /\ \/ /\ t \notin stopped \cup process /\ slugOf[t] \in dirs
          /\ process' = process \cup {t}
          /\ life' = [life EXCEPT ![t] = "forked"]
       \/ UNCHANGED <<process, life>>          \* refused, or startPTY failed
    /\ UNCHANGED <<registry, stopped, listener, pidfile, foreign, disk, call, quit>>

\* Supervise: the pid is written first, and removed on the way out unless the
\* process was killed by a signal.
WritePid(t) ==
    /\ life[t] = "forked" /\ slugOf[t] \in dirs
    /\ life' = [life EXCEPT ![t] = "up"]
    /\ pidfile' = [pidfile EXCEPT ![slugOf[t]] = t]
    /\ UNCHANGED <<registry, states, foreign, disk, starts, call, quit>>

Exit(t) ==
    LET removed == [pidfile EXCEPT ![slugOf[t]] = NoTerm]
    IN  /\ Running(t)
        /\ \/ /\ life[t] = "up"
              /\ life' = [life EXCEPT ![t] = "clean"]
              /\ pidfile' = removed
           \/ /\ life' = [life EXCEPT ![t] = "failed"]
              /\ pidfile' \in {removed, IF pidfile[slugOf[t]] = t THEN removed ELSE pidfile}
        /\ UNCHANGED <<registry, states, foreign, disk, starts, call, quit>>

ForeignExits(s) ==
    /\ s \in foreign
    /\ foreign' = foreign \ {s}
    /\ pidfile' = [pidfile EXCEPT ![s] = IF @ = Foreign THEN NoTerm ELSE @]
    /\ UNCHANGED <<registry, states, life, disk, starts, call, quit>>

\* Mutant: the exits that retire a session are the failed ones.
ChildExitedSwapped(t) ==
    /\ life[t] \in {"clean", "failed"}
    /\ life' = [life EXCEPT ![t] = IF @ = "failed" /\ t \notin stopped THEN "retiring" ELSE "ended"]
    /\ UNCHANGED <<registry, states, pidfile, foreign, disk, starts, call, quit>>

\* childExited: a state stopped meanwhile has nothing to explain; a failed
\* supervisor keeps its terminal; a clean one asks to be retired.
ChildExited(t) ==
    /\ life[t] \in {"clean", "failed"}
    /\ life' = [life EXCEPT ![t] = IF @ = "clean" /\ t \notin stopped THEN "retiring" ELSE "ended"]
    /\ UNCHANGED <<registry, states, pidfile, foreign, disk, starts, call, quit>>

\* The quit handler: stopAll over the terminals registered when it looked.
QuitBegin ==
    /\ MayQuit /\ PageRuns /\ quit.phase = "no"
    /\ quit' = [quit EXCEPT !.phase = "stopping", !.left = terms]
    /\ UNCHANGED <<registry, states, kernel, disk, starts, call>>

QuitStop(t) ==
    /\ quit.phase = "stopping" /\ quit.term = NoTerm /\ t \in quit.left
    /\ StopMark(t)
    /\ quit' = [quit EXCEPT !.left = @ \ {t}, !.term = t, !.grip = Grip(t)]
    /\ UNCHANGED <<registry, pidfile, foreign, disk, starts, call>>

QuitReap ==
    /\ quit.term # NoTerm
    /\ StopReap(quit.term, quit.grip)
    /\ quit' = [quit EXCEPT !.term = NoTerm, !.grip = {}]
    /\ UNCHANGED <<registry, stopped, process, foreign, disk, starts, call>>

QuitEnd ==
    /\ quit.phase = "stopping" /\ quit.left = {} /\ quit.term = NoTerm
    /\ quit' = [quit EXCEPT !.phase = "done"]
    /\ UNCHANGED <<registry, states, kernel, disk, starts, call>>

Next ==
    \/ \E s \in Slug : Show(s) \/ Reload(s) \/ Unload(s) \/ Cleanup(s)
                       \/ CreateSession(s) \/ Adopt(s) \/ ForeignExits(s)
    \/ \E a \in Actor : Step(a)
    \/ \E t \in Term : Retire(t) \/ PageLookup(t) \/ PageStart(t) \/ WritePid(t)
                       \/ Exit(t) \/ ChildExited(t) \/ QuitStop(t)
    \/ Poll \/ QuitBegin \/ QuitReap \/ QuitEnd

Spec == Init /\ [][Next]_vars

\* Every step of a call, the pump and the quit handler are goroutines that run on;
\* showMu is a sync.Mutex, whose starvation mode gives a waiting pump the lock.
Fairness ==
    /\ \A a \in Actor : WF_vars(Step(a))
    /\ \A t \in Term : WF_vars(ChildExited(t)) /\ SF_vars(Retire(t))

FairSpec == Spec /\ Fairness
-----------------------------------------------------------------------------
(* What the registry promises.                                              *)

\* No two supervisors run on one session directory, and none beside one that a
\* previous workbench left behind: Show and Reload stop what they replace, and
\* start refuses a live agent.pid.
OneSupervisor ==
    \A t \in Term : Running(t) =>
        /\ slugOf[t] \notin foreign
        /\ \A u \in Term : Running(u) /\ slugOf[u] = slugOf[t] => u = t

\* The same promise as a specification: the supervisors that run hold the slots
\* of SessionSlots, one at a time, and never come back to one.
Owner == [s \in Slug |->
            IF s \in foreign THEN Foreign
            ELSE IF \E t \in Term : Running(t) /\ slugOf[t] = s
                 THEN CHOOSE t \in Term : Running(t) /\ slugOf[t] = s
                 ELSE NoTerm]
Spent == {t \in Term : life[t] # "none" /\ ~Running(t)}

Slots == INSTANCE SessionSlots WITH Free <- NoTerm, owner <- Owner, spent <- Spent
ImplementsSlots == Slots!Spec

\* Cleanup never takes a directory away from under a supervisor it leaves
\* running: retiring comes first, and an unregistered live one is refused.
NoSupervisorOnRemovedRoot == \A t \in Term : Running(t) => slugOf[t] \in dirs

\* Between operations the window shows a session the registry still answers
\* for, under its slug and under its terminal id.
ShownIsRegistered ==
    call["locked"] = Idle /\ call["startup"] = Idle /\ showing # NoTerm =>
        slugs[slugOf[showing]] = showing /\ showing \in terms

\* Between operations the window is empty only when no session that has been on
\* screen is still alive: whatever took the shown one away handed the window
\* back.
WindowHandedBack ==
    call["locked"] = Idle /\ call["startup"] = Idle /\ showing = NoTerm =>
        \A s \in Slug : ~Alive(slugs[s])

\* No supervisor works in a directory that was removed, the session on screen is one of
\* those registered, and a failed replacement gives the window back to who had it.
WindowIsSound == NoSupervisorOnRemovedRoot /\ ShownIsRegistered /\ WindowHandedBack

\* A listener outlives its session only while somebody is on the way to closing
\* it, whichever of stop and serve came first.
ListenersClosed ==
    \A t \in stopped :
        \/ listener[t] \in {"none", "closed"}
        \/ quit.term = t
        \/ \E a \in Actor : call[a].term = t /\ call[a].pc \in {"reap", "record"}

\* A supervisor that exits cleanly takes its session off the registry, unless
\* the workbench is on its way out.
CleanExitRetires ==
    \A t \in Term : life[t] = "clean" ~> (t \notin terms \/ quit.phase # "no")
=============================================================================
