----------------------------- MODULE Supervisor -----------------------------
(***************************************************************************)
(* A session's agent supervisor (launch/supervise.go) and what reaches it    *)
(* through the session directory: the manifest's mode, the handoff marker,    *)
(* the queued notice, the opening prompt and agent.pid.                      *)
(*                                                                         *)
(* A writer (the picker's Confirm, the mode verb) changes the manifest under  *)
(* its lock, leaves the marker and the notice, and pokes the supervisor with  *)
(* SIGUSR1.  The supervisor reads them one after the other on its way to each *)
(* launch, without the lock, and a signal that comes meanwhile waits in a     *)
(* channel of one.                                                          *)
(***************************************************************************)
EXTENDS Naturals

CONSTANTS
    Writer,     \* processes that change the manifest
    HasPrompt,  \* whether the session was created with an opening prompt
    MaxOps,     \* bound: changes made to the manifest
    MaxStarts   \* bound: supervisors started on the session

ASSUME BoundsAssumption == MaxOps \in Nat /\ MaxStarts \in Nat
ASSUME PromptAssumption == HasPrompt \in BOOLEAN

None == MaxOps + 1           \* no conversation

VARIABLES
    mode,       \* the manifest's mode
    era,        \* escalations so far, which a conversation is dated by
    handoff,    \* the handoff-pending marker is on disk
    notice,     \* a notice is queued
    prompt,     \* where the opening prompt is
    writing,    \* where each writer has got to, and whether it queues a notice
    ops,        \* manifest changes so far
    pc,         \* where the supervisor has got to
    starts,     \* supervisors so far
    resume,     \* Supervise's resume and freshStart
    freshStart,
    listening,  \* signal.Notify is in effect
    relaunch,   \* the signal channel holds a SIGUSR1
    stamped,    \* the mode the session's assets were stamped for
    opened,     \* the mode the runner was opened in
    conv,       \* the runner's conversation, by the era it began in
    settled,    \* the runner has written that conversation to disk
    latest      \* the conversation a resume would continue

disk     == <<mode, era, handoff, notice, prompt>>
writers  == <<writing, ops>>
assets   == <<stamped, opened>>
locals   == <<resume, freshStart, assets>>
signals  == <<listening, relaunch>>
runner   == <<conv, settled, latest>>
vars     == <<disk, writers, pc, starts, locals, signals, runner>>

Modes   == {"assistant", "rpi"}
Looping == {"stamp", "handoff", "notice", "launch", "running", "stopping"}
Id      == 0..MaxOps
Idle    == [at |-> "idle", queues |-> FALSE]

TypeOK ==
    /\ mode \in Modes
    /\ era \in 0..ops
    /\ handoff \in BOOLEAN
    /\ notice \in BOOLEAN
    /\ prompt \in {"none", "disk", "hand", "launched"}
    /\ writing \in [Writer -> [at : {"idle", "mark", "queue", "signal"}, queues : BOOLEAN]]
    /\ ops \in Id
    /\ pc \in Looping \cup {"gone", "prompt", "listen"}
    /\ starts \in 0..MaxStarts
    /\ resume \in BOOLEAN /\ freshStart \in BOOLEAN
    /\ listening \in BOOLEAN /\ relaunch \in BOOLEAN
    /\ stamped \in Modes /\ opened \in Modes
    /\ conv \in 0..era \cup {None}
    /\ settled \in BOOLEAN
    /\ latest \in 0..era \cup {None}

\* A session Create has just finished: assembly may have queued a notice.
Init ==
    /\ mode \in Modes /\ era = 0 /\ handoff = FALSE
    /\ notice \in BOOLEAN
    /\ prompt = IF HasPrompt THEN "disk" ELSE "none"
    /\ writing = [w \in Writer |-> Idle] /\ ops = 0
    /\ pc = "gone" /\ starts = 0
    /\ resume = FALSE /\ freshStart = TRUE
    /\ listening = FALSE /\ relaunch = FALSE
    /\ stamped = mode /\ opened = mode
    /\ conv = None /\ settled = FALSE /\ latest = None

-----------------------------------------------------------------------------
(* The writers.                                                             *)

Unlocked == \A w \in Writer : writing[w].at # "mark"

\* UpdateManifest, for the mode verb (no notice) and for both kinds of Confirm.  The
\* marker is written inside the lock, but after the manifest can be read.
Change(w, m, queues) ==
    LET escalates == mode = "assistant" /\ m = "rpi"
    IN  /\ writing[w] = Idle /\ Unlocked /\ ops < MaxOps
        /\ mode = "rpi" /\ m = "assistant" => ~queues
        /\ ops' = ops + 1
        /\ mode' = m
        /\ era' = IF escalates THEN era + 1 ELSE era
        /\ writing' = [writing EXCEPT ![w] =
              [at |-> IF escalates THEN "mark" ELSE "queue", queues |-> queues]]
        /\ UNCHANGED <<handoff, notice, prompt, pc, starts, locals, signals, runner>>

Mark(w) ==
    /\ writing[w].at = "mark"
    /\ handoff' = TRUE
    /\ writing' = [writing EXCEPT ![w].at = "queue"]
    /\ UNCHANGED <<mode, era, notice, prompt, ops, pc, starts, locals, signals, runner>>

\* QueueAgentNotice replaces a notice nobody has taken.
QueueNotice(w) ==
    /\ writing[w].at = "queue"
    /\ notice' = (notice \/ writing[w].queues)
    /\ writing' = [writing EXCEPT ![w].at = "signal"]
    /\ UNCHANGED <<mode, era, handoff, prompt, ops, pc, starts, locals, signals, runner>>

\* SignalSupervisor: a supervisor that does not listen yet ignores the signal, and
\* the channel holds one.
Signal(w) ==
    /\ writing[w].at = "signal"
    /\ relaunch' = listening
    /\ writing' = [writing EXCEPT ![w] = Idle]
    /\ UNCHANGED <<disk, ops, pc, starts, locals, listening, runner>>

-----------------------------------------------------------------------------
(* The supervisor.                                                          *)

Gone ==
    /\ pc' = "gone"
    /\ listening' = FALSE /\ relaunch' = FALSE

\* The conversation terminal starts a supervisor, which writes its pid.
Start(r) ==
    /\ pc = "gone" /\ starts < MaxStarts
    /\ starts' = starts + 1
    /\ pc' = "prompt"
    /\ resume' = r /\ freshStart' = TRUE
    /\ conv' = None /\ settled' = FALSE
    /\ UNCHANGED <<disk, writers, assets, signals, latest>>

TakePrompt ==
    /\ pc = "prompt"
    /\ pc' = "listen"
    /\ prompt' = IF prompt = "disk" THEN "hand" ELSE prompt
    /\ resume' = (resume /\ prompt # "disk")
    /\ UNCHANGED <<mode, era, handoff, notice, writers, starts, freshStart, assets, signals, runner>>

Listen ==
    /\ pc = "listen"
    /\ pc' = "stamp"
    /\ listening' = TRUE
    /\ UNCHANGED <<disk, writers, starts, locals, relaunch, runner>>

Stamp ==
    /\ pc = "stamp"
    /\ stamped' = mode
    /\ pc' = "handoff"
    /\ UNCHANGED <<disk, writers, starts, resume, freshStart, opened, signals, runner>>

TakeHandoff ==
    /\ pc = "handoff"
    /\ handoff' = FALSE
    /\ resume' = (resume /\ ~handoff)
    /\ pc' = "notice"
    /\ UNCHANGED <<mode, era, notice, prompt, writers, starts, freshStart, assets, signals, runner>>

TakeNotice ==
    /\ pc = "notice"
    /\ notice' = FALSE
    /\ pc' = "launch"
    /\ UNCHANGED <<mode, era, handoff, prompt, writers, starts, resume, freshStart, assets, signals, runner>>

\* Mutant: a fresh conversation is dated by the escalation to come.
FreshLate == era + 1

\* What a launch that resumes nothing begins.
Fresh == era

\* The generation is announced and the runner started, with --continue if it resumes.
Launch ==
    /\ pc = "launch"
    /\ conv' = IF resume THEN latest ELSE Fresh
    /\ settled' = (resume /\ latest # None)
    /\ prompt' = IF prompt = "hand" THEN "launched" ELSE prompt
    /\ opened' = mode
    /\ pc' = "running"
    /\ UNCHANGED <<mode, era, handoff, notice, writers, starts, resume, freshStart, stamped, signals, latest>>

\* Every step before the launch can fail, and the workbench may stop the
\* conversation's process group at any of them.
Ends ==
    /\ pc # "gone" /\ Gone
    /\ UNCHANGED <<disk, writers, starts, locals, runner>>

-----------------------------------------------------------------------------
(* The runner, and what its end comes to.                                    *)

\* A runner writes its conversation some time after it was started.
Settle ==
    /\ pc \in {"running", "stopping"} /\ conv # None /\ ~settled
    /\ settled' = TRUE /\ latest' = conv
    /\ UNCHANGED <<disk, writers, pc, starts, locals, signals, conv>>

\* Mutant: the fallback forgets what it has spent.
FallBackAgain ==
    /\ pc' = "stamp"
    /\ UNCHANGED <<resume, freshStart, signals>>

\* A resume that failed gets one fresh start, with its notice for a prompt.
FallBack ==
    /\ pc' = "stamp"
    /\ resume' = FALSE /\ freshStart' = FALSE
    /\ UNCHANGED signals

\* The runner fails by itself, as one must that has nothing to resume.  (A runner
\* that ends well ends the terminal: that is Ends.)
RunnerFails ==
    /\ pc = "running"
    /\ IF resume /\ freshStart THEN FallBack ELSE Gone /\ UNCHANGED <<resume, freshStart>>
    /\ UNCHANGED <<disk, writers, starts, assets, runner>>

\* The relaunch signal: the runner is sent SIGTERM, and killed after the grace.
Signalled ==
    /\ pc = "running" /\ relaunch
    /\ relaunch' = FALSE
    /\ pc' = "stopping"
    /\ UNCHANGED <<disk, writers, starts, locals, listening, runner>>

\* Mutant: the assets are stamped once, ahead of the loop.
StoppedUnstamped ==
    /\ pc = "stopping"
    /\ pc' = "handoff"
    /\ resume' = TRUE
    /\ UNCHANGED <<disk, writers, starts, freshStart, assets, signals, runner>>

Stopped ==
    /\ pc = "stopping"
    /\ pc' = "stamp"
    /\ resume' = TRUE
    /\ UNCHANGED <<disk, writers, starts, freshStart, assets, signals, runner>>

Loop == TakePrompt \/ Listen \/ Stamp \/ TakeHandoff \/ TakeNotice \/ Launch \/ Signalled \/ Stopped

Next ==
    \/ \E w \in Writer :
          \/ \E m \in Modes, queues \in BOOLEAN : Change(w, m, queues)
          \/ Mark(w) \/ QueueNotice(w) \/ Signal(w)
    \/ \E r \in BOOLEAN : Start(r)
    \/ Loop \/ Ends \/ Settle \/ RunnerFails

Spec == Init /\ [][Next]_vars

\* The supervisor is one goroutine that runs on; a signal in its channel is taken
\* even if the runner never ends.
FairSpec == Spec /\ WF_vars(Loop)

-----------------------------------------------------------------------------
(* What the supervisor promises.                                            *)

Quiescent == pc = "running" /\ ~relaunch /\ \A w \in Writer : writing[w] = Idle

\* Once every change has been signalled, the runner in the terminal is one that
\* was launched from it: signals that were coalesced, or came before the supervisor
\* listened, lose no change.
RunnerIsCurrent == Quiescent => stamped = mode /\ opened = mode /\ ~handoff /\ ~notice

\* A supervisor whose runners all end relaunches them a bounded number of times:
\* the fallback of a failed resume is spent once.
NoEndlessRelaunch ==
    (pc = "running" ~> pc # "running") => <>[](pc \notin Looping)

\* "An escalation hands over the brief, not the conversation", and a restart between
\* the two still starts the orchestrator fresh: no orchestrator goes on with a
\* conversation from before the escalation.
EscalationHandsOver == Quiescent /\ opened = "rpi" /\ settled => conv = era
=============================================================================
