------------------------------- MODULE Ollama -------------------------------
(***************************************************************************)
(* The embedding model's status: internal/desktop/ollama.go.  Check probes *)
(* the server off the lock, Pull downloads the model on a goroutine of its *)
(* own, CancelPull gives up on it, and the generation counts pulls begun   *)
(* and ended, so that what was read before one is not written after it.    *)
(***************************************************************************)
EXTENDS Naturals, FiniteSets

CONSTANTS
    Asker,          \* the calls of Check that may be under way together
    MaxPulls,       \* bound on the pulls begun
    MaxChanges      \* bound on the times the server changes by itself

MaxPullsAssumption == MaxPulls \in Nat

VARIABLES
    server,         \* what a probe would find: the model, no model, no server
    status,         \* the state the page draws, with the percent of a pull
    pull,           \* the pull in flight, or 0
    pulls,          \* how many were begun
    generation,
    at,             \* where each pull's goroutine is
    cancelled,      \* the pulls whose context is over
    asker,          \* where each Check is, with what it read
    quitting,       \* the parent context is over
    changes

ollamaVars ==
    <<server, status, pull, pulls, generation, at, cancelled, asker, quitting, changes>>

Found == {"ready", "missing", "unreachable"}

Idle == [at |-> "idle", generation |-> 0, found |-> "missing"]

Init ==
    /\ server \in Found
    /\ status = [state |-> "", percent |-> 0]
    /\ pull = 0
    /\ pulls = 0
    /\ generation = 0
    /\ at = [p \in 1 .. MaxPulls |-> [at |-> "none", found |-> "missing"]]
    /\ cancelled = {}
    /\ asker = [a \in Asker |-> Idle]
    /\ quitting = FALSE
    /\ changes = 0

State(s) == [state |-> s, percent |-> 0]

\* A probe under a context that is over reaches nothing.
Probe == IF quitting THEN "unreachable" ELSE server

----------------------------------------------------------------------------
(* Check                                                                    *)

\* A pull in flight reports for itself.
AskCheck(a) ==
    /\ asker[a].at = "idle"
    /\ pull = 0
    /\ asker' = [asker EXCEPT ![a] = [Idle EXCEPT !.at = "probing", !.generation = generation]]
    /\ UNCHANGED <<server, status, pull, pulls, generation, at, cancelled, quitting, changes>>

Answer(a) ==
    /\ asker[a].at = "probing"
    /\ asker' = [asker EXCEPT ![a].at = "probed", ![a].found = Probe]
    /\ UNCHANGED <<server, status, pull, pulls, generation, at, cancelled, quitting, changes>>

\* Mutant: what a probe read is written whenever it comes.
StillTrueAlways(a) == a \in Asker
\* What was read before a pull began or ended is not written after it.
StillTrue(a) == asker[a].generation = generation

Told(a) ==
    /\ asker[a].at = "probed"
    /\ status' = IF StillTrue(a) THEN State(asker[a].found) ELSE status
    /\ asker' = [asker EXCEPT ![a] = Idle]
    /\ UNCHANGED <<server, pull, pulls, generation, at, cancelled, quitting, changes>>

----------------------------------------------------------------------------
(* Pull                                                                     *)

Pull ==
    /\ pull = 0
    /\ pulls < MaxPulls
    /\ pulls' = pulls + 1
    /\ pull' = pulls'
    /\ generation' = generation + 1
    /\ status' = State("pulling")
    /\ at' = [at EXCEPT ![pulls'].at = "streaming"]
    /\ cancelled' = IF quitting THEN cancelled \cup {pulls'} ELSE cancelled
    /\ UNCHANGED <<server, asker, quitting, changes>>

finishLocked(next) ==
    /\ pull' = 0
    /\ generation' = generation + 1
    /\ status' = State(next)

CancelPull ==
    /\ pull # 0
    /\ finishLocked("missing")
    /\ cancelled' = cancelled \cup {pull}
    /\ UNCHANGED <<server, pulls, at, asker, quitting, changes>>

\* Mutant: a line of a pull given up on is drawn like any other.
InFlightWhatever(p) == p \in 1 .. pulls
\* Only the pull in flight writes the status.
InFlight(p) == pull = p

\* A line of the stream: the bar moves.
Progress(p) ==
    /\ at[p].at = "streaming"
    /\ status' = IF InFlight(p) THEN [state |-> "pulling", percent |-> 50] ELSE status
    /\ UNCHANGED <<server, pull, pulls, generation, at, cancelled, asker, quitting, changes>>

\* The stream ends with the model there, and its goroutine probes for it.
Pulled(p) ==
    /\ at[p].at = "streaming"
    /\ p \notin cancelled
    /\ server # "unreachable"
    /\ server' = "ready"
    /\ at' = [at EXCEPT ![p].at = "probing"]
    /\ UNCHANGED <<status, pull, pulls, generation, cancelled, asker, quitting, changes>>

ProbePulled(p) ==
    /\ at[p].at = "probing"
    /\ at' = [at EXCEPT ![p] = [at |-> "ended", found |-> Probe]]
    /\ UNCHANGED <<server, status, pull, pulls, generation, cancelled, asker, quitting, changes>>

\* A stream may break at any time.
Broken(p) ==
    /\ at[p].at = "streaming"
    /\ p \notin cancelled
    /\ at' = [at EXCEPT ![p] = [at |-> "ended", found |-> "failed"]]
    /\ UNCHANGED <<server, status, pull, pulls, generation, cancelled, asker, quitting, changes>>

\* Mutant: giving up on a pull leaves its stream to end by itself.
RefusedIfQuitting(p) == p \in cancelled /\ quitting
\* Its context over ends a stream.
ContextOver(p) == p \in cancelled

Refused(p) ==
    /\ at[p].at = "streaming"
    /\ ContextOver(p)
    /\ at' = [at EXCEPT ![p] = [at |-> "ended", found |-> "failed"]]
    /\ UNCHANGED <<server, status, pull, pulls, generation, cancelled, asker, quitting, changes>>

Finish(p) ==
    /\ at[p].at = "ended"
    /\ at' = [at EXCEPT ![p] = [at |-> "none", found |-> "missing"]]
    /\ IF InFlight(p) THEN finishLocked(at[p].found)
       ELSE UNCHANGED <<pull, generation, status>>
    /\ UNCHANGED <<server, pulls, cancelled, asker, quitting, changes>>

\* Quitting ends the context every pull was begun under.
Quit ==
    /\ ~quitting
    /\ quitting' = TRUE
    /\ cancelled' = cancelled \cup {p \in 1 .. MaxPulls : at[p].at # "none"}
    /\ UNCHANGED <<server, status, pull, pulls, generation, at, asker, changes>>

\* The user installs, starts, stops Ollama or removes the model.
ServerChanges ==
    /\ changes < MaxChanges
    /\ changes' = changes + 1
    /\ \E s \in Found \ {server} : server' = s
    /\ UNCHANGED <<status, pull, pulls, generation, at, cancelled, asker, quitting>>

PullStep(p) == ProbePulled(p) \/ Refused(p) \/ Finish(p)

Next ==
    \/ \E a \in Asker : AskCheck(a) \/ Answer(a) \/ Told(a)
    \/ Pull
    \/ CancelPull
    \/ \E p \in 1 .. MaxPulls : Progress(p) \/ Pulled(p) \/ Broken(p) \/ PullStep(p)
    \/ Quit
    \/ ServerChanges

\* The goroutine of a pull runs; a stream may stall for ever, and does not
\* when its context is over.
OllamaFairSpec ==
    /\ Init /\ [][Next]_ollamaVars
    /\ \A p \in 1 .. MaxPulls : WF_ollamaVars(PullStep(p))

----------------------------------------------------------------------------

\* The variables hold what the Go types say.
OllamaTypeOK ==
    /\ server \in Found
    /\ status \in [state : Found \cup {"", "pulling", "failed"}, percent : {0, 50}]
    /\ pull \in 0 .. MaxPulls
    /\ pulls \in 0 .. MaxPulls
    /\ generation \in Nat
    /\ at \in [1 .. MaxPulls -> [at : {"none", "streaming", "probing", "ended"},
                                 found : Found \cup {"failed"}]]
    /\ cancelled \subseteq 1 .. MaxPulls
    /\ asker \in [Asker -> [at : {"idle", "probing", "probed"}, generation : Nat, found : Found]]
    /\ quitting \in BOOLEAN

\* The page draws a pull exactly while one is in flight: neither a probe that
\* began before it nor a line of one given up on draws over the other.
PullingIsInFlight ==
    /\ status.state = "pulling" <=> pull # 0
    /\ pull # 0 => at[pull].at # "none"

\* A pull the user gives up on, or quits over, ends, however the stream stalls.
CancelledAreOver  == \A p \in cancelled : at[p].at = "none"
CancelledPullsEnd == <>[]CancelledAreOver
=============================================================================
