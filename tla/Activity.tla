------------------------------ MODULE Activity ------------------------------
(***************************************************************************)
(* What the workbench knows of one session's agents when its runner        *)
(* reports only its children starting and stopping, and its own waiting    *)
(* (desktop/agent_activity.go), with the path an attention change takes to *)
(* the rail and the chime (attend and ringer of desktop/desktop.go).       *)
(*                                                                         *)
(* Reports come over the control socket, a goroutine each, and may be of a *)
(* generation that is over.  The user meanwhile reveals sessions and       *)
(* types.  Times are left out: which of the finished leaves is the oldest  *)
(* is left open, and so is what the conversation's own timing says.        *)
(***************************************************************************)
EXTENDS Naturals, FiniteSets

CONSTANTS Agent,       \* names a runner gives its children
          Handler,     \* goroutines serving the control socket
          MaxGen,      \* bound: generations of the runner
          MaxSetups,   \* bound: runners that end before announcing one
          RecordCap    \* agentRecordCap

ActivityAssumption ==
    /\ IsFiniteSet(Agent) /\ IsFiniteSet(Handler)
    /\ {MaxGen, MaxSetups} \subseteq Nat /\ RecordCap \in Nat \ {0}

VARIABLES generation,   \* agentActivity.generation, 0 before the first
          setupRuns,    \* agentActivity.setupRuns
          lastRun,      \* agentActivity.lastRun
          running, waiting, unread, rung,
          records,      \* agentActivity.records
          shown,        \* whether this session is the one on screen
          revealing,    \* reveal has put it there and has yet to call seen
          notify        \* what each handler has left of attend

actVars == <<generation, setupRuns, lastRun, running, waiting, unread, rung, records, shown, revealing, notify>>

RootAgent  == "root"
\* A run is named by its generation, or after the generations by its setup number.
Runs  == 0..(MaxGen + MaxSetups)
Setup(n) == MaxGen + n
Generation(run) == IF run <= MaxGen THEN run ELSE 0

Record == [run : Runs, id : Agent \cup {RootAgent}, parent : Agent \cup {RootAgent},
           state : {"live", "done", "ended", "failed"}, gen : Runs]

RootOf(run, state) == [run |-> run, id |-> RootAgent, parent |-> RootAgent, state |-> state,
                       gen |-> Generation(run)]

Live      == {r \in records : r.state = "live"}
Known(id) == {r \in records : r.run = lastRun /\ r.id = id}
Free(h)   == notify[h] = "idle"

ActivityInit ==
    /\ generation = 0 /\ setupRuns = 0 /\ lastRun = 0
    /\ running = FALSE /\ waiting = FALSE /\ unread = FALSE /\ rung = FALSE
    /\ records = {}
    /\ shown = FALSE /\ revealing = FALSE
    /\ notify = [h \in Handler |-> "idle"]

(***************************************************************************)
(* finishActiveLocked, keepOnlyLocked and capLocked, on a set of records.  *)
(***************************************************************************)
Finished(recs) == {IF r.state = "live" THEN [r EXCEPT !.state = "ended"] ELSE r : r \in recs}

KeepOnly(recs, run) == {r \in recs : r.run = run}

HasChildren(r, recs) == \E c \in recs : c.run = r.run /\ c.parent = r.id /\ c # r

\* Mutant: a finished agent is dropped whether or not others hang off it.
LeavesWithChildren(recs) == {r \in recs : r.id # RootAgent /\ r.state # "live"}

Leaves(recs) == {r \in recs : r.id # RootAgent /\ r.state # "live" /\ ~HasChildren(r, recs)}

\* The results of dropping the oldest finished leaves until the cap is met or none is
\* left; the leaves are chosen before the first is dropped.
Capped(recs) ==
    LET over == IF Cardinality(recs) > RecordCap THEN Cardinality(recs) - RecordCap ELSE 0
        room == IF Cardinality(Leaves(recs)) < over THEN Cardinality(Leaves(recs)) ELSE over
    IN {recs \ gone : gone \in {d \in SUBSET Leaves(recs) : Cardinality(d) = room}}

(***************************************************************************)
(* The runner's reports.                                                   *)
(***************************************************************************)
\* begin: the previous run is closed, and its tree kept until the next one.
Begin(g) ==
    /\ g # generation
    /\ records' = {r \in KeepOnly(Finished(records), lastRun) : <<r.run, r.id>> # <<g, RootAgent>>}
                    \cup {RootOf(g, "live")}
    /\ generation' = g /\ lastRun' = g
    /\ running' = TRUE /\ waiting' = FALSE /\ unread' = FALSE /\ rung' = FALSE
    /\ UNCHANGED <<setupRuns, shown, revealing, notify>>

\* Mutant: a report is taken whichever generation it is of.
CurrentWhateverGen(g) == running

Current(g) == running /\ g = generation

Parent(named) == IF Known(named) # {} THEN named ELSE RootAgent

LifecycleStart(g, id, named) ==
    /\ Current(g)
    /\ Known(id) = {}
    /\ records' \in Capped(records \cup {[run |-> lastRun, id |-> id, parent |-> Parent(named),
                                          state |-> "live", gen |-> g]})
    /\ UNCHANGED <<generation, setupRuns, lastRun, running, waiting, unread, rung, shown, revealing, notify>>

\* A stop of an agent nobody heard start is recorded as a finished one.
LifecycleStop(g, id, named) ==
    /\ Current(g)
    /\ \/ /\ Known(id) = {}
          /\ records' \in Capped(records \cup {[run |-> lastRun, id |-> id, parent |-> Parent(named),
                                                state |-> "done", gen |-> g]})
       \/ \E r \in Known(id) :
            /\ r.state = "live"
            /\ records' \in Capped((records \ {r}) \cup {[r EXCEPT !.state = "done"]})
    /\ UNCHANGED <<generation, setupRuns, lastRun, running, waiting, unread, rung, shown, revealing, notify>>

Delegating == \E r \in Live : r.id # RootAgent /\ r.gen = generation

\* attention: the session waits on the user, works, or has ended its turn with nothing
\* delegated still running.  What changed goes on to attend.
Attention(h, g, value) ==
    /\ Free(h)
    /\ Current(g)
    /\ \/ /\ value = "working"
          /\ waiting' = FALSE
          /\ notify' = [notify EXCEPT ![h] = "changed"]
          /\ UNCHANGED unread
       \/ /\ value = "waiting" \/ (value = "turn-ended" /\ ~Delegating)
          /\ waiting' = TRUE /\ unread' = TRUE
          /\ notify' = [notify EXCEPT ![h] = "alerted"]
    /\ UNCHANGED <<generation, setupRuns, lastRun, running, rung, records, shown, revealing>>

(***************************************************************************)
(* attend: looks whether the session is on screen, then marks it seen.     *)
(***************************************************************************)
\* Mutant: a change that rings is not marked seen.
LooksUnlessAlerted(h) ==
    /\ notify[h] \in {"changed", "alerted"}
    /\ notify' = [notify EXCEPT ![h] =
                    CASE shown /\ @ = "changed" -> "seeing"
                      [] @ = "alerted"          -> "ringing"
                      [] OTHER                  -> "idle"]
    /\ UNCHANGED <<generation, setupRuns, lastRun, running, waiting, unread, rung, records, shown, revealing>>

Looks(h) ==
    /\ notify[h] \in {"changed", "alerted"}
    /\ notify' = [notify EXCEPT ![h] =
                    CASE shown /\ @ = "changed" -> "seeing"
                      [] shown /\ @ = "alerted" -> "seeing then ringing"
                      [] ~shown /\ @ = "alerted" -> "ringing"
                      [] OTHER                  -> "idle"]
    /\ UNCHANGED <<generation, setupRuns, lastRun, running, waiting, unread, rung, records, shown, revealing>>

Sees(h) ==
    /\ notify[h] \in {"seeing", "seeing then ringing"}
    /\ unread' = FALSE
    /\ notify' = [notify EXCEPT ![h] = IF @ = "seeing" THEN "idle" ELSE "ringing"]
    /\ UNCHANGED <<generation, setupRuns, lastRun, running, waiting, rung, records, shown, revealing>>

\* ringer: silent when told to be quiet, when the user watches, or once rung.
Rings(h, silent) ==
    /\ notify[h] = "ringing"
    /\ notify' = [notify EXCEPT ![h] = "idle"]
    /\ rung' = (rung \/ ~silent)
    /\ UNCHANGED <<generation, setupRuns, lastRun, running, waiting, unread, records, shown, revealing>>

(***************************************************************************)
(* The user and the supervisor.                                            *)
(***************************************************************************)
Reveal ==
    /\ ~shown
    /\ shown' = TRUE /\ revealing' = TRUE
    /\ UNCHANGED <<generation, setupRuns, lastRun, running, waiting, unread, rung, records, notify>>

RevealSees ==
    /\ revealing
    /\ revealing' = FALSE /\ unread' = FALSE
    /\ UNCHANGED <<generation, setupRuns, lastRun, running, waiting, rung, records, shown, notify>>

RevealOther ==
    /\ shown /\ ~revealing
    /\ shown' = FALSE
    /\ UNCHANGED <<generation, setupRuns, lastRun, running, waiting, unread, rung, records, revealing, notify>>

Input ==
    /\ waiting' = FALSE /\ unread' = FALSE /\ rung' = FALSE
    /\ UNCHANGED <<generation, setupRuns, lastRun, running, records, shown, revealing, notify>>

\* exitWithProvider: of a run, or of a runner that never announced one.
Exit(state) ==
    /\ IF running
         THEN /\ records' = Finished({IF r.run = lastRun /\ r.id = RootAgent
                                        THEN [r EXCEPT !.state = state] ELSE r : r \in records})
              /\ UNCHANGED <<setupRuns, lastRun>>
         ELSE /\ setupRuns < MaxSetups
              /\ setupRuns' = setupRuns + 1
              /\ lastRun' = Setup(setupRuns + 1)
              /\ records' = KeepOnly(records, lastRun) \cup {RootOf(Setup(setupRuns + 1), state)}
    /\ running' = FALSE /\ waiting' = FALSE
    /\ UNCHANGED <<generation, unread, rung, shown, revealing, notify>>

ActivityNext ==
    \/ \E g \in 1..MaxGen : Begin(g)
    \/ \E g \in 1..MaxGen, id \in Agent, named \in Agent \cup {RootAgent} :
         LifecycleStart(g, id, named) \/ LifecycleStop(g, id, named)
    \/ \E h \in Handler :
         \/ \E g \in 1..MaxGen, value \in {"waiting", "working", "turn-ended"} : Attention(h, g, value)
         \/ Looks(h) \/ Sees(h)
         \/ \E silent \in BOOLEAN : Rings(h, silent)
    \/ Reveal \/ RevealSees \/ RevealOther \/ Input
    \/ \E state \in {"done", "failed"} : Exit(state)

ActivitySpec == ActivityInit /\ [][ActivityNext]_actVars

-----------------------------------------------------------------------------
\* The variables hold what the code's own types let them hold.
ActivityTypeOK ==
    /\ generation \in Runs /\ lastRun \in Runs
    /\ records \subseteq Record
    /\ {running, waiting, unread, rung, shown, revealing} \subseteq BOOLEAN

\* The tree stays a tree of the runs it is drawn for: whatever is capped, every agent
\* hangs off one that is still there; what a run that is over reports late joins no
\* tree; and nothing outside the run under way is live.
TreeIsWhole ==
    \A r \in records :
        /\ \E p \in records : p.run = r.run /\ p.id = r.parent
        /\ r.gen = Generation(r.run)
        /\ r.state = "live" => running /\ r.run = generation

\* An unread mark says the user has not looked: with the session on screen, and neither
\* the reveal nor a handler half-way through, there is none.
UnreadMeansAway ==
    /\ shown /\ ~revealing
    /\ \A h \in Handler : notify[h] \in {"idle", "ringing"}
    => ~unread
=============================================================================
