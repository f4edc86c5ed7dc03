------------------------------ MODULE Diagrams ------------------------------
(***************************************************************************)
(* The drawing of d2 fences: internal/diagram/render.go and the desktop's  *)
(* diagramWorker over it, internal/desktop/diagrams.go.  Opening a         *)
(* document starts a Run that offers its fences one by one; the renderer   *)
(* is one goroutine with one font ruler, a budget for each drawing and a   *)
(* cache of verdicts; quitting cancels what is under way, waits for the    *)
(* runs and closes the renderer.                                           *)
(***************************************************************************)
EXTENDS Naturals, Sequences, FiniteSets

CONSTANTS
    Run,            \* the goroutines layOut starts, one for a document opened
    Fence,          \* the sources of the fences
    NoRun,
    CacheLimit      \* cacheEntries

CacheLimitAssumption == CacheLimit \in Nat \ {0}

VARIABLES
    run,        \* where each run is, the fences it has still to lay out, and its reply
    worker,     \* the renderer's goroutine: where it is and whom it serves
    ruler,      \* the ruler it keeps, or 0
    drawing,    \* the goroutines measuring, each with its ruler
    cause,      \* why the context of the drawing under way ended, or "none"
    cache,      \* the verdicts kept, oldest first
    overran,    \* the fences whose own budget ran out once
    quit        \* how far diagramWorker.stop has come

diagramVars ==
    <<run, worker, ruler, drawing, cause, cache, overran, quit>>

Verdict == {"drawn", "late"}
Nothing == "nothing"

Idle == [at |-> "idle", left |-> <<>>, reply |-> Nothing]

\* closed is set first, then the context is cancelled, then the runs are
\* waited for and the renderer told to close.
Closed    == quit # "no"
Cancelled == quit \in {"cancelled", "closing", "over"}
Closing   == quit \in {"closing", "over"}

Active == {r \in Run : run[r].at \in {"sending", "parked", "answered"}}

\* None, one or two fences of a document's.
Fences == {<<>>} \cup {<<f>> : f \in Fence} \cup {s \in [1 .. 2 -> Fence] : s[1] # s[2]}

Init ==
    /\ run = [r \in Run |-> Idle]
    /\ worker = [at |-> "free", for |-> NoRun]
    /\ ruler = 0
    /\ drawing = {}
    /\ cause = "none"
    /\ cache = <<>>
    /\ overran = {}
    /\ quit = "no"

Seen(f)   == \E i \in DOMAIN cache : cache[i].of = f
KeptOf(f) == cache[CHOOSE i \in DOMAIN cache : cache[i].of = f].verdict

\* A drawing is served at once, a refusal is asked for again.
Hit(f)    == Seen(f) /\ KeptOf(f) = "drawn"

\* The oldest goes out once the cache is full.
With(f, v) ==
    IF Seen(f) THEN cache
    ELSE Append(IF Len(cache) >= CacheLimit THEN Tail(cache) ELSE cache,
                [of |-> f, verdict |-> v])

----------------------------------------------------------------------------
(* A document is opened: the fences the cache has drawn are served, and its  *)
(* others, the misses, are laid out unless the worker is stopping.          *)

Open(r) ==
    /\ run[r].at = "idle"
    /\ \E misses \in Fences :
          /\ \A i \in DOMAIN misses : ~Hit(misses[i])
          /\ run' = [run EXCEPT ![r] =
                       IF Closed \/ misses = <<>> THEN [@ EXCEPT !.at = "done"]
                       ELSE [@ EXCEPT !.at = "sending", !.left = misses]]
    /\ UNCHANGED <<worker, ruler, drawing, cause, cache, overran, quit>>

\* The jobs channel has no buffer: the worker takes what a run is offering.
TakeJob(r) ==
    /\ run[r].at = "sending"
    /\ worker.at = "free"
    /\ run' = [run EXCEPT ![r].at = "parked", ![r].reply = Nothing]
    /\ worker' = [at |-> "looking", for |-> r]
    /\ UNCHANGED <<ruler, drawing, cause, cache, overran, quit>>

\* A run whose context is over leaves, its offer not taken or not answered;
\* one that finds the renderer closing is answered with Canceled.
Leave(r) ==
    /\ run[r].at \in {"sending", "parked"}
    /\ Cancelled \/ (run[r].at = "sending" /\ Closing)
    /\ run' = [run EXCEPT ![r].at = "answered", ![r].reply = Nothing]
    /\ UNCHANGED <<worker, ruler, drawing, cause, cache, overran, quit>>

Answered(r) ==
    /\ run[r].at = "parked"
    /\ run[r].reply # Nothing
    /\ run' = [run EXCEPT ![r].at = "answered"]
    /\ UNCHANGED <<worker, ruler, drawing, cause, cache, overran, quit>>

\* A quit keeps the answer from the page, and the rest undrawn.
Emit(r) ==
    /\ run[r].at = "answered"
    /\ IF Cancelled
       THEN run' = [run EXCEPT ![r].at = "done"]
       ELSE run' = [run EXCEPT ![r] =
                      [at    |-> IF Len(@.left) = 1 THEN "done" ELSE "sending",
                       left  |-> Tail(@.left),
                       reply |-> Nothing]]
    /\ UNCHANGED <<worker, ruler, drawing, cause, cache, overran, quit>>

----------------------------------------------------------------------------
(* The renderer's goroutine.                                                *)

Source == Head(run[worker.for].left)

\* Mutant: the reply has no buffer, and waits for a run that may have left.
RoomUnbuffered(r) == run[r].at = "parked"
\* Every job brings a channel with room for its one answer.
Room(r) == r \in Run

\* The answer reaches a run still parked; one that left does not read it.
Reply(v) ==
    LET r == worker.for IN
    /\ Room(r)
    /\ run' = [run EXCEPT ![r].reply = IF run[r].at = "parked" THEN v ELSE @]
    /\ worker' = [at |-> "free", for |-> NoRun]

AnswerKept ==
    /\ worker.at = "looking"
    /\ Seen(Source)
    /\ Reply(KeptOf(Source))
    /\ UNCHANGED <<ruler, drawing, cause, cache, overran, quit>>

\* A ruler nothing holds.
NewRuler ==
    CHOOSE n \in 1 .. Cardinality(drawing) + 1 : \A d \in drawing : d.ruler # n

\* The drawing's context is over from the start when the quit's already is.
Draw ==
    /\ worker.at = "looking"
    /\ ~Seen(Source)
    /\ ruler' = IF ruler = 0 THEN NewRuler ELSE ruler
    /\ drawing' = drawing \cup {[ruler |-> ruler', of |-> Source, awaited |-> TRUE]}
    /\ cause' = IF Cancelled THEN "cancelled" ELSE "none"
    /\ worker' = [worker EXCEPT !.at = "drawing"]
    /\ UNCHANGED <<run, cache, overran, quit>>

Awaited == CHOOSE d \in drawing : d.awaited

Drawn ==
    /\ worker.at = "drawing"
    /\ cache' = With(Awaited.of, "drawn")
    /\ drawing' = drawing \ {Awaited}
    /\ cause' = "none"
    /\ Reply("drawn")
    /\ UNCHANGED <<ruler, overran, quit>>

BudgetSpent ==
    /\ worker.at = "drawing"
    /\ cause = "none"
    /\ cause' = "deadline"
    /\ overran' = overran \cup {Awaited.of}
    /\ UNCHANGED <<run, worker, ruler, drawing, cache, quit>>

\* Mutant: the ruler is kept for the next diagram.
RulerAfterKept == ruler
\* The goroutine left behind goes on measuring against its ruler.
RulerAfter == 0

\* Mutant: whatever ended the drawing is the source's verdict.
IsVerdictAlways(why) == why # "none"
\* A caller that walked away is not a verdict on the source.
IsVerdict(why) == why = "deadline"

GiveUp ==
    /\ worker.at = "drawing"
    /\ cause # "none"
    /\ ruler' = RulerAfter
    /\ drawing' = (drawing \ {Awaited}) \cup {[Awaited EXCEPT !.awaited = FALSE]}
    /\ cache' = IF IsVerdict(cause) THEN With(Awaited.of, "late") ELSE cache
    /\ cause' = "none"
    /\ Reply("late")
    /\ UNCHANGED <<overran, quit>>

LeftBehindEnds ==
    /\ \E d \in drawing : ~d.awaited /\ drawing' = drawing \ {d}
    /\ UNCHANGED <<run, worker, ruler, cause, cache, overran, quit>>

WorkerStops ==
    /\ worker.at = "free"
    /\ Closing
    /\ worker' = [worker EXCEPT !.at = "stopped"]
    /\ UNCHANGED <<run, ruler, drawing, cause, cache, overran, quit>>

----------------------------------------------------------------------------
(* stop                                                                     *)

SetClosed ==
    /\ quit = "no"
    /\ quit' = "closed"
    /\ UNCHANGED <<run, worker, ruler, drawing, cause, cache, overran>>

Cancel ==
    /\ quit = "closed"
    /\ quit' = "cancelled"
    /\ cause' = IF worker.at = "drawing" /\ cause = "none" THEN "cancelled" ELSE cause
    /\ UNCHANGED <<run, worker, ruler, drawing, cache, overran>>

CloseRenderer ==
    /\ quit = "cancelled"
    /\ Active = {}
    /\ quit' = "closing"
    /\ UNCHANGED <<run, worker, ruler, drawing, cause, cache, overran>>

Stopped ==
    /\ quit = "closing"
    /\ worker.at = "stopped"
    /\ quit' = "over"
    /\ UNCHANGED <<run, worker, ruler, drawing, cause, cache, overran>>

WorkerStep == AnswerKept \/ Draw \/ Drawn \/ BudgetSpent \/ GiveUp \/ WorkerStops
RunStep(r) == TakeJob(r) \/ Leave(r) \/ Answered(r) \/ Emit(r)
StopStep   == Cancel \/ CloseRenderer \/ Stopped

Next ==
    \/ \E r \in Run : Open(r) \/ RunStep(r)
    \/ WorkerStep
    \/ LeftBehindEnds
    \/ SetClosed
    \/ StopStep

\* Goroutines are scheduled and the budget's timer fires; nothing makes a
\* layout end by itself.
DiagramsFairSpec ==
    /\ Init /\ [][Next]_diagramVars
    /\ \A r \in Run : WF_diagramVars(RunStep(r))
    /\ WF_diagramVars(WorkerStep)
    /\ WF_diagramVars(StopStep)

----------------------------------------------------------------------------

\* The variables hold what the Go types say.
DiagramsTypeOK ==
    /\ \A r \in Run :
          /\ run[r].at \in {"idle", "sending", "parked", "answered", "done"}
          /\ run[r].left \in Seq(Fence)
          /\ run[r].reply \in Verdict \cup {Nothing}
    /\ worker \in [at : {"free", "looking", "drawing", "stopped"}, for : Run \cup {NoRun}]
    /\ ruler \in Nat
    /\ drawing \subseteq [ruler : Nat \ {0}, of : Fence, awaited : BOOLEAN]
    /\ cause \in {"none", "deadline", "cancelled"}
    /\ cache \in Seq([of : Fence, verdict : Verdict])
    /\ overran \subseteq Fence
    /\ quit \in {"no", "closed", "cancelled", "closing", "over"}

\* The ruler the renderer keeps is measured against by the drawing it waits
\* for and by nobody else, however many drawings it has given up on.
RulerIsAlone ==
    \A d \in drawing :
        /\ d.ruler = ruler => d.awaited
        /\ d.awaited => \A e \in drawing : e.ruler = d.ruler => e = d

\* A source is remembered as too slow, and a document told so, only after its
\* own budget ran out: a quit that ends a drawing says nothing of the source.
LateIsTheSources ==
    /\ \A i \in DOMAIN cache : cache[i].verdict = "late" => cache[i].of \in overran
    /\ \A r \in Run : run[r].at = "answered" /\ ~Cancelled =>
          /\ run[r].reply # Nothing
          /\ run[r].reply = "late" => Head(run[r].left) \in overran

\* A quit gets through whatever is being laid out: it never waits for a
\* drawing that no longer ends.
QuitIsOver == Closed => quit = "over"
QuitEnds   == <>[]QuitIsOver

\* Every fence a document is missing is drawn or refused in the end, unless
\* the desktop is quitting.
FencesAreTold    == \A r \in Run : run[r].at \in {"idle", "done"} \/ Closed
EveryFenceIsTold == <>[]FencesAreTold
=============================================================================
