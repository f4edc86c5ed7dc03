------------------------------- MODULE Launch -------------------------------
(***************************************************************************)
(* One workbench at a time, and the tickets handed to it.                    *)
(*                                                                         *)
(* A command line (main.go) looks for a running workbench under the launch   *)
(* lock.  With a ticket it offers it to the one it finds; otherwise it starts *)
(* one and waits, still under the lock, for it to publish itself.  A workbench *)
(* may also replace itself, and carries its pending ticket along after first   *)
(* run.  The hold of a ticket on the New session overlay is assembly/offer.go, *)
(* without its generations.                                                 *)
(*                                                                         *)
(* Time is left out: a deadline may pass whenever something waits for it.      *)
(***************************************************************************)
EXTENDS FiniteSets, Naturals

CONSTANTS
    Invocation,     \* command lines
    Workbench,      \* workbench processes, each started once
    Ticket,
    None,
    Manual,         \* a draft opened by hand
    MayOrphan       \* whether one that waits for the workbench it started may die meanwhile

NamesAssumption ==
    /\ None \notin Invocation \cup Workbench \cup Ticket
    /\ Invocation \cap Workbench = {} /\ Manual \notin Ticket \cup {None}
OrphanAssumption == MayOrphan \in BOOLEAN

VARIABLES
    lock,       \* who holds the launch lock
    descriptor, \* the workbench the published descriptor names
    call,       \* each command line: its ticket, where it is, and the workbench it deals with
    offer,      \* what the workbench has made of the ticket offered to it
    wb,         \* the workbenches
    welcomed,   \* the config file's marker of the first run
    made,       \* tickets with a session on disk
    settled     \* tickets nothing is owed for: shown, dismissed, or held where the user or a crash ended it

vars == <<lock, descriptor, call, offer, wb, welcomed, made, settled>>

Over    == {"ok", "failed"}
Blank   == [life |-> "none", seed |-> None, pending |-> None, draft |-> None, gate |-> FALSE,
            move |-> "no", carries |-> FALSE, child |-> None]

TypeOK ==
    /\ lock \in Invocation \cup Workbench \cup {None}
    /\ descriptor \in Workbench \cup {None}
    /\ call \in [Invocation -> [ticket : Ticket \cup {None}, at : Workbench \cup {None},
            pc : {"idle", "look", "sweep", "launch", "wait", "offer"} \cup Over]]
    /\ offer \in [Invocation -> {"none", "sent", "scan", "take", "accepted", "refused"}]
    /\ wb \in [Workbench -> [life : {"none", "starting", "serving", "up", "leaving", "unpublished", "gone"},
            seed : Ticket \cup {None}, pending : Ticket \cup {None},
            draft : Ticket \cup {None, Manual}, gate : BOOLEAN,
            move : {"no", "asks", "locked", "waits", "handed"}, carries : BOOLEAN,
            child : Workbench \cup {None}]]
    /\ welcomed \in BOOLEAN /\ made \subseteq Ticket /\ settled \subseteq Ticket
    /\ \A w \in Workbench : wb[w].pending # None => wb[w].draft = None

Init ==
    /\ lock = None /\ descriptor = None
    /\ call \in [Invocation -> [ticket : Ticket \cup {None}, at : {None}, pc : {"idle"}]]
    /\ offer = [i \in Invocation |-> "none"]
    /\ wb = [w \in Workbench |-> Blank]
    /\ welcomed \in BOOLEAN /\ made \in SUBSET Ticket /\ settled = {}

Answers(w)  == wb[w].life \in {"serving", "up", "leaving", "unpublished"}
Alive(w)    == wb[w].life \notin {"none", "gone"}
Holding(w)  == {wb[w].seed, wb[w].pending, wb[w].draft} \cap Ticket
Fresh       == {w \in Workbench : wb[w].life = "none"}
Starts(w)   == w = CHOOSE v \in Fresh : TRUE      \* names mean nothing

\* Bound: whatever goes for the lock finds a workbench left to start.
Spare ==
    Cardinality(Fresh) > Cardinality({i \in Invocation : call[i].pc \notin Over \cup {"idle"}})
                         + Cardinality({w \in Workbench : wb[w].move \in {"asks", "locked"}})

Goes(i, pc)     == call' = [call EXCEPT ![i].pc = pc]
Releases(x)     == lock' = IF lock = x THEN None ELSE lock
Returns(i, pc)  == Goes(i, pc) /\ Releases(i)

Gone            == [Blank EXCEPT !.life = "gone"]

\* A process that ends takes its flock and its listener with it; the descriptor stays.
Dies(w)         == wb' = [wb EXCEPT ![w] = Gone]

-----------------------------------------------------------------------------
(* The command line.                                                         *)

Lock(i) ==
    /\ call[i].pc = "idle" /\ Spare /\ lock = None /\ lock' = i /\ Goes(i, "look")
    /\ UNCHANGED <<descriptor, offer, wb, welcomed, made, settled>>

\* discover, its first half: the published workbench, if it answers.
Discover(i) ==
    /\ call[i].pc = "look"
    /\ IF descriptor # None /\ Answers(descriptor)
       THEN /\ IF call[i].ticket = None THEN Returns(i, "failed") /\ UNCHANGED offer
               ELSE /\ call' = [call EXCEPT ![i].pc = "offer", ![i].at = descriptor]
                    /\ offer' = [offer EXCEPT ![i] = "sent"]
                    /\ UNCHANGED lock
            /\ UNCHANGED descriptor
       ELSE descriptor' = None /\ Goes(i, "sweep") /\ UNCHANGED <<lock, offer>>
    /\ UNCHANGED <<wb, welcomed, made, settled>>

\* Mutant: only a published workbench counts.
SweepNothing(i) ==
    /\ call[i].pc = "sweep" /\ Goes(i, "launch")
    /\ UNCHANGED <<lock, descriptor, offer, wb, welcomed, made, settled>>

\* Its second half: a workbench that answers and is not published refuses both.
Sweep(i) ==
    /\ call[i].pc = "sweep"
    /\ IF \E w \in Workbench : Answers(w) THEN Returns(i, "failed")
       ELSE Goes(i, "launch") /\ UNCHANGED lock
    /\ UNCHANGED <<descriptor, offer, wb, welcomed, made, settled>>

Starting(seed, gate) == [Blank EXCEPT !.life = "starting", !.seed = seed, !.gate = gate]

\* Detach: the workbench runs in a session of its own.  One without a ticket opens on
\* the last session, if there is one, and so without the first-run overlay.
Detach(i) ==
    /\ call[i].pc = "launch"
    /\ \E w \in Fresh, gate \in {~welcomed} \cup (IF call[i].ticket = None THEN {FALSE} ELSE {}) :
          /\ Starts(w)
          /\ wb' = [wb EXCEPT ![w] = Starting(call[i].ticket, gate)]
          /\ call' = [call EXCEPT ![i].pc = "wait", ![i].at = w]
    /\ UNCHANGED <<lock, descriptor, offer, welcomed, made, settled>>

\* waitReady: the child is published and answers, or has exited.
Ready(w) == descriptor = w /\ Answers(w)

Waited(i) ==
    /\ call[i].pc = "wait"
    /\ \/ Ready(call[i].at) /\ Returns(i, "ok")
       \/ wb[call[i].at].life = "gone" /\ Returns(i, "failed")
    /\ UNCHANGED <<descriptor, offer, wb, welcomed, made, settled>>

\* Or the deadline passes, and it is killed.
TimedOut(i) ==
    /\ call[i].pc = "wait" /\ Dies(call[i].at) /\ Returns(i, "failed")
    /\ UNCHANGED <<descriptor, offer, welcomed, made, settled>>

\* The answer, or none: the workbench is gone, or it took longer than CallTimeout.
Replied(i) ==
    /\ call[i].pc = "offer"
    /\ \/ offer[i] = "accepted" /\ Returns(i, "ok")
       \/ offer[i] = "refused" /\ Returns(i, "failed")
    /\ offer' = [offer EXCEPT ![i] = "none"]
    /\ UNCHANGED <<descriptor, wb, welcomed, made, settled>>

Unanswered(i) ==
    /\ call[i].pc = "offer" /\ Returns(i, "failed")
    /\ UNCHANGED <<descriptor, offer, wb, welcomed, made, settled>>

\* The user's interrupt, or a closed terminal, before it asked anything of a workbench.
Interrupted(i) ==
    /\ call[i].pc \in {"look", "sweep", "launch"} \cup (IF MayOrphan THEN {"wait"} ELSE {})
    /\ Returns(i, "failed")
    /\ UNCHANGED <<descriptor, offer, wb, welcomed, made, settled>>

Invokes(i) ==
    Discover(i) \/ Sweep(i) \/ Detach(i) \/ Waited(i) \/ Replied(i)

-----------------------------------------------------------------------------
(* A workbench's start, in the order of run.                                  *)

Serve(w) ==
    /\ wb[w].life = "starting" /\ wb' = [wb EXCEPT ![w].life = "serving"]
    /\ UNCHANGED <<lock, descriptor, call, offer, welcomed, made, settled>>

\* Its own ticket is offered before anybody can find it.
StartupOffer(w) ==
    LET t == wb[w].seed
    IN  /\ wb[w].life = "serving" /\ t # None
        /\ IF t \in made
           THEN /\ wb' = [wb EXCEPT ![w].seed = None, ![w].gate = FALSE]
                /\ settled' = settled \cup {t}
           ELSE wb' = [wb EXCEPT ![w].seed = None, ![w].pending = t] /\ UNCHANGED settled
        /\ UNCHANGED <<lock, descriptor, call, offer, welcomed, made>>

Publish(w) ==
    /\ wb[w].life = "serving" /\ wb[w].seed = None
    /\ wb' = [wb EXCEPT ![w].life = "up"] /\ descriptor' = w
    /\ UNCHANGED <<lock, call, offer, welcomed, made, settled>>

-----------------------------------------------------------------------------
(* The overlay's hold, in the workbench a ticket was offered to.              *)

\* Offers.held: what the hold alone answers.
Held(w, t) ==
    IF wb[w].draft # None THEN IF wb[w].draft = t THEN "accepted" ELSE "refused"
    ELSE IF wb[w].pending # None THEN IF wb[w].pending = t THEN "accepted" ELSE "refused"
    ELSE "free"

Offered(i, step) == offer[i] = step /\ Answers(call[i].at)

OfferHeld(i) ==
    /\ Offered(i, "sent")
    /\ LET held == Held(call[i].at, call[i].ticket)
       IN  offer' = [offer EXCEPT ![i] = IF held = "free" THEN "scan" ELSE held]
    /\ UNCHANGED <<lock, descriptor, call, wb, welcomed, made, settled>>

\* SessionFor, off the lock: a session that has the ticket is shown, which may fail.
OfferScan(i) ==
    LET w == call[i].at  t == call[i].ticket
    IN  /\ Offered(i, "scan")
        /\ IF t \notin made THEN offer' = [offer EXCEPT ![i] = "take"] /\ UNCHANGED <<wb, settled>>
           ELSE \/ /\ offer' = [offer EXCEPT ![i] = "accepted"]
                   /\ wb' = [wb EXCEPT ![w].gate = FALSE]
                   /\ settled' = settled \cup {t}
                \/ offer' = [offer EXCEPT ![i] = "refused"] /\ UNCHANGED <<wb, settled>>
        /\ UNCHANGED <<lock, descriptor, call, welcomed, made>>

\* Whether the user, or a settings restart, has ended it already.
LetGo(w) == wb[w].life \in {"leaving", "unpublished"} /\ ~(wb[w].move = "handed" /\ wb[w].carries)

\* Mutant: the ticket is queued without deciding again.
TakeUndecided(i) ==
    LET w == call[i].at  t == call[i].ticket
    IN  /\ Offered(i, "take")
        /\ offer' = [offer EXCEPT ![i] = "accepted"]
        /\ wb' = [wb EXCEPT ![w].pending = t]
        /\ settled' = IF LetGo(w) THEN settled \cup {t} ELSE settled
        /\ UNCHANGED <<lock, descriptor, call, welcomed, made>>

\* Offers.Take decides again: another offer may have landed meanwhile.
OfferTake(i) ==
    LET w == call[i].at  t == call[i].ticket  held == Held(call[i].at, call[i].ticket)
    IN  /\ Offered(i, "take")
        /\ IF held = "free"
           THEN /\ offer' = [offer EXCEPT ![i] = "accepted"]
                /\ wb' = [wb EXCEPT ![w].pending = t]
                /\ settled' = IF LetGo(w) THEN settled \cup {t} ELSE settled
           ELSE offer' = [offer EXCEPT ![i] = held] /\ UNCHANGED <<wb, settled>>
        /\ UNCHANGED <<lock, descriptor, call, welcomed, made>>

\* Mutant: the overlay opens on an empty draft and the ticket is dropped.
BeginEmpty(w) ==
    /\ wb[w].life = "up" /\ ~wb[w].gate /\ wb[w].draft = None
    /\ wb' = [wb EXCEPT ![w].draft = Manual, ![w].pending = None]
    /\ UNCHANGED <<lock, descriptor, call, offer, welcomed, made, settled>>

\* The overlay opens, on the pending ticket if there is one.
Begin(w) ==
    /\ wb[w].life = "up" /\ ~wb[w].gate /\ wb[w].draft = None
    /\ wb' = [wb EXCEPT ![w].draft   = IF wb[w].pending = None THEN Manual ELSE wb[w].pending,
                        ![w].pending = None]
    /\ UNCHANGED <<lock, descriptor, call, offer, welcomed, made, settled>>

\* Create: a session with the draft's ticket, or with one typed into it by hand.
Create(w) ==
    /\ wb[w].life = "up" /\ wb[w].draft # None
    /\ \E t \in (IF wb[w].draft = Manual THEN Ticket ELSE {wb[w].draft}) : made' = made \cup {t}
    /\ wb' = [wb EXCEPT ![w].gate = FALSE]
    /\ UNCHANGED <<lock, descriptor, call, offer, welcomed, settled>>

\* The overlay goes, after a session was made or without one.
End(w) ==
    /\ wb[w].life = "up" /\ wb[w].draft # None
    /\ wb' = [wb EXCEPT ![w].draft = None]
    /\ settled' = settled \cup (Ticket \cap {wb[w].draft})
    /\ UNCHANGED <<lock, descriptor, call, offer, welcomed, made>>

-----------------------------------------------------------------------------
(* Replacing a workbench, and its end.                                       *)

\* FirstRun.Save, when the answers need no restart.
Welcome(w) ==
    /\ wb[w].life = "up" /\ wb[w].gate /\ wb[w].move = "no"
    /\ wb' = [wb EXCEPT ![w].gate = FALSE] /\ welcomed' = TRUE
    /\ UNCHANGED <<lock, descriptor, call, offer, made, settled>>

\* FirstRun.Save when they do, which carries the pending ticket, and Settings.Relaunch,
\* which does not.
AskRelaunch(w) ==
    /\ wb[w].life = "up" /\ wb[w].move = "no" /\ Spare
    /\ wb' = [wb EXCEPT ![w].move = "asks", ![w].carries = wb[w].gate]
    /\ welcomed' = (welcomed \/ wb[w].gate)
    /\ UNCHANGED <<lock, descriptor, call, offer, made, settled>>

LockRelaunch(w) ==
    /\ wb[w].life = "up" /\ wb[w].move = "asks" /\ lock = None
    /\ lock' = w /\ wb' = [wb EXCEPT ![w].move = "locked"]
    /\ UNCHANGED <<descriptor, call, offer, welcomed, made, settled>>

\* Mutant: the successor starts without the ticket.
RelaunchBare(w) ==
    /\ wb[w].move = "locked" /\ lock = w
    /\ \E v \in Fresh :
          Starts(v) /\ wb' = [wb EXCEPT ![w].move = "waits", ![w].child = v, ![v] = Starting(None, ~welcomed)]
    /\ UNCHANGED <<lock, descriptor, call, offer, welcomed, made, settled>>

\* The pending ticket is read once the lock is held.
Relaunch(w) ==
    /\ wb[w].move = "locked" /\ lock = w
    /\ \E v \in Fresh :
          Starts(v) /\ wb' = [wb EXCEPT ![w].move = "waits", ![w].child = v,
                           ![v] = Starting(IF wb[w].carries THEN wb[w].pending ELSE None, ~welcomed)]
    /\ UNCHANGED <<lock, descriptor, call, offer, welcomed, made, settled>>

\* The successor answers: the lock goes, and this workbench quits.
Relaunched(w) ==
    /\ wb[w].move = "waits" /\ Ready(wb[w].child)
    /\ wb' = [wb EXCEPT ![w].move = "handed"] /\ Releases(w)
    /\ settled' = settled \cup (IF wb[w].carries THEN Ticket \cap {wb[w].draft} ELSE Holding(w))
    /\ UNCHANGED <<descriptor, call, offer, welcomed, made>>

\* It does not: this workbench carries on.
RelaunchFailed(w) ==
    /\ wb[w].move = "waits"
    /\ wb' = [wb EXCEPT ![w].move = "no", ![wb[w].child] = Gone] /\ Releases(w)
    /\ UNCHANGED <<descriptor, call, offer, welcomed, made, settled>>

\* Its window closes, by the user or after a relaunch.
Quit(w) ==
    /\ wb[w].life = "up" /\ (wb[w].move \in {"locked", "waits"} => MayOrphan)
    /\ wb' = [wb EXCEPT ![w].life = "leaving"]
    /\ settled' = IF wb[w].move = "handed" THEN settled ELSE settled \cup Holding(w)
    /\ UNCHANGED <<lock, descriptor, call, offer, welcomed, made>>

\* Mutant: the descriptor goes whoever it names.
UnpublishAnyone(w) ==
    /\ wb[w].life = "leaving" /\ wb' = [wb EXCEPT ![w].life = "unpublished"]
    /\ descriptor' = None
    /\ UNCHANGED <<lock, call, offer, welcomed, made, settled>>

\* Only while it still names this one.
Unpublish(w) ==
    /\ wb[w].life = "leaving" /\ wb' = [wb EXCEPT ![w].life = "unpublished"]
    /\ descriptor' = IF descriptor = w THEN None ELSE descriptor
    /\ UNCHANGED <<lock, call, offer, welcomed, made, settled>>

Exit(w) ==
    /\ wb[w].life = "unpublished" /\ Dies(w) /\ Releases(w)
    /\ UNCHANGED <<descriptor, call, offer, welcomed, made, settled>>

\* A crash at any time, and a start that fails before it is published.
Crash(w) ==
    /\ Alive(w) /\ (wb[w].move = "waits" => MayOrphan)
    /\ Dies(w) /\ Releases(w)
    /\ settled' = IF wb[w].move = "handed" \/ wb[w].life = "starting" THEN settled
                  ELSE settled \cup Holding(w)
    /\ UNCHANGED <<descriptor, call, offer, welcomed, made>>

Next ==
    \/ \E i \in Invocation :
          \/ Lock(i) \/ Invokes(i) \/ TimedOut(i) \/ Unanswered(i) \/ Interrupted(i)
          \/ OfferHeld(i) \/ OfferScan(i) \/ OfferTake(i)
    \/ \E w \in Workbench :
          \/ Serve(w) \/ StartupOffer(w) \/ Publish(w)
          \/ Begin(w) \/ Create(w) \/ End(w)
          \/ Welcome(w) \/ AskRelaunch(w) \/ LockRelaunch(w) \/ Relaunch(w) \/ Relaunched(w)
          \/ RelaunchFailed(w) \/ Quit(w) \/ Unpublish(w) \/ Exit(w) \/ Crash(w)

Spec == Init /\ [][Next]_vars

-----------------------------------------------------------------------------
(* What a launch promises.                                                   *)

\* There is one workbench: a second one runs only while the first waits for it as its
\* successor, or is on its way out after that.
OneWorkbench ==
    \A w, v \in Workbench :
        w # v /\ Alive(w) /\ Alive(v) =>
            \/ wb[w].move = "handed" \/ wb[v].move = "handed"
            \/ wb[w].move = "waits" /\ wb[w].child = v
            \/ wb[v].move = "waits" /\ wb[v].child = w

\* A workbench on screen can be found by the next command line, through a restart of
\* it and the end of the one before it, unless a successor of its own failed.
Findable ==
    \A w \in Workbench : wb[w].life = "up" => descriptor = w \/ wb[w].child # None

\* A ticket whose command line was told that it was delivered is held by a workbench
\* that goes on, unless nothing is owed for it.
TicketKept ==
    \A i \in Invocation :
        call[i].pc = "ok" /\ call[i].ticket # None =>
            \/ call[i].ticket \in settled
            \/ \E w \in Workbench : /\ Alive(w) /\ wb[w].life \notin {"leaving", "unpublished"}
                                    /\ wb[w].move # "handed" /\ call[i].ticket \in Holding(w)

\* A ticket that waits is never displaced by another: it goes to the draft the overlay
\* opens, or with its workbench.
DisplacesNone ==
    \A w \in Workbench : wb[w].pending # None /\ wb'[w].life # "gone" =>
       \/ wb'[w].pending = wb[w].pending
       \/ wb'[w].pending = None /\ wb'[w].draft = wb[w].pending

NeverDisplaced == [][DisplacesNone]_vars
=============================================================================
