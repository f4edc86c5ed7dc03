----------------------------- MODULE Escalation -----------------------------
(***************************************************************************)
(* The repository picker over a live session: the agent's escalate calls      *)
(* (mcpserver/windows.go), the request the workbench keeps for the session     *)
(* (desktop/session.go, desktop/picker.go), and what the page answers         *)
(* (desktop/picker.go, assembly/picker.go).                                  *)
(*                                                                         *)
(* A call leaves a request and polls the manifest for an outcome written      *)
(* after it asked.  An answer reads the request, works for minutes without a   *)
(* lock, writes the outcome, and clears whatever request there is by then.     *)
(* The page draws the picker anew whenever another overlay has covered it, so   *)
(* a second answer may start while one is under way.                         *)
(***************************************************************************)
EXTENDS Naturals

CONSTANTS
    Call,       \* the agent's calls of the escalate tool
    Answer      \* confirms and cancels the page sends

CONSTANTS
    Header,     \* the request the session header makes, which never expires
    Nobody      \* no request

ASSUME RequestAssumption == Header \notin Call /\ Nobody \notin Call /\ Header # Nobody

VARIABLES
    mode,       \* the manifest's mode
    stanza,     \* the outcome in the manifest
    runner,     \* the mode the runner was launched in: an RPI one has no escalate tool
    picker,     \* the request the session keeps
    click,      \* the header's Escalate has read an assistant manifest
    sent,       \* requests on the control socket
    expired,    \* calls whose deadline has passed
    call,       \* where each call has got to
    answer,     \* where each answer has got to, and the request it read
    since,      \* outcomes written since each call asked
    gave        \* outcomes written for each call's own request

manifest == <<mode, stanza>>
calls    == <<sent, expired, call>>
ghosts   == <<since, gave>>
vars     == <<manifest, runner, picker, click, calls, answer, ghosts>>

Modes   == {"assistant", "rpi"}
Outcome == {"confirmed", "cancelled"}
Request == Call \cup {Header, Nobody}
Waiting == {"asking", "polling"}

TypeOK ==
    /\ mode \in Modes /\ runner \in Modes
    /\ stanza \in Outcome \cup {"none"}
    /\ picker \in Request
    /\ click \in BOOLEAN
    /\ sent \subseteq Call /\ expired \subseteq Call
    /\ call \in [Call -> Waiting \cup Outcome \cup {"idle", "timeout", "failed", "gone"}]
    /\ answer \in [Answer -> [at : {"idle", "composing", "cancelling", "clear", "done", "failed"},
                              req : Request]]
    /\ since \in [Call -> SUBSET Outcome]
    /\ gave \in [Call -> SUBSET Outcome]

\* A session the workbench runs, which may have escalated and come back before.
Init ==
    /\ mode \in Modes /\ runner = mode
    /\ stanza \in Outcome \cup {"none"}
    /\ picker = Nobody /\ click = FALSE
    /\ sent = {} /\ expired = {}
    /\ call = [c \in Call |-> "idle"]
    /\ answer = [a \in Answer |-> [at |-> "idle", req |-> Nobody]]
    /\ since = [c \in Call |-> {}] /\ gave = [c \in Call |-> {}]

\* A request whose deadline has passed is as good as none.
Pending == IF picker \in expired THEN Nobody ELSE picker

-----------------------------------------------------------------------------
(* The agent's call.                                                        *)

Goes(c, from, to) == call[c] = from /\ call' = [call EXCEPT ![c] = to]

Escalate(c) ==
    /\ runner = "assistant"
    /\ Goes(c, "idle", "asking")
    /\ sent' = sent \cup {c}
    /\ UNCHANGED <<manifest, runner, picker, click, expired, answer, ghosts>>

\* The workbench takes a request whether or not the caller still waits for it.
QueuePicker(c) ==
    /\ c \in sent
    /\ sent' = sent \ {c}
    /\ picker' = c
    /\ UNCHANGED <<manifest, runner, click, expired, call, answer, ghosts>>

Accepted(c) ==
    /\ c \notin sent
    /\ Goes(c, "asking", "polling")
    /\ UNCHANGED <<manifest, runner, picker, click, sent, expired, answer, ghosts>>

\* The socket call fails, before or after the request got through.
NotAccepted(c) ==
    /\ Goes(c, "asking", "failed")
    /\ sent' \in {sent, sent \ {c}}
    /\ UNCHANGED <<manifest, runner, picker, click, expired, answer, ghosts>>

\* The deadline the request carries, and the timer the call starts a little later.
Deadline(c) ==
    /\ call[c] # "idle" /\ c \notin expired
    /\ expired' = expired \cup {c}
    /\ UNCHANGED <<manifest, runner, picker, click, sent, call, answer, ghosts>>

TimedOut(c) ==
    /\ c \in expired
    /\ Goes(c, "polling", "timeout")
    /\ UNCHANGED <<manifest, runner, picker, click, sent, expired, answer, ghosts>>

\* Mutant: any outcome in the manifest will do.
PolledOld(c) ==
    /\ stanza # "none"
    /\ Goes(c, "polling", stanza)
    /\ UNCHANGED <<manifest, runner, picker, click, sent, expired, answer, ghosts>>

\* escalationOutcome: the manifest holds an outcome written after the call asked.
Polled(c) ==
    /\ since[c] # {}
    /\ Goes(c, "polling", stanza)
    /\ UNCHANGED <<manifest, runner, picker, click, sent, expired, answer, ghosts>>

Abandoned(c) ==
    /\ call[c] \in Waiting /\ call' = [call EXCEPT ![c] = "gone"]
    /\ UNCHANGED <<manifest, runner, picker, click, sent, expired, answer, ghosts>>

\* The supervisor starts the runner anew, and its calls go with the old one.
Relaunch ==
    /\ runner' = mode
    /\ call' = [c \in Call |-> IF call[c] \in Waiting THEN "gone" ELSE call[c]]
    /\ UNCHANGED <<manifest, picker, click, sent, expired, answer, ghosts>>

\* Mutant: going back leaves the manifest without a mode.
SetModeUnset ==
    /\ mode' = "none"
    /\ UNCHANGED <<stanza, runner, picker, click, calls, answer, ghosts>>

\* The mode verb of an RPI session that goes back.
SetMode ==
    /\ mode' = "assistant"
    /\ UNCHANGED <<stanza, runner, picker, click, calls, answer, ghosts>>

-----------------------------------------------------------------------------
(* The session header.                                                      *)

HeaderEscalate ==
    /\ mode = "assistant" /\ click' = TRUE
    /\ UNCHANGED <<manifest, runner, picker, calls, answer, ghosts>>

HeaderQueues ==
    /\ click /\ click' = FALSE
    /\ picker' = Header
    /\ UNCHANGED <<manifest, runner, calls, answer, ghosts>>

-----------------------------------------------------------------------------
(* The page's answers.                                                      *)

Starts(a, at) ==
    /\ answer[a].at = "idle"
    /\ answer' = [answer EXCEPT ![a] = [at |-> at, req |-> Pending]]
    /\ UNCHANGED <<manifest, runner, picker, click, calls, ghosts>>

\* Confirm reads the request and composes the repositories without any lock.
Confirm(a) == Starts(a, "composing")
Cancel(a)  == Starts(a, "cancelling")

\* A refused draft, a clone that fails, or a manifest that cannot be written.
Refused(a) ==
    /\ answer[a].at \in {"composing", "cancelling"}
    /\ answer' = [answer EXCEPT ![a].at = "failed"]
    /\ UNCHANGED <<manifest, runner, picker, click, calls, ghosts>>

\* An outcome goes into the manifest under its lock, unless the request read was none.
Writes(a, outcome) ==
    LET req == answer[a].req
    IN  /\ IF req = Nobody THEN UNCHANGED <<stanza, ghosts>>
           ELSE /\ stanza' = outcome
                /\ since' = [c \in Call |-> IF call[c] = "idle" THEN since[c]
                                            ELSE since[c] \cup {outcome}]
                /\ gave' = [c \in Call |-> IF c = req THEN gave[c] \cup {outcome} ELSE gave[c]]
        /\ answer' = [answer EXCEPT ![a].at = "clear"]
        /\ UNCHANGED <<runner, picker, click, calls>>

Confirmed(a) ==
    /\ answer[a].at = "composing"
    /\ mode' = IF answer[a].req = Nobody THEN mode ELSE "rpi"
    /\ Writes(a, "confirmed")

Cancelled(a) ==
    /\ answer[a].at = "cancelling"
    /\ Writes(a, "cancelled")
    /\ UNCHANGED mode

\* Mutant: only a confirm clears the request.
ClearConfirmed(a) ==
    /\ answer[a].at = "clear"
    /\ answer' = [answer EXCEPT ![a].at = "done"]
    /\ picker' = IF stanza = "confirmed" THEN Nobody ELSE picker
    /\ UNCHANGED <<manifest, runner, click, calls, ghosts>>

ClearPicker(a) ==
    /\ answer[a].at = "clear"
    /\ answer' = [answer EXCEPT ![a].at = "done"]
    /\ picker' = Nobody
    /\ UNCHANGED <<manifest, runner, click, calls, ghosts>>

Settles(c) == Accepted(c) \/ Deadline(c) \/ TimedOut(c) \/ Polled(c) \/ QueuePicker(c)

Next ==
    \/ \E c \in Call : Escalate(c) \/ Settles(c) \/ NotAccepted(c) \/ Abandoned(c)
    \/ Relaunch \/ SetMode \/ HeaderEscalate \/ HeaderQueues
    \/ \E a \in Answer : \/ Confirm(a) \/ Cancel(a) \/ Refused(a)
                         \/ Confirmed(a) \/ Cancelled(a) \/ ClearPicker(a)

Spec == Init /\ [][Next]_vars

-----------------------------------------------------------------------------
(* What the picker promises.                                                *)

\* A call is told of an answer only if one of that kind was given after it asked,
\* never of the outcome an earlier escalation left in the manifest.
ToldWhatHappened == \A c \in Call : call[c] \in Outcome => call[c] \in since[c]

\* "Arriving at the session again must not redraw a picker that has been answered":
\* a request no answer under way is about is gone once one has been given for it.
AnsweredIsCleared ==
    \A c \in Call :
        gave[c] # {} /\ (\A a \in Answer : answer[a].at # "clear") => picker # c

\* "The picker is still open; the user hasn't confirmed or cancelled yet.": until a
\* call's deadline, the user has answered or still has a picker to answer.
PickerStaysOpen ==
    \A c \in Call :
        call[c] = "polling" /\ c \notin expired /\ (\A a \in Answer : answer[a].at # "clear")
        => since[c] # {} \/ Pending # Nobody
=============================================================================
