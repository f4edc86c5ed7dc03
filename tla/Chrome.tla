------------------------------- MODULE Chrome -------------------------------
(***************************************************************************)
(* What the window draws around a session: the loop of                     *)
(* desktop/chrome.go that measures the shown session's repositories and    *)
(* fetches its pull requests, while handlers switch sessions and           *)
(* escalations rewrite manifests.  The rail it draws is module Rail.       *)
(*                                                                         *)
(* The loop never waits for git or GitHub: a measurement and a fetch run   *)
(* off it, one of each at a time, and answer on a channel of one.  Other   *)
(* goroutines reach it through `touched`, a channel of one whose extra     *)
(* sends are dropped, and through the set of roots whose repositories      *)
(* changed.  What a root's repositories are is a version; numbers carry    *)
(* the root they were measured for.                                        *)
(***************************************************************************)
EXTENDS Naturals, Sequences, FiniteSets

CONSTANTS Session,      \* the sessions on disk
          NoSession,    \* a window holding none
          MaxChanges,   \* bound: repository changes, all sessions together
          MaxReveals    \* bound: switches of the shown session

ASSUME ChromeAssumption ==
    /\ IsFiniteSet(Session) /\ NoSession \notin Session
    /\ {MaxChanges, MaxReveals} \subseteq Nat

VARIABLES version,      \* of each session's repositories, on disk and in git
          unannounced,  \* sessions whose change has not been told to the registry
          showing,      \* Sessions.showing
          arriving,     \* the session a reveal has yet to mark opened, or {}
          touched,      \* whether Sessions.touched holds its one message
          repoChanges,  \* Sessions.repoChanges
          todo,         \* what the loop has left of the case it took
          measured,     \* watch's `measured`: {} or the one measurement, by root
          measuring,    \* the measurement off the loop, `pending` while there is one
          pulls,        \* watch's `pulls`, by root
          pulling,      \* the fetch off the loop, `pullPending` while there is one
          lastPulled,   \* watch's `lastPulled`
          drawn,        \* the fields last emitted
          spent         \* how much of each bound is used

chromeVars == <<version, unannounced, showing, arriving, touched, repoChanges, todo,
                measured, measuring, pulls, pulling, lastPulled, drawn, spent>>

loopVars  == <<todo, measured, pulls, lastPulled, drawn>>
worldVars == <<version, unannounced, showing, arriving, spent>>

Shown   == Session \cup {NoSession}
Numbers == [of : Session, version : 0..MaxChanges]
Idle    == [root |-> NoSession, at |-> "idle", found |-> {}]

ChromeInit ==
    /\ version = [s \in Session |-> 0]
    /\ unannounced = {}
    /\ showing = NoSession
    /\ arriving = {}
    /\ touched = FALSE
    /\ repoChanges = {}
    /\ todo = <<"begin">>
    /\ measured = [s \in Session |-> {}]
    /\ measuring = Idle
    /\ pulls = [s \in Session |-> {}]
    /\ pulling = Idle
    /\ lastPulled = NoSession
    /\ drawn = [shown |-> NoSession, repos |-> {}, pulls |-> {}]
    /\ spent = [changes |-> 0, reveals |-> 0]

Spend(what, max) ==
    /\ spent[what] < max
    /\ spent' = [spent EXCEPT ![what] = @ + 1]

(***************************************************************************)
(* The rest of the workbench.                                              *)
(***************************************************************************)
\* reveal: the registry holds the new session before its opening is marked.
Reveal(s) ==
    /\ arriving = {} /\ s # showing
    /\ Spend("reveals", MaxReveals)
    /\ showing' = s
    /\ arriving' = {s}
    /\ UNCHANGED <<version, unannounced, touched, repoChanges, measuring, pulling>>
    /\ UNCHANGED loopVars

\* Its end: MarkOpened, then touch.
Revealed ==
    /\ arriving # {}
    /\ arriving' = {}
    /\ touched' = TRUE
    /\ UNCHANGED <<version, unannounced, showing, repoChanges, measuring, pulling, spent>>
    /\ UNCHANGED loopVars

\* A confirmed request writes the manifest, and tells the registry afterwards.
ChangeRepositories(s) ==
    /\ Spend("changes", MaxChanges)
    /\ version' = [version EXCEPT ![s] = @ + 1]
    /\ unannounced' = unannounced \cup {s}
    /\ UNCHANGED <<showing, arriving, touched, repoChanges, measuring, pulling>>
    /\ UNCHANGED loopVars

\* repositoriesChanged
RepositoriesChanged(s) ==
    /\ s \in unannounced
    /\ unannounced' = unannounced \ {s}
    /\ repoChanges' = repoChanges \cup {s}
    /\ touched' = TRUE
    /\ UNCHANGED <<version, showing, arriving, measuring, pulling, spent>>
    /\ UNCHANGED loopVars

(***************************************************************************)
(* The goroutines off the loop.  Each looks at the disk some time after it *)
(* was started, and its answer waits in its channel.                       *)
(***************************************************************************)
Answered(off) == [off EXCEPT !.at = "answered",
                             !.found = {[of |-> off.root, version |-> version[off.root]]}]

Measure ==
    /\ measuring.at = "running"
    /\ measuring' = Answered(measuring)
    /\ UNCHANGED <<touched, repoChanges, pulling>>
    /\ UNCHANGED worldVars /\ UNCHANGED loopVars

FetchPulls ==
    /\ pulling.at = "running"
    /\ pulling' = Answered(pulling)
    /\ UNCHANGED <<touched, repoChanges, measuring>>
    /\ UNCHANGED worldVars /\ UNCHANGED loopVars

(***************************************************************************)
(* watch's bodies, as what each makes of a variable.  A case runs in one   *)
(* step and what it draws in a second: between the two a reveal may put    *)
(* another session on screen, as it may between any two looks at the       *)
(* registry, and its touch makes the loop take both bodies again.          *)
(***************************************************************************)
\* refresh: nothing while a measurement is out, or once the shown session has one.
Refreshed(known, out) ==
    IF out # Idle \/ showing = NoSession THEN out
    ELSE IF known[showing] # {} THEN out
    ELSE [Idle EXCEPT !.root = showing, !.at = "running"]

\* fetch: on arrival only where the last one was for another session.
FetchHeld(arrivalOnly, last, out) ==
    out # Idle \/ showing = NoSession \/ (arrivalOnly /\ showing = last)

Fetched(arrivalOnly, last, out) ==
    /\ pulling' = IF FetchHeld(arrivalOnly, last, out) THEN out
                  ELSE [Idle EXCEPT !.root = showing, !.at = "running"]
    /\ lastPulled' = IF showing = NoSession \/ ~FetchHeld(arrivalOnly, last, out)
                       THEN showing ELSE last

\* Mutant: what was measured once stays.
WithoutNone(roots, known) == known

\* The map with the entries of these roots deleted.
Without(roots, known) == [s \in Session |-> IF s \in roots THEN {} ELSE known[s]]

Select ==
    /\ todo = <<>>
    /\ todo' = <<"push">>
    /\ UNCHANGED drawn
    /\ UNCHANGED worldVars

\* The first body, before the loop: a measurement and a fetch.
Begin ==
    /\ todo = <<"begin">>
    /\ todo' = <<"push">>
    /\ measuring' = Refreshed(measured, measuring)
    /\ Fetched(TRUE, lastPulled, pulling)
    /\ UNCHANGED <<touched, repoChanges, measured, pulls, drawn>>
    /\ UNCHANGED worldVars

\* Mutant: the numbers are kept for the session on screen when they arrive.
KeptForShown(done) ==
    [s \in Session |-> IF s = showing THEN done.found ELSE measured[s]]

\* Where a measurement is kept: under the root it was made for.
Kept(done) == [measured EXCEPT ![done.root] = done.found]

TakeMeasurement ==
    /\ measuring.at = "answered"
    /\ Select
    /\ measured' = Kept(measuring)
    /\ measuring' = Refreshed(Kept(measuring), Idle)
    /\ UNCHANGED <<touched, repoChanges, pulls, pulling, lastPulled>>

TakePulls ==
    /\ pulling.at = "answered"
    /\ Select
    /\ pulls' = [pulls EXCEPT ![pulling.root] = pulling.found]
    /\ Fetched(TRUE, lastPulled, Idle)
    /\ UNCHANGED <<touched, repoChanges, measured, measuring>>

PrTick ==
    /\ Select
    /\ Fetched(FALSE, lastPulled, pulling)
    /\ UNCHANGED <<touched, repoChanges, measured, measuring, pulls>>

\* The slow tick: the shown session is measured again.
StatsTick ==
    /\ Select
    /\ measured' = Without({showing}, measured)
    /\ measuring' = Refreshed(Without({showing}, measured), measuring)
    /\ UNCHANGED <<touched, repoChanges, pulls, pulling, lastPulled>>

FieldTick ==
    /\ Select
    /\ UNCHANGED <<touched, repoChanges, measured, measuring, pulls, pulling, lastPulled>>

\* Mutant: a change is forgotten while the pull requests are on their way.
LastPulledUnlessPulling(changes) ==
    IF lastPulled \in changes /\ pulling = Idle THEN NoSession ELSE lastPulled

\* A root whose repositories changed while it was the last fetched is fetched anew.
LastPulledAfter(changes) == IF lastPulled \in changes THEN NoSession ELSE lastPulled

TakeTouch ==
    /\ touched
    /\ Select
    /\ touched' = FALSE
    /\ repoChanges' = {}
    /\ measured' = Without(repoChanges, measured)
    /\ measuring' = Refreshed(Without(repoChanges, measured), measuring)
    /\ Fetched(TRUE, LastPulledAfter(repoChanges), pulling)
    /\ UNCHANGED pulls

\* pushChrome: measurements and pull requests by the root it draws.
PushChrome ==
    /\ todo = <<"push">>
    /\ todo' = <<>>
    /\ drawn' = [shown  |-> showing,
                 repos  |-> IF showing = NoSession THEN {} ELSE measured[showing],
                 pulls  |-> IF showing = NoSession THEN {} ELSE pulls[showing]]
    /\ UNCHANGED <<touched, repoChanges, measured, measuring, pulls, pulling, lastPulled>>
    /\ UNCHANGED worldVars

LoopStep == Begin \/ PushChrome

ChromeNext ==
    \/ \E s \in Session : ChangeRepositories(s) \/ RepositoriesChanged(s)
    \/ \E s \in Shown : Reveal(s)
    \/ Revealed
    \/ Measure \/ FetchPulls
    \/ TakeMeasurement \/ TakePulls \/ PrTick \/ StatsTick \/ FieldTick \/ TakeTouch
    \/ LoopStep

ChromeSpec == ChromeInit /\ [][ChromeNext]_chromeVars

\* git and GitHub are given timeouts, Go's select is fair to a case that stays ready,
\* and the slow ticker goes on ticking.  Nothing is assumed of the pull request ticker.
ChromeFairSpec ==
    /\ ChromeSpec
    /\ WF_chromeVars(Revealed)
    /\ \A s \in Session : WF_chromeVars(RepositoriesChanged(s))
    /\ WF_chromeVars(Measure) /\ WF_chromeVars(FetchPulls)
    /\ WF_chromeVars(LoopStep)
    /\ SF_chromeVars(TakeMeasurement) /\ SF_chromeVars(TakePulls)
    /\ SF_chromeVars(TakeTouch) /\ SF_chromeVars(StatsTick)

-----------------------------------------------------------------------------
\* The loop's variables hold what its code lets them hold.
ChromeTypeOK ==
    /\ measured \in [Session -> {{}} \cup {{n} : n \in Numbers}]
    /\ pulls \in [Session -> {{}} \cup {{n} : n \in Numbers}]
    /\ showing \in Shown /\ lastPulled \in Shown
    /\ repoChanges \subseteq Session
    /\ drawn.shown \in Shown

\* "A switch must not inherit the last session's numbers": what is drawn for the
\* session on screen was measured and fetched for it, though its answer may come back
\* after any number of switches.
NumbersAreItsOwn == \A n \in drawn.repos \cup drawn.pulls : n.of = drawn.shown

\* What the window should say of the session on screen.
Latest == [of |-> showing, version |-> version[showing]]

\* Once nothing changes any more the window agrees with the disk: no number of the
\* shown session is an old one, although its change may have been announced while its
\* predecessor was being measured, and the numbers come back after every slow tick,
\* which takes them off the window until git has answered.
Agrees ==
    /\ drawn.shown = showing
    /\ showing # NoSession => drawn.repos \subseteq {Latest}
HasItsNumbers == showing # NoSession => Latest \in drawn.repos

ChromeCatchesUp == <>[]Agrees /\ []<>HasItsNumbers

\* A change of the shown session's repositories is followed by a fetch of its pull
\* requests that saw it, without waiting for the pull request ticker: also when a fetch
\* was already under way, or the session was away when the change was announced.
PullsAgree == showing # NoSession => drawn.pulls = {Latest}

PullsFollowTheChange == <>[]PullsAgree
=============================================================================
