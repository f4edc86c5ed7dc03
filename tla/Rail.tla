-------------------------------- MODULE Rail --------------------------------
(***************************************************************************)
(* The rail of sessions: its order, which the user rearranges while        *)
(* sessions come and go on disk (railOrder and Reorder of                  *)
(* desktop/session.go, Sessions of status/status.go), and the mark on a    *)
(* row that counts the documents written since it was last opened          *)
(* (desktop/chrome.go, status.Unseen, session/opened.go).                  *)
(***************************************************************************)
EXTENDS Naturals, Sequences, FiniteSets, SequencesExt

CONSTANTS Session,      \* sessions there may be under the sessions root
          MaxDocs,      \* bound: documents written
          MaxOpens,     \* bound: sessions put on screen
          MaxDiskMoves  \* bound: sessions appearing and disappearing

RailAssumption ==
    /\ IsFiniteSet(Session) /\ Session # {}
    /\ {MaxDocs, MaxOpens, MaxDiskMoves} \subseteq Nat

VARIABLES recent,       \* the sessions on disk, most recently opened first
          written,      \* documents of each written since its opening mark
          onScreen,     \* {} or the session shown
          opening,      \* what reveal has yet to do for it
          nudged,       \* Sessions.touched
          rail,         \* Sessions.rail
          marks,        \* watch's `unseen`
          rows,         \* the scan pushChrome has made, before it takes the registry's lock
          railSpent     \* how much of each bound is used

railVars == <<recent, written, onScreen, opening, nudged, rail, marks, rows, railSpent>>

NoScan == <<>>

RailInit ==
    /\ recent \in SetToSeqs(Session) \cup {<<>>}
    /\ written = [s \in Session |-> 0]
    /\ onScreen = {} /\ opening = {} /\ nudged = FALSE
    /\ rail = <<>>
    /\ marks = [s \in Session |-> 0]
    /\ rows = NoScan
    /\ railSpent = [docs |-> 0, opens |-> 0, moves |-> 0]

Spends(what, max) ==
    /\ railSpent[what] < max
    /\ railSpent' = [railSpent EXCEPT ![what] = @ + 1]

Without(seq, s) == RemoveAt(seq, CHOOSE i \in DOMAIN seq : seq[i] = s)

\* a stands before b in seq.
Above(seq, a, b) == \E i, j \in DOMAIN seq : i < j /\ seq[i] = a /\ seq[j] = b

(***************************************************************************)
(* The disk.                                                               *)
(***************************************************************************)
Appears(s) ==
    /\ s \notin ToSet(recent)
    /\ Spends("moves", MaxDiskMoves)
    /\ recent' \in {<<s>> \o recent, Append(recent, s)}
    /\ UNCHANGED <<written, onScreen, opening, nudged, rail, marks, rows>>

Disappears(s) ==
    /\ s \in ToSet(recent) \ onScreen
    /\ Spends("moves", MaxDiskMoves)
    /\ recent' = Without(recent, s)
    /\ written' = [written EXCEPT ![s] = 0]
    /\ UNCHANGED <<onScreen, opening, nudged, rail, marks, rows>>

Writes(s) ==
    /\ s \in ToSet(recent)
    /\ Spends("docs", MaxDocs)
    /\ written' = [written EXCEPT ![s] = @ + 1]
    /\ UNCHANGED <<recent, onScreen, opening, nudged, rail, marks, rows>>

(***************************************************************************)
(* reveal: the session is the shown one, then marked opened, then the loop *)
(* is nudged.                                                              *)
(***************************************************************************)
Reveal(s) ==
    /\ opening = {} /\ s \in ToSet(recent) \ onScreen
    /\ Spends("opens", MaxOpens)
    /\ onScreen' = {s} /\ opening' = {"mark", "nudge"}
    /\ UNCHANGED <<recent, written, nudged, rail, marks, rows>>

NudgeReady == "mark" \notin opening

MarkOpened ==
    /\ "mark" \in opening
    /\ opening' = opening \ {"mark"}
    /\ \E s \in onScreen : /\ written' = [written EXCEPT ![s] = 0]
                           /\ recent' = <<s>> \o Without(recent, s)
    /\ UNCHANGED <<onScreen, nudged, rail, marks, rows, railSpent>>

Nudge ==
    /\ "nudge" \in opening /\ NudgeReady
    /\ opening' = opening \ {"nudge"}
    /\ nudged' = TRUE
    /\ UNCHANGED <<recent, written, onScreen, rail, marks, rows, railSpent>>

(***************************************************************************)
(* The loop: a touch recounts the shown session, the slow tick every one.  *)
(***************************************************************************)
TakeNudge ==
    /\ nudged
    /\ nudged' = FALSE
    /\ marks' = [s \in Session |-> IF s \in onScreen THEN written[s] ELSE marks[s]]
    /\ UNCHANGED <<recent, written, onScreen, opening, rail, rows, railSpent>>

CountAll ==
    /\ marks' = [s \in Session |-> IF s \in ToSet(recent) THEN written[s] ELSE 0]
    /\ UNCHANGED <<recent, written, onScreen, opening, nudged, rail, rows, railSpent>>

\* status.Sessions, before railOrder takes the lock.
Scan ==
    /\ rows = NoScan
    /\ rows' = recent
    /\ UNCHANGED <<recent, written, onScreen, opening, nudged, rail, marks, railSpent>>

\* Mutant: every session found counts as new.
FreshAll(found, known) == found

\* The sessions found that the rail does not know, in the order they were found.
Fresh(found, known) ==
    LET new == ToSet(found) \ ToSet(known)
    IN CHOOSE s \in SetToSeqs(new) :
          \A a, b \in new : Above(s, a, b) => Above(found, a, b)

\* railOrder: new sessions go before the ones it knows, and none is forgotten.
Ordered(found, known) == Fresh(found, known) \o known

RailOrder ==
    /\ rows # NoScan
    /\ rail' = Ordered(rows, rail)
    /\ rows' = NoScan
    /\ UNCHANGED <<recent, written, onScreen, opening, nudged, marks, railSpent>>

\* Reorder: the row goes where the other one is, and those between close up.
Moved(seq, from, to) == InsertAt(RemoveAt(seq, from), to, seq[from])

Reorder(from, to) ==
    /\ {from, to} \subseteq DOMAIN rail /\ from # to
    /\ rail' = Moved(rail, from, to)
    /\ nudged' = TRUE
    /\ UNCHANGED <<recent, written, onScreen, opening, marks, rows, railSpent>>

RailNext ==
    \/ \E s \in Session : Appears(s) \/ Disappears(s) \/ Writes(s) \/ Reveal(s)
    \/ MarkOpened \/ Nudge
    \/ TakeNudge \/ CountAll \/ Scan \/ RailOrder
    \/ \E from, to \in 1..Cardinality(Session) : Reorder(from, to)

RailSpec == RailInit /\ [][RailNext]_railVars

\* The loop takes a touch that stays there; nothing is assumed of its tickers.
RailFairSpec == RailSpec /\ WF_railVars(MarkOpened) /\ WF_railVars(Nudge) /\ WF_railVars(TakeNudge)

-----------------------------------------------------------------------------
\* The variables hold what the code's own types let them hold.
RailTypeOK ==
    /\ IsInjective(rail) /\ IsInjective(recent)
    /\ ToSet(rail) \cup ToSet(recent) \subseteq Session
    /\ marks \in [Session -> 0..MaxDocs]

\* No row moves but one the user drags, or one that is new: whatever comes, goes and
\* returns, at each step all but one of the rows keep the places they have among each
\* other, and a session that is gone keeps its own for when it returns.
KeepsPlaces ==
    /\ ToSet(rail) \subseteq ToSet(rail')
    /\ \E moved \in Session :
          \A a, b \in ToSet(rail) \ {moved} : Above(rail, a, b) => Above(rail', a, b)

RailKeepsItsPlaces == [][KeepsPlaces]_railVars

\* "Arriving at a session is looking at what it wrote, and a marker still lit after
\* that is a marker nobody reads": it goes out with the arrival, without waiting for
\* the slow tick, and counts at most what was written since.
MarkIsOut == \A s \in onScreen : marks[s] <= written[s]

MarkGoesOut == <>[]MarkIsOut
=============================================================================
