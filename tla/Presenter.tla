------------------------------ MODULE Presenter ------------------------------
(* The speaker-notes window (desktop/presenter.go).  Calls of the page are     *)
(* goroutines of their own; the toolkit opens and tears down windows at its    *)
(* own pace, and knows them by name only.                                      *)
EXTENDS Naturals

CONSTANTS
    PageCall,   \* calls of the page under way at a time
    MaxEpochs   \* bound: calls of Open and Close

PresenterAssumption == MaxEpochs \in Nat

VARIABLES
    notesOpen,  \* Presenter.open
    notesEpoch, \* Presenter.epoch
    pending,    \* per call: what it still has to ask of the toolkit
    windows,    \* notes windows on screen, by the epoch that opened them
    closing,    \* windows gone whose OnClose has not run
    told        \* the epochs whose end the presenting page was told of

presenterVars == <<notesOpen, notesEpoch, pending, windows, closing, told>>

Nothing == [ask |-> "nothing", at |-> 0]

Init ==
    /\ notesOpen = FALSE
    /\ notesEpoch = 0
    /\ pending = [c \in PageCall |-> Nothing]
    /\ windows = {}
    /\ closing = {}
    /\ told = {}

(* Open: not again while one is open or opening.                               *)
OpenNotes(c) ==
    /\ pending[c] = Nothing
    /\ ~notesOpen
    /\ notesEpoch < MaxEpochs
    /\ notesOpen' = TRUE
    /\ notesEpoch' = notesEpoch + 1
    /\ pending' = [pending EXCEPT ![c] = [ask |-> "open", at |-> notesEpoch + 1]]
    /\ UNCHANGED <<windows, closing, told>>

CloseNotes(c) ==
    /\ pending[c] = Nothing
    /\ notesEpoch < MaxEpochs
    /\ notesOpen' = FALSE
    /\ notesEpoch' = notesEpoch + 1
    /\ pending' = IF notesOpen THEN [pending EXCEPT ![c] = [ask |-> "close", at |-> 0]] ELSE pending
    /\ UNCHANGED <<windows, closing, told>>

(* The toolkit opens the window ...                                            *)
RendererOpens(c) ==
    /\ pending[c].ask = "open"
    /\ windows' = windows \cup {pending[c].at}
    /\ pending' = [pending EXCEPT ![c] = Nothing]
    /\ UNCHANGED <<notesOpen, notesEpoch, closing, told>>

(* ... or refuses, and no window counts as open.                               *)
RendererFails(c) ==
    /\ pending[c].ask = "open"
    /\ notesOpen' = FALSE
    /\ pending' = [pending EXCEPT ![c] = Nothing]
    /\ UNCHANGED <<notesEpoch, windows, closing, told>>

(* It closes a window of the name, if there is one.                            *)
RendererCloses(c) ==
    /\ pending[c].ask = "close"
    /\ pending' = [pending EXCEPT ![c] = Nothing]
    /\ \/ windows = {} /\ UNCHANGED <<windows, closing>>
       \/ \E w \in windows : windows' = windows \ {w} /\ closing' = closing \cup {w}
    /\ UNCHANGED <<notesOpen, notesEpoch, told>>

UserCloses(w) ==
    /\ windows' = windows \ {w}
    /\ closing' = closing \cup {w}
    /\ UNCHANGED <<notesOpen, notesEpoch, pending, told>>

(* Mutant: the end of the window leaves it counted as open.                    *)
OnClosedSilent(w) ==
    /\ closing' = closing \ {w}
    /\ told' = IF notesOpen /\ notesEpoch = w THEN told \cup {w} ELSE told
    /\ UNCHANGED <<notesOpen, notesEpoch, pending, windows>>

(* closed: a window of an earlier epoch says nothing.                          *)
OnClosed(w) ==
    LET announce == notesOpen /\ notesEpoch = w
    IN  /\ closing' = closing \ {w}
        /\ notesOpen' = (notesOpen /\ ~announce)
        /\ told' = IF announce THEN told \cup {w} ELSE told
        /\ UNCHANGED <<notesEpoch, pending, windows>>

Next ==
    \/ \E c \in PageCall :
        OpenNotes(c) \/ CloseNotes(c) \/ RendererOpens(c) \/ RendererFails(c) \/ RendererCloses(c)
    \/ \E w \in windows : UserCloses(w)
    \/ \E w \in closing : OnClosed(w)

Spec == Init /\ [][Next]_presenterVars

-----------------------------------------------------------------------------
PresenterTypeOK ==
    /\ notesOpen \in BOOLEAN /\ notesEpoch \in 0..MaxEpochs
    /\ pending \in [PageCall -> [ask : {"nothing", "open", "close"}, at : 0..MaxEpochs]]
    /\ windows \subseteq 1..MaxEpochs /\ closing \subseteq 1..MaxEpochs /\ told \subseteq 1..MaxEpochs

Settled == closing = {} /\ \A c \in PageCall : pending[c] = Nothing

(* Notes that count as open are on screen once nothing is under way: a window  *)
(* closed by the user and one torn down late never leave an open that no Open  *)
(* can repeat.                                                                 *)
OpenIsOnScreen == Settled /\ notesOpen => notesEpoch \in windows
=============================================================================
