------------------------------- MODULE Terminal -------------------------------
(* What a page sees of one terminal tab (desktop/terminals.go).  The pump      *)
(* writes each chunk to the retained buffer and sends it, and a mount replays  *)
(* the buffer; the stream lock keeps the two apart.  Sent events reach the     *)
(* page in the order they were sent.                                           *)
EXTENDS Naturals, Sequences, SequencesExt

CONSTANTS
    Mount,      \* pages that mount the terminal
    Limit,      \* chunks the buffer retains (windowScrollback)
    MaxChunks   \* bound: chunks the process writes

TerminalAssumption ==
    /\ {Limit, MaxChunks} \subseteq Nat
    /\ {"nobody", "pump"} \cap Mount = {}

VARIABLES
    written,    \* chunks read from the process
    buffer,     \* ring.buf
    streamBy,   \* who holds terminal.stream
    served,     \* terminal.served
    ended,      \* the process is done
    sent,       \* events on their way to the page
    mounts,     \* the mounts under way
    screen,     \* what the page shows since its last replay
    firsts      \* replays whose queries the page answers as live

terminalVars == <<written, buffer, streamBy, served, ended, sent, mounts, screen, firsts>>

Nobody == "nobody"
Pump == "pump"

Init ==
    /\ written = 0
    /\ buffer = << >>
    /\ streamBy = Nobody
    /\ served \in BOOLEAN       \* started by a page, or by the agent's tool
    /\ ended = FALSE
    /\ sent = << >>
    /\ mounts = [m \in Mount |-> "idle"]
    /\ screen = << >>
    /\ firsts = 0

Retained(chunks) == IF Len(chunks) > Limit THEN Tail(chunks) ELSE chunks

(* Mutant: a chunk is kept without the stream lock.                             *)
PumpWritesAlone ==
    /\ ~ended /\ written < MaxChunks
    /\ streamBy # Pump
    /\ streamBy' = Pump
    /\ written' = written + 1
    /\ buffer' = Retained(Append(buffer, written + 1))
    /\ UNCHANGED <<served, ended, sent, mounts, screen, firsts>>

(* pump: a chunk is kept and sent under the stream lock, in two steps.          *)
PumpWrites ==
    /\ ~ended /\ written < MaxChunks
    /\ streamBy = Nobody
    /\ streamBy' = Pump
    /\ written' = written + 1
    /\ buffer' = Retained(Append(buffer, written + 1))
    /\ UNCHANGED <<served, ended, sent, mounts, screen, firsts>>

PumpSends ==
    /\ streamBy = Pump
    /\ sent' = Append(sent, [replay |-> FALSE, chunks |-> <<written>>])
    /\ streamBy' = Nobody
    /\ UNCHANGED <<written, buffer, served, ended, mounts, screen, firsts>>

ProcessDone ==
    /\ ~ended
    /\ ended' = TRUE
    /\ UNCHANGED <<written, buffer, streamBy, served, sent, mounts, screen, firsts>>

(* attach: a freshly mounted view is resized, which makes a shell repaint, and   *)
(* then reset to the retained bytes.  A resize that fails leaves it blank.       *)
Attach(m) ==
    /\ mounts[m] = "idle"
    /\ streamBy = Nobody
    /\ streamBy' = m
    /\ mounts' = [mounts EXCEPT ![m] = IF ended THEN "replay" ELSE "resize"]
    /\ UNCHANGED <<written, buffer, served, ended, sent, screen, firsts>>

Resize(m) ==
    /\ mounts[m] = "resize"
    /\ \/ mounts' = [mounts EXCEPT ![m] = "live"] /\ UNCHANGED streamBy
       \/ mounts' = [mounts EXCEPT ![m] = "done"] /\ streamBy' = Nobody
    /\ UNCHANGED <<written, buffer, served, ended, sent, screen, firsts>>

Replay(m) ==
    /\ mounts[m] \in {"live", "replay"}
    /\ sent' = Append(sent, [replay |-> TRUE, chunks |-> buffer])
    /\ firsts' = IF mounts[m] = "live" /\ ~served THEN firsts + 1 ELSE firsts
    /\ served' = TRUE
    /\ streamBy' = Nobody
    /\ mounts' = [mounts EXCEPT ![m] = "done"]
    /\ UNCHANGED <<written, buffer, ended, screen>>

(* The page: a replay starts the screen over, a chunk goes at its end.           *)
Arrives ==
    /\ sent # << >>
    /\ screen' = IF Head(sent).replay THEN Head(sent).chunks ELSE screen \o Head(sent).chunks
    /\ sent' = Tail(sent)
    /\ UNCHANGED <<written, buffer, streamBy, served, ended, mounts, firsts>>

Next ==
    \/ PumpWrites \/ PumpSends \/ ProcessDone \/ Arrives
    \/ \E m \in Mount : Attach(m) \/ Resize(m) \/ Replay(m)

Spec == Init /\ [][Next]_terminalVars

-----------------------------------------------------------------------------
TerminalTypeOK ==
    /\ written \in 0..MaxChunks /\ Len(buffer) <= Limit /\ served \in BOOLEAN /\ ended \in BOOLEAN
    /\ streamBy \in {Nobody, Pump} \cup Mount
    /\ mounts \in [Mount -> {"idle", "resize", "live", "replay", "done"}]

(* The screen runs on without a gap and without a chunk twice: a mount resets   *)
(* it to one replay, and live output neither overtakes the replay nor repeats   *)
(* what it held.  Once everything has arrived it ends with the last chunk       *)
(* written.  And a running process's queries are answered as live for one mount *)
(* at most, and not at all when a page saw the output live.                     *)
NoGap == \A i \in 1..(Len(screen) - 1) : screen[i + 1] = screen[i] + 1
NothingMissing == sent = << >> /\ streamBy = Nobody /\ screen # << >> => Last(screen) = written
AnsweredOnce == firsts <= 1

ScreenIsWhole == NoGap /\ NothingMissing /\ AnsweredOnce
=============================================================================
