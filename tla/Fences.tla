------------------------------- MODULE Fences -------------------------------
(***************************************************************************)
(* Where a document's d2 fences are: internal/diagram/scan.go.  A line is  *)
(* what its indent, its run of markers and what follows the run make of    *)
(* it; Scan reads line by line, and every prefix is a document.            *)
(*                                                                         *)
(* Scan knows nothing of the containers of markdown, list items, quotes    *)
(* and HTML blocks, and neither does this module: a line is what Scan      *)
(* takes it for, and nothing is said of where a renderer sees a fence.     *)
(***************************************************************************)
EXTENDS Naturals, Sequences, FiniteSets

CONSTANTS MaxLines

VARIABLES
    lines,      \* the lines read
    open,       \* the fence a block is inside of, or NoFence
    found,      \* the d2 fences Scan has closed, with their source
    blocks      \* every fenced block closed, d2 or not

fenceVars == <<lines, open, found, blocks>>

NoFence == [char |-> "none", length |-> 0, d2 |-> FALSE, at |-> 0]

\* deep is an indent of maxFenceIndent columns or more, tabs counted as columns.
Mark(char, length, info, deep) ==
    [char |-> char, length |-> length, info |-> info, deep |-> deep]

Lines ==
    {Mark("backtick", 3, "", FALSE), Mark("backtick", 4, "", FALSE), Mark("tilde", 3, "", FALSE),
     Mark("backtick", 3, "d2", FALSE), Mark("tilde", 3, "d2", FALSE), Mark("backtick", 3, "go", FALSE),
     Mark("backtick", 3, "d2 with a backtick", FALSE), Mark("backtick", 3, "", TRUE),
     Mark("x", 0, "prose", FALSE)}

Init ==
    /\ lines = <<>>
    /\ open = NoFence
    /\ found = {}
    /\ blocks = {}

\* A backtick fence's info string holds no backtick.
Opens(l) ==
    /\ ~l.deep
    /\ l.char \in {"backtick", "tilde"}
    /\ l.length >= 3
    /\ l.char = "backtick" => l.info # "d2 with a backtick"

\* A fence is closed by its own character, at least as many, and nothing else.
Closes(l, fence) ==
    /\ ~l.deep
    /\ l.char = fence.char
    /\ l.length >= fence.length
    /\ l.info = ""

Ended(end) == [line |-> open.at, end |-> end]

\* Mutant: a block of another language is not tracked.
TracksD2(l) == Opens(l) /\ l.info = "d2"
\* Fences that are not drawn are followed too, or one quoted inside another
\* would be taken for a diagram.
Tracks(l) == Opens(l)

ReadLine ==
    /\ Len(lines) < MaxLines
    /\ \E l \in Lines :
          LET n == Len(lines) + 1 IN
          /\ lines' = Append(lines, l)
          /\ \/ /\ open = NoFence /\ Tracks(l)
                /\ open' = [char |-> l.char, length |-> l.length,
                            d2 |-> l.info = "d2", at |-> n]
                /\ UNCHANGED <<found, blocks>>
             \/ /\ open # NoFence /\ Closes(l, open)
                /\ found' = IF open.d2 THEN found \cup {Ended(n)} ELSE found
                /\ blocks' = blocks \cup {Ended(n)}
                /\ open' = NoFence
             \/ /\ IF open = NoFence THEN ~Tracks(l) ELSE ~Closes(l, open)
                /\ UNCHANGED <<open, found, blocks>>

Next == ReadLine

FencesSpec == Init /\ [][Next]_fenceVars

----------------------------------------------------------------------------

\* A fence nothing closes runs to the end of the document.
Unclosed == IF open = NoFence THEN {} ELSE {Ended(Len(lines))}

Scan == found \cup IF open.d2 THEN Unclosed ELSE {}
All  == blocks \cup Unclosed

\* The line would close a fence that the one at b opened.
Shuts(i, b) == Closes(lines[i], lines[b])

\* What the one pass finds, said of the document as a whole and by Scan's own
\* account of a line: every block starts at a line that opens one and ends at
\* the first that closes it, or with the document; no two share a line, every
\* other line that could open one is inside one, and the d2 ones, and no
\* others, are found.
ScanFindsTheFences ==
    /\ \A b \in All :
          /\ Opens(lines[b.line])
          /\ \A i \in b.line + 1 .. b.end - 1 : ~Shuts(i, b.line)
          /\ \/ b.end > b.line /\ Shuts(b.end, b.line)
             \/ b.end = Len(lines)
          /\ lines[b.line].info = "d2" <=> b \in Scan
    /\ \A b, c \in All : b # c => b.end < c.line \/ c.end < b.line
    /\ \A i \in DOMAIN lines :
          Opens(lines[i]) => \E b \in All : b.line <= i /\ i <= b.end
=============================================================================
