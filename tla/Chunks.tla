------------------------------- MODULE Chunks -------------------------------
(***************************************************************************)
(* How a section of a document becomes the windows that are embedded       *)
(* (vault/chunks.go): paragraphs are packed up to a limit of bytes, a      *)
(* paragraph that is too long is packed by lines, a line that is too long  *)
(* is cut between runes.  A window the model finds too long all the same   *)
(* is halved (vault/ollama.go).                                            *)
(*                                                                         *)
(* A text is a sequence of bytes; all that matters of a byte is whether it *)
(* ends a line and whether it follows another one of its rune.  A piece is *)
(* the bytes from one to another, with the lines it names as its own.      *)
(***************************************************************************)
EXTENDS Integers, Sequences, SequencesExt, FiniteSets

CONSTANTS
    Byte,          \* the bytes of the texts tried
    Newline,       \* the one that ends a line
    Follow,        \* those that do not start a rune: utf8.RuneStart
    WindowChars,   \* windowChars
    MaxBytes       \* bound: bytes of a text

ChunksAssumption ==
    /\ Newline \in Byte /\ Follow \subseteq Byte \ {Newline}
    /\ WindowChars \in Nat \ {0} /\ MaxBytes \in Nat

VARIABLES
    text,      \* the section
    at,        \* how many bytes were taken from it
    open,      \* the piece that is being packed, if any
    para,      \* where the paragraph ends that is packed by its lines, or 0
    line,      \* where the line ends that is cut between runes, or 0
    windows    \* the windows so far

chunkVars == <<text, at, open, para, line, windows>>

\* UTF-8: a byte that starts no rune has the one that does before it on its line, within
\* what a window holds.
WellFormed(s) ==
    \A n \in DOMAIN s : s[n] \in Follow =>
        /\ n > 1 /\ s[n - 1] # Newline
        /\ \E m \in 1 .. n - 1 : n - m < WindowChars /\ s[m] \notin Follow

NoPiece == [from |-> 0, to |-> 0, start |-> 0, end |-> 0]
Bytes(p) == p.to - p.from + 1

Solid(a, b) == {n \in a .. b : text[n] # Newline}

-----------------------------------------------------------------------------
(* The pieces a text is made of. *)

\* lines: the number a line has, and where it ends, its newline included
LineOf(n) == 1 + Cardinality({m \in 1 .. n - 1 : text[m] = Newline})

EndsLine(m) == m = Len(text) \/ text[m] = Newline
EndOfLine(n) == CHOOSE m \in n .. Len(text) : EndsLine(m) /\ \A k \in n .. m - 1 : ~EndsLine(k)

\* paragraphs: a blank line ends one, and belongs to it
EndsParagraph(n, m) ==
    m = Len(text) \/ (text[m] = Newline /\ (m > n => text[m - 1] = Newline))
EndOfParagraph(n) ==
    CHOOSE m \in n .. Len(text) : EndsParagraph(n, m) /\ \A k \in n .. m - 1 : ~EndsParagraph(n, k)

Piece(n, m) == [from |-> n, to |-> m, start |-> LineOf(n), end |-> LineOf(m)]

\* hardSplit: as many bytes as a window holds, fewer for the last rune to be whole
Least(n, m) == IF n < m THEN n ELSE m
CutAt(n, end) ==
    LET whole == {c \in 1 .. Least(WindowChars, end - n + 1) : c = end - n + 1 \/ text[n + c] \notin Follow}
    IN  CHOOSE c \in whole : \A d \in whole : d <= c

\* Mutant: a long line is cut at the limit, in the middle of a rune if need be.
CutAnywhere(n, end) == Least(WindowChars, end - n + 1)

-----------------------------------------------------------------------------
(* pack, once for the paragraphs and once for the lines of one that is too long. *)

\* Mutant: the end line stays that of the first piece.
JoinedShort(p, q) == [p EXCEPT !.to = q.to]

Joined(p, q) == [p EXCEPT !.to = q.to, !.end = q.end]

\* splitWindows: a piece is trimmed, and one that is blank is not kept
Trimmed(p) ==
    LET solid == Solid(p.from, p.to)
    IN  [p EXCEPT !.from = CHOOSE n \in solid : \A m \in solid : n <= m,
                  !.to   = CHOOSE n \in solid : \A m \in solid : m <= n]
Kept(p) == IF Solid(p.from, p.to) = {} THEN windows ELSE Append(windows, Trimmed(p))

\* The piece that was being packed is closed.
Closed == IF open = NoPiece THEN windows ELSE Kept(open)

\* A piece that fits into what is being packed joins it, any other begins anew.
Pack(p) ==
    IF open # NoPiece /\ Bytes(open) + Bytes(p) <= WindowChars
    THEN open' = Joined(open, p) /\ UNCHANGED windows
    ELSE open' = p /\ windows' = Closed

\* A piece that is too long by itself is split finer.
TooLong(p) == Bytes(p) > WindowChars
SplitFiner == open' = NoPiece /\ windows' = Closed

Paragraph == Piece(at + 1, EndOfParagraph(at + 1))
Line      == Piece(at + 1, EndOfLine(at + 1))

PackParagraph ==
    /\ at < Len(text) /\ para = 0 /\ ~TooLong(Paragraph)
    /\ Pack(Paragraph)
    /\ at' = Paragraph.to
    /\ UNCHANGED <<text, para, line>>

SplitParagraph ==
    /\ at < Len(text) /\ para = 0 /\ TooLong(Paragraph)
    /\ SplitFiner
    /\ para' = Paragraph.to
    /\ UNCHANGED <<text, at, line>>

PackLine ==
    /\ at < para /\ line = 0 /\ ~TooLong(Line)
    /\ Pack(Line)
    /\ at' = Line.to
    /\ UNCHANGED <<text, para, line>>

SplitLine ==
    /\ at < para /\ line = 0 /\ TooLong(Line)
    /\ SplitFiner
    /\ line' = Line.to
    /\ UNCHANGED <<text, at, para>>

CutLine ==
    /\ at < line
    /\ at' = at + CutAt(at + 1, line)
    /\ windows' = Kept([from |-> at + 1, to |-> at', start |-> LineOf(at + 1), end |-> LineOf(line)])
    /\ line' = IF at' = line THEN 0 ELSE line
    /\ UNCHANGED <<text, open, para>>

\* The end of a paragraph that was packed by its lines, and the end of the text.
EndPack ==
    /\ \/ at = para /\ line = 0 /\ para # 0
       \/ at = Len(text) /\ para = 0 /\ open # NoPiece
    /\ open' = NoPiece /\ windows' = Closed /\ para' = 0
    /\ UNCHANGED <<text, at, line>>

Split == at = Len(text) /\ para = 0 /\ open = NoPiece

-----------------------------------------------------------------------------
(* A window that overflows the model. *)

\* halves: at the last line that ends before the middle, or between two runes
HalfOf(w) ==
    LET within == {n \in 0 .. Bytes(w) \div 2 : n = 0 \/ text[w.from + n] \notin Follow}
        lines  == {n \in within \ {0, 1} : text[w.from + n - 1] = Newline}
        halves == IF lines # {} THEN lines ELSE within
    IN  CHOOSE n \in halves : \A k \in halves : k <= n

\* embedWindow: a window the model refuses for its length is tried in halves, for
\* as long as both halves hold something
Overflow(i) ==
    /\ Split /\ i \in DOMAIN windows
    /\ LET w == windows[i]
           half == HalfOf(w)
       IN /\ 0 < half /\ half < Bytes(w)
          /\ windows' = SubSeq(windows, 1, i - 1)
                        \o <<[w EXCEPT !.to = w.from + half - 1], [w EXCEPT !.from = w.from + half]>>
                        \o SubSeq(windows, i + 1, Len(windows))
    /\ UNCHANGED <<text, at, open, para, line>>

-----------------------------------------------------------------------------
Init ==
    /\ text \in {s \in SeqOf(Byte, MaxBytes) : WellFormed(s)}
    /\ at = 0 /\ open = NoPiece /\ para = 0 /\ line = 0
    /\ windows = << >>

Next ==
    \/ PackParagraph \/ SplitParagraph \/ PackLine \/ SplitLine \/ CutLine \/ EndPack
    \/ \E i \in 1 .. MaxBytes : Overflow(i)

Spec == Init /\ [][Next]_chunkVars

-----------------------------------------------------------------------------
(* Properties. *)

Holding(n) == {i \in DOMAIN windows : n \in windows[i].from .. windows[i].to}

\* Nothing of a section is lost, doubled or moved on its way into windows: what is packed
\* goes on where the last window ended, and in the end each byte is in the one window of
\* its place.  None holds more than the model was promised, nor begins within a rune.
WindowsHoldTheText ==
    /\ Split => \A n \in Solid(1, Len(text)) : \E i \in DOMAIN windows : Holding(n) = {i}
    /\ \A i, j \in DOMAIN windows : i < j => windows[i].to < windows[j].from
    /\ open # NoPiece => open.to = at /\ \A i \in DOMAIN windows : windows[i].to < open.from
    /\ \A i \in DOMAIN windows : Bytes(windows[i]) <= WindowChars /\ text[windows[i].from] \notin Follow

\* The source lines a window names are those its bytes are on, and the windows name them
\* in order: each starts where the one before it ended, or later, but for two halves.
WindowsNameTheirLines ==
    /\ \A i \in DOMAIN windows : \A n \in windows[i].from .. windows[i].to :
          windows[i].start <= LineOf(n) /\ LineOf(n) <= windows[i].end
    /\ \A i, j \in DOMAIN windows : i < j => windows[i].end <= windows[j].start
                                              \/ windows[i].start = windows[j].start
=============================================================================
