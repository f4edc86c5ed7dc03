------------------------------- MODULE Crumbs -------------------------------
(***************************************************************************)
(* How a document is cut into the sections that are indexed, and the       *)
(* breadcrumb each one carries (chunkDocument, vault/chunks.go): the body  *)
(* is read line by line next to the list of its headings.                  *)
(*                                                                         *)
(* A line is blank, prose, or a heading with its level and text; which     *)
(* lines are headings is the Markdown parser's answer.                     *)
(***************************************************************************)
EXTENDS Naturals, Sequences, SequencesExt, FiniteSets

CONSTANTS Name,       \* texts of headings
          Title,      \* the document's title, which a heading may repeat
          Levels,     \* how deep headings go: 6 in Markdown
          MaxLines    \* bound: lines of a document

CrumbsAssumption == Title \in Name /\ Levels \in Nat \ {0} /\ MaxLines \in Nat

VARIABLES body,       \* the lines still to read
          read,       \* the lines read so far
          headings,   \* per level, the heading in force there, or NoName
          section,    \* the lines of the section under way, where it starts, its crumb
          chunks      \* the sections kept

crumbVars == <<body, read, headings, section, chunks>>

NoName  == ""                \* the text of a heading that has none
Heading == {[kind |-> "heading", level |-> l, text |-> n] : l \in 1..Levels, n \in Name}
Plain   == {[kind |-> k, level |-> 0, text |-> NoName] : k \in {"blank", "prose"}}
Line    == Heading \cup Plain
IsHeading(line) == line.kind = "heading"

CrumbsInit ==
    /\ body \in SeqOf(Line, MaxLines)
    /\ read = <<>>
    /\ headings = [l \in 1..Levels |-> NoName]
    /\ section = [lines |-> <<>>, start |-> 1, crumb |-> <<Title>>]
    /\ chunks = <<>>

\* What is left of a section without its own heading line.
Content == IF section.lines # <<>> /\ IsHeading(Head(section.lines))
           THEN Tail(section.lines) ELSE section.lines

\* flush: a section that is only its heading and blank lines is not kept.
Flushed ==
    IF \E i \in DOMAIN Content : Content[i].kind # "blank"
    THEN Append(chunks, [crumb |-> section.crumb, start |-> section.start,
                         end |-> section.start + Len(section.lines) - 1])
    ELSE chunks

\* Mutant: the headings below the new one stay in force.
UnderKeeping(h) == [headings EXCEPT ![h.level] = h.text]

\* A heading ends those of its own level and below.
Under(h) == [l \in 1..Levels |-> IF l < h.level THEN headings[l]
                                 ELSE IF l = h.level THEN h.text ELSE NoName]

\* The k-th of some numbers, in their order.
Nth(numbers, k) == CHOOSE n \in numbers : Cardinality({m \in numbers : m <= n}) = k

\* The title leads, and a heading that only repeats it is left out.
Told(name) == name \notin {NoName, Title}
Crumb(inForce) ==
    LET levels == {l \in 1..Levels : Told(inForce[l])}
    IN  <<Title>> \o [k \in 1..Cardinality(levels) |-> inForce[Nth(levels, k)]]

ReadHeading ==
    /\ body # <<>> /\ IsHeading(Head(body))
    /\ chunks' = Flushed
    /\ headings' = Under(Head(body))
    /\ section' = [lines |-> <<Head(body)>>, start |-> Len(read) + 1, crumb |-> Crumb(headings')]
    /\ read' = Append(read, Head(body))
    /\ body' = Tail(body)

ReadLine ==
    /\ body # <<>> /\ ~IsHeading(Head(body))
    /\ section' = [section EXCEPT !.lines = Append(@, Head(body))]
    /\ read' = Append(read, Head(body))
    /\ body' = Tail(body)
    /\ UNCHANGED <<headings, chunks>>

\* The end of the body: the last section is flushed as well.
EndOfBody ==
    /\ body = <<>> /\ section.lines # <<>>
    /\ chunks' = Flushed
    /\ section' = [section EXCEPT !.lines = <<>>]
    /\ UNCHANGED <<body, read, headings>>

CrumbsNext == ReadHeading \/ ReadLine \/ EndOfBody
CrumbsSpec == CrumbsInit /\ [][CrumbsNext]_crumbVars

-----------------------------------------------------------------------------
(* Where a line of prose stands, said of the document as a whole. *)

\* The headings a line stands under: those above it that no later heading above it,
\* of the same level or a higher one, has ended.
Enclosing(i) == {j \in 1..i : /\ IsHeading(read[j])
                              /\ \A k \in j + 1 .. i : IsHeading(read[k]) => read[k].level > read[j].level}

Whereabouts(i) ==
    LET lines == {j \in Enclosing(i) : Told(read[j].text)}
    IN  <<Title>> \o [k \in 1..Cardinality(lines) |-> read[Nth(lines, k)].text]

Holding(i) == {c \in DOMAIN chunks : i \in chunks[c].start..chunks[c].end}

\* A document that has been read is found through its sections: every line of prose is
\* in one chunk and no other, which says where in the document the line stands, and
\* starts at the heading nearest above it, or at the top (chunkDocument).
ProseIsPlaced ==
    (body = <<>> /\ section.lines = <<>>) =>
        \A i \in DOMAIN read : read[i].kind = "prose" =>
            \E c \in DOMAIN chunks :
                  /\ Holding(i) = {c}
                  /\ chunks[c].crumb = Whereabouts(i)
                  /\ \A k \in chunks[c].start + 1 .. i : ~IsHeading(read[k])
                  /\ chunks[c].start = 1 \/ IsHeading(read[chunks[c].start])
=============================================================================
