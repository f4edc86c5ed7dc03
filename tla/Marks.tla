------------------------------- MODULE Marks -------------------------------
(***************************************************************************)
(* The R, P and I marks: internal/status/stages.go over the documents      *)
(* internal/markdown reads.  A document is the sequence of its top-level   *)
(* blocks, as the parser gives them; the two loops, Sections and           *)
(* PlanPhases, read it block by block, and every prefix is a document.     *)
(***************************************************************************)
EXTENDS Naturals, Sequences, FiniteSets

CONSTANTS MaxBlocks

VARIABLES
    kind,       \* the folder the document is in: research, audits or plans
    tells,      \* what its frontmatter's tells key says
    doc,        \* the blocks read
    sections,   \* Sections: the name and state of each
    phases,     \* PlanPhases: the criteria met and in all, of each
    inPhase,    \* phase is not nil
    verifying,
    verified

markVars == <<kind, tells, doc, sections, phases, inPhase, verifying, verified>>

\* The tells an audit may choose: one of the legacy set, one renamed since.
Tell     == {"dead", "volkswagen"}
NewName(t)    == IF t = "dead" THEN "Dead" ELSE "Tests"
LegacyName(t) == IF t = "dead" THEN "" ELSE "Volkswagen"
LegacyTells   == {"dead"}

\* What a tells key can be besides the tells it names.
Absent    == {"absent"}
Malformed == {"malformed"}

\* Second-level headings with a name open a section; "Phase" stands for those
\* that name a phase.
SectionName == {"Summary", "Dead", "Tests", "Volkswagen", "Phase"}
Ticked   == "ticked"
Unticked == "unticked"
Item     == {Ticked, Unticked}      \* a list of one criterion

\* The other headings: h1 is of the first level, or of the second without a name, Verify and
\* h3 of the third, h4 below it.
Heading == {"h1", "Verify", "h3", "h4"}

Blocks ==
    [research |-> {"Summary", "Dead", "quote", "text"},
     audits   |-> {"Summary", "Dead", "Tests", "Volkswagen", "quote", "text"},
     plans    |-> {"Phase", "Summary", "text"} \cup Heading \cup Item]

Init ==
    /\ kind \in {"research", "audits", "plans"}
    /\ tells \in IF kind = "audits" THEN {Absent, Malformed} \cup SUBSET Tell
                 ELSE {Absent}
    /\ doc = <<>>
    /\ sections = <<>>
    /\ phases = <<>>
    /\ inPhase = FALSE
    /\ verifying = FALSE
    /\ verified = FALSE

----------------------------------------------------------------------------

\* Mutant: framing put after the finding takes it back.
StateWithAny(state, block) == IF block = "quote" THEN "framed" ELSE "answered"
\* Text answers a section; a quote frames one that is empty.
StateWith(state, block) ==
    IF block # "quote" THEN "answered"
    ELSE IF state = "empty" THEN "framed" ELSE state

Sectioned(b) ==
    sections' =
        IF b \in SectionName THEN Append(sections, [name |-> b, state |-> "empty"])
        ELSE IF sections = <<>> THEN sections
        ELSE [sections EXCEPT ![Len(sections)].state = StateWith(@, b)]

\* Mutant: any heading ends Verify.
EndsAny(b) == b \in Heading
\* A heading at Verify's depth or above ends it; a deeper one is part of it.
Ends(b) == b \in Heading \ {"h4"}

Phased(b) ==
    \/ /\ b \in SectionName
       /\ phases' = IF b = "Phase" THEN Append(phases, [met |-> 0, total |-> 0]) ELSE phases
       /\ inPhase' = (b = "Phase")
       /\ verifying' = FALSE
       /\ verified' = FALSE
    \/ /\ b \in Heading
       /\ IF verifying /\ Ends(b)
          THEN verifying' = FALSE /\ verified' = TRUE
          ELSE /\ verifying' = (verifying \/ (inPhase /\ ~verified /\ b = "Verify"))
               /\ UNCHANGED verified
       /\ UNCHANGED <<phases, inPhase>>
    \/ /\ b \in Item \cup {"quote", "text"}
       /\ phases' = IF verifying /\ b \in Item
                    THEN [phases EXCEPT ![Len(phases)] =
                            [met   |-> @.met + IF b = Ticked THEN 1 ELSE 0,
                             total |-> @.total + 1]]
                    ELSE phases
       /\ UNCHANGED <<inPhase, verifying, verified>>

ReadBlock ==
    /\ Len(doc) < MaxBlocks
    /\ \E b \in Blocks[kind] :
          /\ doc' = Append(doc, b)
          /\ Sectioned(b)
          /\ Phased(b)
    /\ UNCHANGED <<kind, tells>>

Next == ReadBlock

MarksSpec == Init /\ [][Next]_markVars

----------------------------------------------------------------------------
(* What the marks say of it.                                                *)

\* A heading written as the opening summary answers no question.
Researched ==
    /\ \A i \in DOMAIN sections : sections[i].state # "framed"
    /\ \E i \in DOMAIN sections :
          /\ sections[i].state = "answered"
          /\ i > 1 \/ sections[i].name # "Summary"

researched == IF sections = <<>> THEN doc # <<>> ELSE Researched

\* Mutant: a key nobody can read chooses nothing.
ChosenReadable == IF tells \in SUBSET Tell THEN tells ELSE LegacyTells
\* No key is the legacy set; a key that is empty or malformed is every tell.
Chosen ==
    CASE tells = Absent            -> LegacyTells
      [] tells \in {Malformed, {}} -> Tell
      [] OTHER                     -> tells

Present == {sections[i].name : i \in DOMAIN sections}

\* A renamed tell keeps its old heading in an audit that still uses it.
AuditTells ==
    {IF LegacyName(t) \in Present /\ NewName(t) \notin Present
     THEN LegacyName(t) ELSE NewName(t) : t \in Chosen}

\* The state of the last section of that name.
StateOf(name) ==
    LET of == {i \in DOMAIN sections : sections[i].name = name} IN
    IF of = {} THEN "empty"
    ELSE sections[CHOOSE i \in of : \A j \in of : j <= i].state

audited == \A name \in {"Summary"} \cup AuditTells : StateOf(name) = "answered"

implemented ==
    /\ phases # <<>>
    /\ \A i \in DOMAIN phases : phases[i].total # 0 /\ phases[i].met = phases[i].total

\* The mark each kind of document fills.
stagesIn ==
    CASE kind = "research" -> researched
      [] kind = "audits"   -> audited
      [] kind = "plans"    -> implemented

----------------------------------------------------------------------------
(* What a reader of the whole document would say.                           *)

At(b) == {i \in DOMAIN doc : doc[i] = b}

\* The blocks under the heading at i, up to the next named section.
Under(i) == {k \in i + 1 .. Len(doc) : \A j \in i + 1 .. k : doc[j] \notin SectionName}

IsAnswered(i) == \E k \in Under(i) : doc[k] # "quote"
IsFramed(i)   == Under(i) # {} /\ ~IsAnswered(i)

\* The criteria of the phase at i: the items between its first Verify and the
\* next heading of that depth or above, those under a deeper heading with them.
Criteria(i) ==
    {k \in Under(i) :
        /\ doc[k] \in Item
        /\ \E v \in Under(i) \cap At("Verify") :
              /\ v < k
              /\ \A j \in i + 1 .. v - 1 : doc[j] # "Verify"
              /\ \A j \in v + 1 .. k : doc[j] \in Item \cup {"quote", "text", "h4"}}

Headed(names) == UNION {At(n) : n \in names}

\* A tell is dealt with under its heading, the last one when it is repeated.
DealtWith(names) ==
    \E i \in Headed(names) : IsAnswered(i) /\ \A j \in Headed(names) : j <= i

\* The tells the audit has to deal with, as far as its key can be read.
Asked(t) ==
    \/ t \in tells
    \/ tells \in {Malformed, {}}
    \/ tells = Absent /\ t \in LegacyTells

\* The criteria counted for each phase are those under its first Verify
\* heading, up to the next heading of that depth or above, and no other
\* phase's: what PlanPhases counts in one pass.  Those under a deeper heading
\* count, and those of a second Verify do not (testdata/plan-phases.json).
PhasesCountTheirOwn ==
    LET at == At("Phase") IN
    /\ Len(phases) = Cardinality(at)
    /\ \A i \in at :
          LET n == Cardinality({j \in at : j <= i}) IN
          /\ phases[n].total = Cardinality(Criteria(i))
          /\ phases[n].met = Cardinality({k \in Criteria(i) : doc[k] = Ticked})

\* A mark is filled by a document whose work is done and by no other: a plan
\* every phase of which has criteria, all met; research with a question
\* answered and none still holding its framing; an audit with its summary and
\* every tell it chose dealt with or, when what it chose cannot be read, every
\* tell there is.
MarksAreEarned ==
    stagesIn <=>
        CASE kind = "plans" ->
                /\ At("Phase") # {}
                /\ \A i \in At("Phase") :
                      Criteria(i) # {} /\ \A k \in Criteria(i) : doc[k] = Ticked
          [] kind = "research" ->
                IF Headed(SectionName) = {} THEN doc # <<>>
                ELSE /\ \A i \in Headed(SectionName) : ~IsFramed(i)
                     /\ \E i \in Headed(SectionName) :
                           /\ IsAnswered(i)
                           /\ doc[i] = "Summary" => \E j \in Headed(SectionName) : j < i
          [] kind = "audits" ->
                /\ DealtWith({"Summary"})
                /\ \A t \in Tell : Asked(t) =>
                      DealtWith({IF At(NewName(t)) = {} THEN LegacyName(t) ELSE NewName(t)})
=============================================================================
