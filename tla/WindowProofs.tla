---------------------------- MODULE WindowProofs ----------------------------
(***************************************************************************)
(* What the window shows is so, for any sessions, texts, diagrams, owners and *)
(* pulls, and any number of changes:                                         *)
(*   - the numbers around a session were found for that session;             *)
(*   - a pull is drawn exactly while one is in flight, and a diagram is told  *)
(*     to be too slow after its own budget alone, measured against a ruler    *)
(*     nobody else holds;                                                    *)
(*   - a save loses only what was written between its read and its write;     *)
(*   - no row of the rail moves but one that is dragged or new.              *)
(*                                                                         *)
(* Each part has an inductive invariant of its own, and the joint one says     *)
(* that the part under check keeps its.                                      *)
(***************************************************************************)
EXTENDS MCWindow, FiniteSetTheorems, SequenceTheorems, WellFoundedInduction, TLAPS

-----------------------------------------------------------------------------
(* Chrome.  Numbers are the session's own: what is known was found for the     *)
(* session it is kept under, and an answer, wherever it is on its way, is of    *)
(* the session it was asked for.                                             *)

\* Nothing is known, or one measurement.
Known == {{}} \cup {{n} : n \in Numbers}

Own(known) == known \in [Session -> Known] /\ \A s \in Session : \A n \in known[s] : n.of = s

\* Only for a session is anything asked.
OwnAnswer(off) ==
    /\ off \in [root : Shown, at : {"idle", "running", "answered"}, found : Known]
    /\ off.at # "idle" => off.root \in Session
    /\ \A n \in off.found : n.of = off.root

\* The versions there are, of which no session has more than changes were made.
Counted ==
    /\ spent \in [changes : 0..MaxChanges, reveals : 0..MaxReveals]
    /\ version \in [Session -> Nat] /\ \A s \in Session : version[s] <= spent.changes

Drawn == drawn \in [shown : Shown, repos : Known, pulls : Known] /\ NumbersAreItsOwn

OwnInv ==
    /\ Counted /\ Drawn
    /\ showing \in Shown /\ lastPulled \in Shown /\ repoChanges \subseteq Session
    /\ Own(measured) /\ Own(pulls)
    /\ OwnAnswer(measuring) /\ OwnAnswer(pulling)

LEMMA IdleIsOwn == OwnAnswer(Idle)
  BY DEF OwnAnswer, Idle, Known, Shown

\* refresh and fetch ask for the session on screen, or leave what is out alone.
LEMMA AskedForItsOwn ==
    ASSUME showing \in Shown, NEW known, NEW out, OwnAnswer(out)
    PROVE  /\ OwnAnswer(Refreshed(known, out))
           /\ \A arrivalOnly, last \in BOOLEAN \cup Shown :
                 last \in Shown /\ Fetched(arrivalOnly, last, out) =>
                    OwnAnswer(pulling') /\ lastPulled' \in Shown
<1>. DEFINE asked == [Idle EXCEPT !.root = showing, !.at = "running"]
<1>1. showing # NoSession => OwnAnswer(asked)
  BY DEF OwnAnswer, Idle, Known, Shown
<1>. QED
  BY <1>1 DEF Refreshed, Fetched, FetchHeld

\* Forgetting what is known, and keeping an answer under the root it was asked for.
LEMMA KeepsItsOwn ==
    ASSUME NEW known, Own(known), NEW off, OwnAnswer(off), NEW roots
    PROVE  /\ Own(Without(roots, known))
           /\ Own([known EXCEPT ![off.root] = off.found])
<1>1. Own(Without(roots, known))
  BY DEF Without, Own, Known
<1>2. off.found \in Known
  BY DEF OwnAnswer
<1>3. [known EXCEPT ![off.root] = off.found] \in [Session -> Known]
  BY <1>2 DEF Own
<1>4. Own([known EXCEPT ![off.root] = off.found])
  BY <1>3 DEF Own, OwnAnswer
<1>. QED
  BY <1>1, <1>4

LEMMA AnsweredIsOwn ==
    ASSUME Counted, NEW off, off.at = "running", OwnAnswer(off)
    PROVE  OwnAnswer(Answered(off))
<1>1. off.root \in Session
  BY DEF OwnAnswer
<1>. DEFINE n == [of |-> off.root, version |-> version[off.root]]
<1>2. version[off.root] \in 0..MaxChanges
  <2>1. version[off.root] \in Nat /\ version[off.root] <= spent.changes /\ spent.changes \in 0..MaxChanges
    BY <1>1 DEF Counted
  <2>. QED
    BY <2>1, ChromeAssumption DEF ChromeAssumption
<1>3. n \in Numbers /\ n.of = off.root
  BY <1>1, <1>2 DEF Numbers
<1>4. Answered(off) = [off EXCEPT !.at = "answered", !.found = {n}]
  BY DEF Answered
<1>. HIDE DEF n
<1>5. {n} \in Known
  BY <1>3 DEF Known
<1>. QED
  BY <1>1, <1>3, <1>4, <1>5 DEF OwnAnswer

LEMMA OwnInitially == ChromeInit => OwnInv
<1>. SUFFICES ASSUME ChromeInit PROVE OwnInv
  OBVIOUS
<1>1. Counted
  BY ChromeAssumption DEF ChromeInit, Counted, ChromeAssumption
<1>2. Drawn
  BY DEF ChromeInit, Drawn, NumbersAreItsOwn, Shown, Known
<1>3. Own(measured) /\ Own(pulls)
  BY DEF ChromeInit, Own, Known
<1>. QED
  BY <1>1, <1>2, <1>3, IdleIsOwn DEF ChromeInit, OwnInv, Shown

\* The loop's own steps keep, forget, ask and draw.
LEMMA LoopKeepsOwn ==
    ASSUME OwnInv,
           LoopStep \/ TakeMeasurement \/ TakePulls \/ PrTick \/ StatsTick \/ FieldTick \/ TakeTouch
    PROVE  OwnInv'
<1>. USE DEF OwnInv
<1>0. UNCHANGED worldVars
  BY DEF LoopStep, Begin, PushChrome, TakeMeasurement, TakePulls, PrTick, StatsTick, FieldTick,
         TakeTouch, Select
<1>1. Counted' /\ showing' = showing
  BY <1>0 DEF worldVars, Counted
<1>2. UNCHANGED drawn => Drawn'
  BY DEF Drawn, NumbersAreItsOwn
<1>3. /\ UNCHANGED measured => Own(measured)'
      /\ UNCHANGED pulls => Own(pulls)'
      /\ UNCHANGED measuring => OwnAnswer(measuring)'
      /\ UNCHANGED pulling => OwnAnswer(pulling)'
  BY DEF Own, OwnAnswer
<1>4. \A known, out : OwnAnswer(out) => OwnAnswer(Refreshed(known, out))
  BY AskedForItsOwn
<1>5. \A arrivalOnly \in BOOLEAN, last \in Shown : \A out :
         OwnAnswer(out) /\ Fetched(arrivalOnly, last, out) => OwnAnswer(pulling') /\ lastPulled' \in Shown
  BY AskedForItsOwn
<1>6. \A out : measuring' = out /\ OwnAnswer(out) => OwnAnswer(measuring)'
  BY DEF OwnAnswer
<1>7. OwnAnswer(pulling') => OwnAnswer(pulling)'
  BY DEF OwnAnswer
<1>8. \A known : measured' = known /\ Own(known) => Own(measured)'
  BY DEF Own
<1>9. CASE Begin
  BY <1>1, <1>2, <1>3, <1>4, <1>5, <1>6, <1>7, <1>9 DEF Begin
<1>10. CASE PushChrome
  <2>1. Drawn'
    <3>1. showing # NoSession => showing \in Session
      BY DEF Shown
    <3>2. showing # NoSession => measured[showing] \in Known /\ pulls[showing] \in Known
      BY <3>1 DEF Own
    <3>3. drawn' \in [shown : Shown, repos : Known, pulls : Known]
      BY <1>10, <3>2 DEF PushChrome, Known
    <3>4. NumbersAreItsOwn'
      BY <1>10, <3>1 DEF PushChrome, NumbersAreItsOwn, Own
    <3>. QED
      BY <3>3, <3>4 DEF Drawn
  <2>. QED
    BY <1>1, <1>3, <1>10, <2>1 DEF PushChrome
<1>11. CASE TakeMeasurement
  <2>1. Own(Kept(measuring))
    BY KeepsItsOwn DEF Kept
  <2>. QED
    BY <1>1, <1>2, <1>3, <1>4, <1>6, <1>8, <1>11, <2>1, IdleIsOwn DEF TakeMeasurement, Select
<1>12. CASE TakePulls
  <2>1. Own([pulls EXCEPT ![pulling.root] = pulling.found])
    BY KeepsItsOwn
  <2>2. Own(pulls)'
    BY <1>12, <2>1 DEF TakePulls, Own
  <2>. QED
    BY <1>1, <1>2, <1>3, <1>5, <1>7, <1>12, <2>2, IdleIsOwn DEF TakePulls, Select
<1>13. CASE PrTick
  BY <1>1, <1>2, <1>3, <1>5, <1>7, <1>13 DEF PrTick, Select
<1>14. CASE StatsTick
  <2>1. Own(Without({showing}, measured))
    BY KeepsItsOwn
  <2>. QED
    BY <1>1, <1>2, <1>3, <1>4, <1>6, <1>8, <1>14, <2>1 DEF StatsTick, Select
<1>15. CASE FieldTick
  BY <1>1, <1>2, <1>3, <1>15 DEF FieldTick, Select
<1>16. CASE TakeTouch
  <2>1. Own(Without(repoChanges, measured))
    BY KeepsItsOwn
  <2>2. LastPulledAfter(repoChanges) \in Shown
    BY DEF LastPulledAfter, Shown
  <2>. QED
    BY <1>1, <1>2, <1>3, <1>4, <1>5, <1>6, <1>7, <1>8, <1>16, <2>1, <2>2 DEF TakeTouch, Select
<1>. QED
  BY <1>9, <1>10, <1>11, <1>12, <1>13, <1>14, <1>15, <1>16 DEF LoopStep

\* The rest of the workbench, and the goroutines off the loop.
LEMMA OthersKeepOwn ==
    ASSUME OwnInv,
           \/ \E s \in Session : ChangeRepositories(s) \/ RepositoriesChanged(s)
           \/ \E s \in Shown : Reveal(s)
           \/ Revealed \/ Measure \/ FetchPulls
    PROVE  OwnInv'
<1>. USE DEF OwnInv
<1>0. UNCHANGED loopVars
  BY DEF ChangeRepositories, RepositoriesChanged, Reveal, Revealed, Measure, FetchPulls
<1>1. Drawn' /\ Own(measured)' /\ Own(pulls)' /\ lastPulled' = lastPulled
  BY <1>0 DEF loopVars, Drawn, NumbersAreItsOwn, Own
<1>2. /\ UNCHANGED measuring => OwnAnswer(measuring)'
      /\ UNCHANGED pulling => OwnAnswer(pulling)'
      /\ UNCHANGED <<version, spent>> => Counted'
  BY DEF OwnAnswer, Counted
<1>3. CASE \E s \in Session : ChangeRepositories(s)
  <2>1. PICK s \in Session : ChangeRepositories(s)
    BY <1>3
  <2>2. spent.changes + 1 \in 0..MaxChanges /\ spent' = [spent EXCEPT !.changes = spent.changes + 1]
    <3>1. MaxChanges \in Nat
      BY ChromeAssumption DEF ChromeAssumption
    <3>2. spent.changes \in 0..MaxChanges
      BY DEF Counted
    <3>3. spent.changes < MaxChanges /\ spent' = [spent EXCEPT !.changes = spent.changes + 1]
      BY <2>1 DEF ChangeRepositories, Spend
    <3>. QED
      BY <3>1, <3>2, <3>3
  <2>3. spent' \in [changes : 0..MaxChanges, reveals : 0..MaxReveals] /\ spent'.changes = spent.changes + 1
    BY <2>2 DEF Counted
  <2>4. version' = [version EXCEPT ![s] = version[s] + 1]
    BY <2>1 DEF ChangeRepositories
  <2>5. Counted'
    BY <2>3, <2>4 DEF Counted
  <2>. QED
    BY <1>1, <1>2, <2>1, <2>5 DEF ChangeRepositories
<1>4. CASE \E s \in Session : RepositoriesChanged(s)
  BY <1>1, <1>2, <1>4 DEF RepositoriesChanged
<1>5. CASE \E s \in Shown : Reveal(s)
  <2>1. PICK s \in Shown : Reveal(s)
    BY <1>5
  <2>2. spent.reveals + 1 \in 0..MaxReveals /\ spent' = [spent EXCEPT !.reveals = spent.reveals + 1]
    <3>1. MaxReveals \in Nat
      BY ChromeAssumption DEF ChromeAssumption
    <3>2. spent.reveals \in 0..MaxReveals
      BY DEF Counted
    <3>3. spent.reveals < MaxReveals /\ spent' = [spent EXCEPT !.reveals = spent.reveals + 1]
      BY <2>1 DEF Reveal, Spend
    <3>. QED
      BY <3>1, <3>2, <3>3
  <2>3. spent' \in [changes : 0..MaxChanges, reveals : 0..MaxReveals] /\ spent'.changes = spent.changes
    BY <2>2 DEF Counted
  <2>4. Counted'
    BY <2>1, <2>3 DEF Counted, Reveal
  <2>. QED
    BY <1>1, <1>2, <2>1, <2>4 DEF Reveal
<1>6. CASE Revealed
  BY <1>1, <1>2, <1>6 DEF Revealed
<1>7. CASE Measure
  <2>1. OwnAnswer(Answered(measuring))
    BY <1>7, AnsweredIsOwn DEF Measure
  <2>2. OwnAnswer(measuring)'
    BY <1>7, <2>1 DEF Measure, OwnAnswer
  <2>. QED
    BY <1>1, <1>2, <1>7, <2>2 DEF Measure, worldVars
<1>8. CASE FetchPulls
  <2>1. OwnAnswer(Answered(pulling))
    BY <1>8, AnsweredIsOwn DEF FetchPulls
  <2>2. OwnAnswer(pulling)'
    BY <1>8, <2>1 DEF FetchPulls, OwnAnswer
  <2>. QED
    BY <1>1, <1>2, <1>8, <2>2 DEF FetchPulls, worldVars
<1>. QED
  BY <1>3, <1>4, <1>5, <1>6, <1>7, <1>8

LEMMA ChromeStep == OwnInv /\ [ChromeNext]_chromeVars => OwnInv'
<1>. SUFFICES ASSUME OwnInv, [ChromeNext]_chromeVars PROVE OwnInv'
  OBVIOUS
<1>1. CASE ChromeNext
  BY <1>1, LoopKeepsOwn, OthersKeepOwn DEF ChromeNext
<1>2. CASE UNCHANGED chromeVars
  BY <1>2 DEF chromeVars, OwnInv, Own, OwnAnswer, Counted, Drawn, NumbersAreItsOwn
<1>. QED
  BY <1>1, <1>2

LEMMA ChromeShows == OwnInv => ChromeTypeOK /\ NumbersAreItsOwn
  BY DEF OwnInv, Own, Drawn, ChromeTypeOK, Known

-----------------------------------------------------------------------------
(* Pulls of the search model.  A probe that has not been overtaken was begun    *)
(* with no pull in flight, and none has begun since.                          *)

\* The variables of Ollama, by their names there.
server == v1
status == v2
pull == v3
begun == v4
generation == v5
at == v6
cancelled == v7
asker == v8
quitting == v9
USE DEF server, status, pull, begun, generation, at, cancelled, asker, quitting

StatusSet == [state : Ollama!Found \cup {"", "pulling", "failed"}, percent : {0, 50}]
PullerSet == [at : {"none", "streaming", "probing", "ended"}, found : Ollama!Found \cup {"failed"}]
AskerSet  == [at : {"idle", "probing", "probed"}, generation : Nat, found : Ollama!Found]

OllamaTyped ==
    /\ server \in Ollama!Found /\ status \in StatusSet
    /\ pull \in 0..MaxPulls /\ begun \in 0..MaxPulls /\ generation \in Nat
    /\ at \in [1..MaxPulls -> PullerSet] /\ cancelled \subseteq 1..MaxPulls
    /\ asker \in [Asker -> AskerSet]

ProbedAlone ==
    \A a \in Asker :
        /\ asker[a].generation <= generation
        /\ asker[a].at # "idle" /\ asker[a].generation = generation => pull = 0

OllamaKept == OllamaTyped /\ ProbedAlone /\ Ollama!PullingIsInFlight

OllamaInv == OllamaKept /\ quitting \in BOOLEAN

LEMMA PullsAreCounted == MaxPulls \in Nat
  BY PartsAssumption DEF PartsAssumption, Ollama!MaxPullsAssumption

LEMMA RestingPull ==
    /\ Ollama!Idle \in AskerSet /\ Ollama!Idle.at = "idle" /\ Ollama!Idle.generation = 0
    /\ [at |-> "none", found |-> "missing"] \in PullerSet
  BY DEF AskerSet, PullerSet, Ollama!Idle, Ollama!Found

LEMMA OllamaInit == Ollama!Init => OllamaInv
<1>. SUFFICES ASSUME Ollama!Init PROVE OllamaInv
  OBVIOUS
<1>1. /\ status = [state |-> "", percent |-> 0]
      /\ at = [p \in 1..MaxPulls |-> [at |-> "none", found |-> "missing"]]
      /\ asker = [a \in Asker |-> Ollama!Idle]
  BY Zenon DEF Ollama!Init
<1>0. server \in Ollama!Found /\ pull = 0 /\ begun = 0 /\ generation = 0 /\ cancelled = {}
  BY Zenon DEF Ollama!Init
<1>2. quitting \in BOOLEAN
  BY DEF Ollama!Init
<1>3. OllamaTyped
  <2>1. status \in StatusSet /\ status.state # "pulling"
    BY <1>1 DEF StatusSet
  <2>2. at \in [1..MaxPulls -> PullerSet] /\ asker \in [Asker -> AskerSet]
    BY <1>1, RestingPull
  <2>. QED
    BY <1>0, <2>1, <2>2, PullsAreCounted DEF OllamaTyped
<1>4. ProbedAlone
  <2>1. \A a \in Asker : asker[a] = Ollama!Idle
    BY <1>1
  <2>. QED
    BY <1>0, <2>1, RestingPull DEF ProbedAlone
<1>5. Ollama!PullingIsInFlight
  BY <1>0, <1>1 DEF Ollama!PullingIsInFlight
<1>. QED
  BY <1>2, <1>3, <1>4, <1>5 DEF OllamaInv, OllamaKept

\* The pull and the generation are as they were, and no call of Check has come to look
\* but one that found no pull.
LEMMA QuietKeeps ==
    ASSUME OllamaKept, OllamaTyped', UNCHANGED <<pull, begun, generation>>,
           \A a \in Asker :
              \/ asker'[a].generation = asker[a].generation /\ asker[a].at # "idle"
              \/ asker'[a] = asker[a]
              \/ asker'[a].generation = generation /\ pull = 0
              \/ asker'[a] = Ollama!Idle,
           \/ UNCHANGED status
           \/ status'.state = "pulling" /\ pull # 0
           \/ status'.state # "pulling" /\ pull = 0,
           pull # 0 => at'[pull].at # "none"
    PROVE  OllamaKept'
<1>1. generation \in Nat
  BY DEF OllamaKept, OllamaTyped
<1>2. ProbedAlone'
  BY <1>1, RestingPull DEF OllamaKept, ProbedAlone
<1>3. Ollama!PullingIsInFlight'
  BY DEF OllamaKept, Ollama!PullingIsInFlight
<1>. QED
  BY <1>2, <1>3 DEF OllamaKept

LEMMA ChecksKeep ==
    ASSUME OllamaInv, NEW a \in Asker, Ollama!AskCheck(a) \/ Ollama!Answer(a) \/ Ollama!Told(a)
    PROVE  OllamaKept'
<1>0. /\ OllamaKept /\ OllamaTyped /\ asker \in [Asker -> AskerSet] /\ generation \in Nat
      /\ pull # 0 => at[pull].at # "none"
  BY DEF OllamaInv, OllamaKept, OllamaTyped, Ollama!PullingIsInFlight
<1>1. UNCHANGED <<server, pull, begun, generation, at, cancelled>>
  BY DEF Ollama!AskCheck, Ollama!Answer, Ollama!Told
<1>2. ASSUME NEW k \in AskerSet, asker' = [asker EXCEPT ![a] = k], status' \in StatusSet
      PROVE  OllamaTyped' /\ \A b \in Asker : asker'[b] = IF b = a THEN k ELSE asker[b]
  BY <1>0, <1>1, <1>2 DEF OllamaTyped
<1>3. CASE Ollama!AskCheck(a)
  <2>. DEFINE k == [Ollama!Idle EXCEPT !.at = "probing", !.generation = generation]
  <2>1. k \in AskerSet /\ k.generation = generation
    BY <1>0, RestingPull DEF AskerSet
  <2>2. asker' = [asker EXCEPT ![a] = k] /\ UNCHANGED status /\ pull = 0
    BY <1>3 DEF Ollama!AskCheck
  <2>3. status' \in StatusSet
    BY <1>0, <2>2 DEF OllamaTyped
  <2>. HIDE DEF k
  <2>. QED
    BY <1>0, <1>1, <1>2, <2>1, <2>2, <2>3, QuietKeeps
<1>4. CASE Ollama!Answer(a)
  <2>1. Ollama!Probe \in Ollama!Found
    <3>1. CASE quitting
      BY <3>1 DEF Ollama!Probe, Ollama!Found
    <3>2. CASE ~quitting
      BY <1>0, <3>2 DEF Ollama!Probe, OllamaTyped
    <3>. QED
      BY <3>1, <3>2
  <2>. DEFINE k == [asker[a] EXCEPT !.at = "probed", !.found = Ollama!Probe]
  <2>2. k \in AskerSet /\ k.generation = asker[a].generation
    BY <1>0, <2>1 DEF AskerSet
  <2>3. asker' = [asker EXCEPT ![a] = k] /\ UNCHANGED status /\ asker[a].at # "idle"
    BY <1>4 DEF Ollama!Answer
  <2>4. status' \in StatusSet
    BY <1>0, <2>3 DEF OllamaTyped
  <2>. HIDE DEF k
  <2>. QED
    BY <1>0, <1>1, <1>2, <2>2, <2>3, <2>4, QuietKeeps
<1>5. CASE Ollama!Told(a)
  <2>1. asker' = [asker EXCEPT ![a] = Ollama!Idle]
    BY <1>5 DEF Ollama!Told
  <2>2. \/ UNCHANGED status
        \/ pull = 0 /\ status' = Ollama!State(asker[a].found)
    BY <1>5 DEF Ollama!Told, Ollama!StillTrue, OllamaInv, OllamaKept, ProbedAlone
  <2>3. asker[a].found \in Ollama!Found
    BY <1>0 DEF AskerSet
  <2>4. Ollama!State(asker[a].found) \in StatusSet /\ Ollama!State(asker[a].found).state # "pulling"
    BY <2>3 DEF Ollama!State, StatusSet, Ollama!Found
  <2>5. status' \in StatusSet /\ (UNCHANGED status \/ (pull = 0 /\ status'.state # "pulling"))
    <3>1. status \in StatusSet
      BY <1>0 DEF OllamaTyped
    <3>. QED
      BY <2>2, <2>4, <3>1
  <2>. QED
    BY <1>0, <1>1, <1>2, <2>1, <2>5, RestingPull, QuietKeeps
<1>. QED
  BY <1>3, <1>4, <1>5

\* A pull that begins or ends counts the generation on, so that nothing probed is told.
LEMMA TurnedKeeps ==
    ASSUME OllamaKept, OllamaTyped', UNCHANGED asker, generation' = generation + 1,
           status'.state = "pulling" <=> pull' # 0,
           pull' # 0 => at'[pull'].at # "none"
    PROVE  OllamaKept'
<1>1. generation \in Nat /\ \A a \in Asker : asker[a].generation \in Nat
  BY DEF OllamaKept, OllamaTyped, AskerSet
<1>2. ProbedAlone'
  BY <1>1 DEF OllamaKept, ProbedAlone
<1>. QED
  BY <1>2 DEF OllamaKept, Ollama!PullingIsInFlight

LEMMA PullsKeep == ASSUME OllamaInv, Ollama!Pull \/ Ollama!CancelPull PROVE OllamaKept'
<1>0. OllamaKept /\ OllamaTyped /\ MaxPulls \in Nat /\ generation \in Nat /\ generation + 1 \in Nat
  BY PullsAreCounted DEF OllamaInv, OllamaKept, OllamaTyped
<1>1. UNCHANGED <<server, asker>> /\ generation' = generation + 1
  BY DEF Ollama!Pull, Ollama!CancelPull, Ollama!finishLocked
<1>2. CASE Ollama!Pull
  <2>1. begun < MaxPulls /\ begun' = begun + 1 /\ pull' = begun + 1
    BY <1>2 DEF Ollama!Pull
  <2>2. begun + 1 \in 1..MaxPulls
    BY <1>0, <2>1 DEF OllamaTyped
  <2>3. status' = Ollama!State("pulling") /\ at' = [at EXCEPT ![begun + 1].at = "streaming"]
    BY <1>2, <2>1 DEF Ollama!Pull
  <2>4. cancelled' \subseteq 1..MaxPulls
    <3>1. cancelled' \subseteq cancelled \cup {begun + 1}
      BY <1>2, <2>1 DEF Ollama!Pull
    <3>. QED
      BY <1>0, <2>2, <3>1 DEF OllamaTyped
  <2>5. status' \in StatusSet /\ status'.state = "pulling"
    BY <2>3 DEF Ollama!State, StatusSet, Ollama!Found
  <2>6. at' \in [1..MaxPulls -> PullerSet] /\ at'[begun + 1].at = "streaming"
    BY <1>0, <2>2, <2>3 DEF OllamaTyped, PullerSet
  <2>7. OllamaTyped'
    BY <1>0, <1>1, <2>1, <2>2, <2>4, <2>5, <2>6 DEF OllamaTyped
  <2>. QED
    BY <1>0, <1>1, <2>1, <2>2, <2>5, <2>6, <2>7, TurnedKeeps
<1>3. CASE Ollama!CancelPull
  <2>1. /\ pull # 0 /\ pull' = 0 /\ status' = Ollama!State("missing") /\ UNCHANGED <<begun, at>>
        /\ cancelled' = cancelled \cup {pull}
    BY <1>3 DEF Ollama!CancelPull, Ollama!finishLocked
  <2>2. status' \in StatusSet /\ status'.state # "pulling"
    BY <2>1 DEF Ollama!State, StatusSet, Ollama!Found
  <2>3. OllamaTyped'
    BY <1>0, <1>1, <2>1, <2>2 DEF OllamaTyped
  <2>. QED
    BY <1>0, <1>1, <2>1, <2>2, <2>3, TurnedKeeps
<1>. QED
  BY <1>2, <1>3

\* The goroutine of a pull.
LEMMA PullersKeep ==
    ASSUME OllamaInv, NEW p \in 1..MaxPulls,
           Ollama!Progress(p) \/ Ollama!Pulled(p) \/ Ollama!Broken(p) \/ Ollama!PullStep(p)
    PROVE  OllamaKept'
<1>0. /\ OllamaKept /\ OllamaTyped /\ generation \in Nat /\ generation + 1 \in Nat
      /\ at[p] \in PullerSet /\ MaxPulls \in Nat /\ p # 0
      /\ status.state = "pulling" <=> pull # 0
      /\ pull # 0 => at[pull].at # "none"
  BY PullsAreCounted DEF OllamaInv, OllamaKept, OllamaTyped, Ollama!PullingIsInFlight
<1>1. ASSUME NEW k \in PullerSet, at' = [at EXCEPT ![p] = k], k.at # "none",
             UNCHANGED <<status, pull, begun, generation, cancelled, asker>>,
             server' \in Ollama!Found
      PROVE  OllamaKept'
  <2>1. at' \in [1..MaxPulls -> PullerSet] /\ \A q \in 1..MaxPulls : at'[q] = IF q = p THEN k ELSE at[q]
    BY <1>0, <1>1 DEF OllamaTyped
  <2>2. OllamaTyped'
    BY <1>0, <1>1, <2>1 DEF OllamaTyped
  <2>3. pull # 0 => at'[pull].at # "none"
    BY <1>0, <1>1, <2>1 DEF OllamaTyped
  <2>. QED
    BY <1>0, <1>1, <2>2, <2>3, QuietKeeps
<1>2. CASE Ollama!Progress(p)
  <2>1. UNCHANGED <<server, pull, begun, generation, at, cancelled, asker>>
    BY <1>2 DEF Ollama!Progress
  <2>2. \/ UNCHANGED status
        \/ pull = p /\ status' = [state |-> "pulling", percent |-> 50]
    BY <1>2 DEF Ollama!Progress, Ollama!InFlight
  <2>3. status' \in StatusSet /\ (UNCHANGED status \/ (status'.state = "pulling" /\ pull # 0))
    <3>1. status \in StatusSet
      BY <1>0 DEF OllamaTyped
    <3>2. [state |-> "pulling", percent |-> 50] \in StatusSet
      BY DEF StatusSet
    <3>. QED
      BY <1>0, <2>2, <3>1, <3>2
  <2>4. OllamaTyped'
    BY <1>0, <2>1, <2>3 DEF OllamaTyped
  <2>. QED
    BY <1>0, <2>1, <2>3, <2>4, QuietKeeps
<1>3. CASE Ollama!Pulled(p)
  <2>. DEFINE k == [at[p] EXCEPT !.at = "probing"]
  <2>1. k \in PullerSet /\ k.at = "probing"
    BY <1>0 DEF PullerSet
  <2>2. at' = [at EXCEPT ![p] = k] /\ server' = "ready"
    BY <1>3 DEF Ollama!Pulled
  <2>3. UNCHANGED <<status, pull, begun, generation, cancelled, asker>>
    BY <1>3 DEF Ollama!Pulled
  <2>4. server' \in Ollama!Found
    BY <2>2 DEF Ollama!Found
  <2>. HIDE DEF k
  <2>. QED
    BY <1>1, <2>1, <2>2, <2>3, <2>4
<1>4. CASE Ollama!Broken(p) \/ Ollama!Refused(p) \/ Ollama!ProbePulled(p)
  <2>1. PICK f : at' = [at EXCEPT ![p] = [at |-> "ended", found |-> f]] /\ f \in {"failed", Ollama!Probe}
    BY <1>4 DEF Ollama!Broken, Ollama!Refused, Ollama!ProbePulled
  <2>2. UNCHANGED <<server, status, pull, begun, generation, cancelled, asker>>
    BY <1>4 DEF Ollama!Broken, Ollama!Refused, Ollama!ProbePulled
  <2>3. Ollama!Probe \in Ollama!Found
    <3>1. CASE quitting
      BY <3>1 DEF Ollama!Probe, Ollama!Found
    <3>2. CASE ~quitting
      BY <1>0, <3>2 DEF Ollama!Probe, OllamaTyped
    <3>. QED
      BY <3>1, <3>2
  <2>. DEFINE k == [at |-> "ended", found |-> f]
  <2>4. k \in PullerSet /\ k.at = "ended"
    BY <2>1, <2>3 DEF PullerSet
  <2>5. server' \in Ollama!Found
    BY <1>0, <2>2 DEF OllamaTyped
  <2>6. at' = [at EXCEPT ![p] = k]
    BY <2>1
  <2>. HIDE DEF k
  <2>. QED
    BY <1>1, <2>2, <2>4, <2>5, <2>6
<1>5. CASE Ollama!Finish(p)
  <2>1. /\ at[p].at = "ended" /\ at' = [at EXCEPT ![p] = [at |-> "none", found |-> "missing"]]
        /\ UNCHANGED <<server, begun, cancelled, asker>>
    BY <1>5 DEF Ollama!Finish
  <2>2. at' \in [1..MaxPulls -> PullerSet] /\ \A q \in 1..MaxPulls : q # p => at'[q] = at[q]
    BY <1>0, <2>1, RestingPull DEF OllamaTyped
  <2>3. CASE pull = p
    <3>1. pull' = 0 /\ generation' = generation + 1 /\ status' = Ollama!State(at[p].found)
      BY <1>5, <2>3 DEF Ollama!Finish, Ollama!InFlight, Ollama!finishLocked
    <3>2. status' \in StatusSet /\ status'.state # "pulling"
      BY <1>0, <3>1 DEF Ollama!State, StatusSet, PullerSet, Ollama!Found
    <3>3. OllamaTyped'
      BY <1>0, <2>1, <2>2, <3>1, <3>2 DEF OllamaTyped
    <3>. QED
      BY <1>0, <2>1, <3>1, <3>2, <3>3, TurnedKeeps
  <2>4. CASE pull # p
    <3>1. UNCHANGED <<pull, generation, status>>
      BY <1>5, <2>4 DEF Ollama!Finish, Ollama!InFlight
    <3>2. OllamaTyped'
      BY <1>0, <2>1, <2>2, <3>1 DEF OllamaTyped
    <3>3. pull # 0 => at'[pull].at # "none"
      BY <1>0, <2>2, <2>4 DEF OllamaTyped
    <3>. QED
      BY <1>0, <2>1, <3>1, <3>2, <3>3, QuietKeeps
  <2>. QED
    BY <2>3, <2>4
<1>. QED
  BY <1>2, <1>3, <1>4, <1>5 DEF Ollama!PullStep

LEMMA OllamaStep == OllamaInv /\ [Ollama!Next]_(Ollama!ollamaVars) => OllamaInv'
<1>. SUFFICES ASSUME OllamaInv, [Ollama!Next]_(Ollama!ollamaVars) PROVE OllamaInv'
  OBVIOUS
<1>0. /\ OllamaKept /\ OllamaTyped
      /\ pull # 0 => at[pull].at # "none"
  BY DEF OllamaInv, OllamaKept, Ollama!PullingIsInFlight
<1>1. quitting' \in BOOLEAN
  <2>1. UNCHANGED quitting \/ quitting' = TRUE
    BY DEF Ollama!Next, Ollama!AskCheck, Ollama!Answer, Ollama!Told, Ollama!Pull, Ollama!CancelPull,
           Ollama!Progress, Ollama!Pulled, Ollama!Broken, Ollama!PullStep, Ollama!ProbePulled,
           Ollama!Refused, Ollama!Finish, Ollama!Quit, Ollama!ServerChanges, Ollama!ollamaVars
  <2>. QED
    BY <2>1 DEF OllamaInv
<1>2. CASE UNCHANGED Ollama!ollamaVars
  <2>1. UNCHANGED <<server, status, pull, begun, generation, at, cancelled, asker>>
    BY <1>2 DEF Ollama!ollamaVars
  <2>2. OllamaKept'
    BY <1>0, <2>1 DEF OllamaKept, OllamaTyped, ProbedAlone, Ollama!PullingIsInFlight
  <2>. QED
    BY <1>1, <2>2 DEF OllamaInv
<1>3. CASE Ollama!Quit
  <2>1. /\ UNCHANGED <<server, status, pull, begun, generation, at, asker>>
        /\ cancelled' = cancelled \cup {p \in 1 .. MaxPulls : at[p].at # "none"}
    BY <1>3, Zenon DEF Ollama!Quit
  <2>2. OllamaTyped'
    BY <1>0, <2>1 DEF OllamaTyped
  <2>3. OllamaKept'
    BY <1>0, <2>1, <2>2, QuietKeeps
  <2>. QED
    BY <1>1, <2>3 DEF OllamaInv
<1>4. CASE Ollama!ServerChanges
  <2>1. /\ UNCHANGED <<status, pull, begun, generation, at, cancelled, asker>>
        /\ server' \in Ollama!Found
    BY <1>4 DEF Ollama!ServerChanges
  <2>2. OllamaTyped'
    BY <1>0, <2>1 DEF OllamaTyped
  <2>3. OllamaKept'
    BY <1>0, <2>1, <2>2, QuietKeeps
  <2>. QED
    BY <1>1, <2>3 DEF OllamaInv
<1>. QED
  BY <1>1, <1>2, <1>3, <1>4, ChecksKeep, PullsKeep, PullersKeep DEF Ollama!Next, OllamaInv

LEMMA OllamaShows == OllamaInv => Ollama!OllamaTypeOK /\ Ollama!PullingIsInFlight
<1>. SUFFICES ASSUME OllamaInv PROVE Ollama!OllamaTypeOK
  BY DEF OllamaInv, OllamaKept
<1>1. quitting \in BOOLEAN
  BY DEF OllamaInv
<1>. QED
  BY <1>1 DEF OllamaInv, OllamaKept, OllamaTyped, StatusSet, PullerSet, AskerSet, Ollama!OllamaTypeOK

-----------------------------------------------------------------------------
(* Diagrams.  The drawing the renderer waits for is the only one that holds     *)
(* its ruler, and is of the fence its run is parked on; while no drawing is     *)
(* waited for, nobody holds the ruler.                                        *)

\* The variables of Diagrams, by their names there.
run == v1
worker == v2
ruler == v3
drawing == v4
cause == v5
cache == v6
overran == v7
quit == v8
USE DEF run, worker, ruler, drawing, cause, cache, overran, quit

RunSet == [at : {"idle", "sending", "parked", "answered", "done"}, left : Seq(Fence),
           reply : Diagrams!Verdict \cup {Diagrams!Nothing}]
WorkerSet  == [at : {"free", "looking", "drawing", "stopped"}, for : Run \cup {NoRuns}]
DrawingSet == [ruler : Nat \ {0}, of : Fence, awaited : BOOLEAN]
VerdictSet == [of : Fence, verdict : Diagrams!Verdict]

DiagramsTyped ==
    /\ run \in [Run -> RunSet] /\ worker \in WorkerSet /\ ruler \in Nat
    /\ drawing \subseteq DrawingSet /\ IsFiniteSet(drawing)
    /\ cause \in {"none", "deadline", "cancelled"}
    /\ cache \in Seq(VerdictSet) /\ overran \subseteq Fence
    /\ quit \in {"no", "closed", "cancelled", "closing", "over"}

\* What a run has yet to be told of is a fence.
HasMore == \A r \in Run : run[r].at \in {"sending", "parked", "answered"} => run[r].left # <<>>

\* A source is too slow when its own budget ran out.
TooSlow(f) == f \in overran

\* A run told that its fence is too slow, unless the desktop is quitting.
ToldTruly ==
    \A r \in Run :
        /\ run[r].at = "parked" /\ run[r].reply = "late" =>
              TooSlow(Head(run[r].left)) \/ Diagrams!Cancelled
        /\ run[r].at = "answered" /\ ~Diagrams!Cancelled =>
              /\ run[r].reply # Diagrams!Nothing
              /\ run[r].reply = "late" => TooSlow(Head(run[r].left))

TrueVerdicts == {e \in VerdictSet : e.verdict = "late" => TooSlow(e.of)}
CachedTruly  == cache \in Seq(TrueVerdicts)

\* The renderer serves a run that is parked for it, or that left at a quit.
Serving ==
    worker.at \in {"looking", "drawing"} =>
        /\ worker.for \in Run /\ run[worker.for].left # <<>>
        /\ \/ run[worker.for].at = "parked" /\ run[worker.for].reply = Diagrams!Nothing
           \/ run[worker.for].at \in {"answered", "done"} /\ Diagrams!Cancelled

\* The drawing waited for.
IsAwaited(a) ==
    /\ a \in drawing /\ a.awaited /\ a.ruler = ruler
    /\ \A d \in drawing : d.awaited \/ d.ruler = ruler => d = a
    /\ cause = "deadline" => TooSlow(a.of)
    /\ run[worker.for].at = "parked" => a.of = Head(run[worker.for].left)

Measured ==
    /\ worker.at = "drawing" => \E a \in drawing : IsAwaited(a)
    /\ worker.at # "drawing" => \A d \in drawing : ~d.awaited /\ d.ruler # ruler
    /\ cause = "cancelled" => Diagrams!Cancelled

DiagramsInv ==
    DiagramsTyped /\ HasMore /\ ToldTruly /\ CachedTruly /\ Serving /\ Measured

LEMMA DiagramsInit == Diagrams!Init => DiagramsInv
<1>. SUFFICES ASSUME Diagrams!Init PROVE DiagramsInv
  OBVIOUS
<1>. USE DEF Diagrams!Init
<1>1. Diagrams!Idle \in RunSet /\ Diagrams!Idle.at = "idle"
  BY DEF Diagrams!Idle, RunSet
<1>2. run \in [Run -> RunSet] /\ \A r \in Run : run[r].at = "idle"
  BY <1>1
<1>3. worker \in WorkerSet /\ worker.at = "free"
  BY DEF WorkerSet
<1>4. cache \in Seq(VerdictSet) /\ cache \in Seq(TrueVerdicts)
  OBVIOUS
<1>5. DiagramsTyped
  BY <1>2, <1>3, <1>4, FS_EmptySet DEF DiagramsTyped
<1>6. HasMore /\ ToldTruly
  BY <1>2 DEF HasMore, ToldTruly
<1>7. CachedTruly
  BY <1>4 DEF CachedTruly
<1>8. Serving
  BY <1>3 DEF Serving
<1>9. Measured
  BY <1>3 DEF Measured
<1>. QED
  BY <1>5, <1>6, <1>7, <1>8, <1>9 DEF DiagramsInv

\* A run moves on, and the renderer's goroutine serves whom it served, or this one now.
LEMMA RunMoves ==
    ASSUME DiagramsInv, NEW r \in Run, NEW k \in RunSet, run' = [run EXCEPT ![r] = k],
           UNCHANGED <<ruler, drawing, cause, cache, overran, quit>>,
           k.at \in {"sending", "parked", "answered"} => k.left # <<>>,
           k.at = "parked" /\ k.reply = "late" => TooSlow(Head(k.left)) \/ Diagrams!Cancelled,
           k.at = "answered" /\ ~Diagrams!Cancelled =>
              k.reply # Diagrams!Nothing /\ (k.reply = "late" => TooSlow(Head(k.left))),
           \/ UNCHANGED worker
           \/ worker' = [at |-> "looking", for |-> r] /\ worker.at = "free",
           r = worker'.for /\ worker'.at \in {"looking", "drawing"} =>
              /\ k.left # <<>>
              /\ \/ k.at = "parked" /\ k.reply = Diagrams!Nothing
                 \/ k.at \in {"answered", "done"} /\ Diagrams!Cancelled
              /\ worker'.at = "drawing" /\ k.at = "parked" =>
                    run[r].at = "parked" /\ k.left = run[r].left
    PROVE  DiagramsInv'
<1>1. run' \in [Run -> RunSet] /\ \A q \in Run : run'[q] = IF q = r THEN k ELSE run[q]
  BY DEF DiagramsInv, DiagramsTyped
<1>2. worker' \in WorkerSet
  BY DEF DiagramsInv, DiagramsTyped, WorkerSet
<1>3. DiagramsTyped'
  BY <1>1, <1>2 DEF DiagramsInv, DiagramsTyped
<1>4. Diagrams!Cancelled' = Diagrams!Cancelled /\ \A f : TooSlow(f)' = TooSlow(f)
  BY DEF Diagrams!Cancelled, TooSlow
<1>5. HasMore'
  BY <1>1 DEF DiagramsInv, HasMore
<1>6. ToldTruly'
  BY <1>1, <1>4 DEF DiagramsInv, ToldTruly
<1>7. CachedTruly'
  BY <1>4 DEF DiagramsInv, CachedTruly, TrueVerdicts, TooSlow
<1>8. Serving'
  BY <1>1, <1>4 DEF DiagramsInv, Serving
<1>9. Measured'
  <2>1. CASE worker'.at = "drawing"
    <3>1. UNCHANGED worker /\ worker.for \in Run
      BY <2>1 DEF DiagramsInv, Serving
    <3>2. PICK a \in drawing : IsAwaited(a)
      BY <2>1, <3>1 DEF DiagramsInv, Measured
    <3>3. IsAwaited(a)'
      BY <1>1, <1>4, <2>1, <3>1, <3>2 DEF IsAwaited
    <3>. QED
      BY <1>4, <2>1, <3>2, <3>3 DEF DiagramsInv, Measured
  <2>2. CASE worker'.at # "drawing"
    <3>1. worker.at # "drawing"
      BY <2>2
    <3>. QED
      BY <1>4, <2>2, <3>1 DEF DiagramsInv, Measured
  <2>. QED
    BY <2>1, <2>2
<1>. QED
  BY <1>3, <1>5, <1>6, <1>7, <1>8, <1>9 DEF DiagramsInv

\* Whatever a document holds, its fences are fences, and there is room for two.
LEMMA FencesAreSources == Diagrams!Fences \subseteq Seq(Fence)
<1>. SUFFICES ASSUME NEW s \in Diagrams!Fences PROVE s \in Seq(Fence)
  OBVIOUS
<1>1. CASE s = <<>>
  BY <1>1
<1>2. CASE \E f \in Fence : s = <<f>>
  BY <1>2
<1>3. CASE s \in [1..2 -> Fence]
  <2>1. 2 \in Nat /\ s \in [1..2 -> Fence]
    BY <1>3
  <2>. QED
    BY <2>1, SeqDef
<1>. QED
  BY <1>1, <1>2, <1>3 DEF Diagrams!Fences

LEMMA RunKeeps ==
    ASSUME DiagramsInv, NEW r \in Run, Diagrams!Open(r) \/ Diagrams!RunStep(r)
    PROVE  DiagramsInv'
<1>0. /\ run[r] \in RunSet /\ UNCHANGED <<ruler, drawing, cause, cache, overran, quit>>
      /\ run[r].left \in Seq(Fence)
      /\ run[r].at \in {"sending", "parked", "answered"} => run[r].left # <<>>
  BY DEF DiagramsInv, DiagramsTyped, HasMore, RunSet, Diagrams!Open, Diagrams!RunStep,
         Diagrams!TakeJob, Diagrams!Leave, Diagrams!Answered, Diagrams!Emit
<1>1. r = worker.for /\ worker.at \in {"looking", "drawing"} =>
         /\ run[r].left # <<>>
         /\ \/ run[r].at = "parked" /\ run[r].reply = Diagrams!Nothing
            \/ run[r].at \in {"answered", "done"} /\ Diagrams!Cancelled
  BY DEF DiagramsInv, Serving
<1>2. Diagrams!Nothing \notin Diagrams!Verdict /\ "late" \in Diagrams!Verdict
  BY DEF Diagrams!Nothing, Diagrams!Verdict
<1>3. CASE Diagrams!Open(r)
  <2>1. PICK misses \in Diagrams!Fences :
          run' = [run EXCEPT ![r] =
                    IF Diagrams!Closed \/ misses = <<>> THEN [@ EXCEPT !.at = "done"]
                    ELSE [@ EXCEPT !.at = "sending", !.left = misses]]
    BY <1>3 DEF Diagrams!Open
  <2>2. misses \in Seq(Fence) /\ run[r].at = "idle" /\ UNCHANGED worker
    BY <1>3, FencesAreSources DEF Diagrams!Open
  <2>3. PICK k \in RunSet : /\ run' = [run EXCEPT ![r] = k]
                            /\ k.at \in {"done", "sending"}
                            /\ k.at = "sending" => k.left # <<>>
    <3>1. CASE Diagrams!Closed \/ misses = <<>>
      <4>. DEFINE k == [run[r] EXCEPT !.at = "done"]
      <4>1. run' = [run EXCEPT ![r] = k] /\ k \in RunSet /\ k.at = "done"
        BY <1>0, <2>1, <3>1 DEF RunSet
      <4>. QED
        BY <4>1
    <3>2. CASE ~(Diagrams!Closed \/ misses = <<>>)
      <4>. DEFINE k == [run[r] EXCEPT !.at = "sending", !.left = misses]
      <4>1. run' = [run EXCEPT ![r] = k] /\ k \in RunSet /\ k.at = "sending" /\ k.left # <<>>
        BY <1>0, <2>1, <2>2, <3>2 DEF RunSet
      <4>. QED
        BY <4>1
    <3>. QED
      BY <3>1, <3>2
  <2>. QED
    BY <1>0, <1>1, <2>2, <2>3, RunMoves
<1>4. CASE Diagrams!TakeJob(r)
  <2>. DEFINE k == [run[r] EXCEPT !.at = "parked", !.reply = Diagrams!Nothing]
  <2>1. k \in RunSet /\ k.at = "parked" /\ k.reply = Diagrams!Nothing /\ k.left = run[r].left
    BY <1>0 DEF RunSet
  <2>2. run' = [run EXCEPT ![r] = k]
    BY <1>4 DEF Diagrams!TakeJob
  <2>3. run[r].at = "sending" /\ worker.at = "free" /\ worker' = [at |-> "looking", for |-> r]
    BY <1>4 DEF Diagrams!TakeJob
  <2>4. worker'.at = "looking"
    BY <2>3
  <2>. HIDE DEF k
  <2>. QED
    BY <1>0, <1>2, <2>1, <2>2, <2>3, <2>4, RunMoves
<1>5. CASE Diagrams!Leave(r)
  <2>. DEFINE k == [run[r] EXCEPT !.at = "answered", !.reply = Diagrams!Nothing]
  <2>1. k \in RunSet /\ k.at = "answered" /\ k.left = run[r].left
    BY <1>0 DEF RunSet
  <2>2. run' = [run EXCEPT ![r] = k] /\ UNCHANGED worker /\ run[r].at \in {"sending", "parked"}
    BY <1>5 DEF Diagrams!Leave
  <2>3. Diagrams!Cancelled
    BY <1>5 DEF Diagrams!Leave, Diagrams!Closing, Diagrams!Cancelled
  <2>. HIDE DEF k
  <2>. QED
    BY <1>0, <1>1, <2>1, <2>2, <2>3, RunMoves
<1>6. CASE Diagrams!Answered(r)
  <2>. DEFINE k == [run[r] EXCEPT !.at = "answered"]
  <2>1. k \in RunSet /\ k.at = "answered" /\ k.left = run[r].left /\ k.reply = run[r].reply
    BY <1>0 DEF RunSet
  <2>2. /\ run' = [run EXCEPT ![r] = k] /\ UNCHANGED worker
        /\ run[r].at = "parked" /\ run[r].reply # Diagrams!Nothing
    BY <1>6 DEF Diagrams!Answered
  <2>3. k.reply = "late" => TooSlow(Head(k.left)) \/ Diagrams!Cancelled
    BY <2>1, <2>2 DEF DiagramsInv, ToldTruly
  <2>. HIDE DEF k
  <2>. QED
    BY <1>0, <1>1, <2>1, <2>2, <2>3, RunMoves
<1>7. CASE Diagrams!Emit(r)
  <2>1. UNCHANGED worker /\ run[r].at = "answered"
    BY <1>7 DEF Diagrams!Emit
  <2>2. CASE Diagrams!Cancelled
    <3>. DEFINE k == [run[r] EXCEPT !.at = "done"]
    <3>1. k \in RunSet /\ k.at = "done" /\ k.left = run[r].left
      BY <1>0 DEF RunSet
    <3>2. run' = [run EXCEPT ![r] = k]
      BY <1>7, <2>2 DEF Diagrams!Emit
    <3>. HIDE DEF k
    <3>. QED
      BY <1>0, <2>1, <2>2, <3>1, <3>2, RunMoves
  <2>3. CASE ~Diagrams!Cancelled
    <3>. DEFINE k == [at    |-> IF Len(run[r].left) = 1 THEN "done" ELSE "sending",
                      left  |-> Tail(run[r].left), reply |-> Diagrams!Nothing]
    <3>1. run' = [run EXCEPT ![r] = k]
      BY <1>7, <2>3 DEF Diagrams!Emit
    <3>2. k.at \in {"done", "sending"} /\ k.left = Tail(run[r].left) /\ k.reply = Diagrams!Nothing
      OBVIOUS
    <3>3. Tail(run[r].left) \in Seq(Fence) /\ (Len(run[r].left) # 1 => Tail(run[r].left) # <<>>)
      <4>. DEFINE s == run[r].left
      <4>1. s \in Seq(Fence) /\ s # <<>>
        BY <1>0, <2>1
      <4>. HIDE DEF s
      <4>2. Tail(s) \in Seq(Fence) /\ Len(Tail(s)) = Len(s) - 1 /\ Len(s) \in Nat
        BY <4>1, HeadTailProperties, LenProperties
      <4>3. Tail(s) = <<>> => Len(Tail(s)) = 0
        BY EmptySeq
      <4>4. Len(s) # 1 => Len(Tail(s)) # 0
        BY <4>2
      <4>. QED
        BY <4>2, <4>3, <4>4 DEF s
    <3>4. k \in RunSet /\ (k.at = "sending" => k.left # <<>>)
      BY <3>3 DEF RunSet
    <3>. HIDE DEF k
    <3>. QED
      BY <1>0, <1>1, <2>1, <2>3, <3>1, <3>2, <3>4, RunMoves
  <2>. QED
    BY <2>2, <2>3
<1>. QED
  BY <1>3, <1>4, <1>5, <1>6, <1>7 DEF Diagrams!RunStep

-----------------------------------------------------------------------------
\* There is a ruler nothing holds.
LEMMA FreeRuler ==
    ASSUME DiagramsTyped
    PROVE  Diagrams!NewRuler \in Nat \ {0} /\ \A d \in drawing : d.ruler # Diagrams!NewRuler
<1>. DEFINE C == Cardinality(drawing)
<1>0. IsFiniteSet(drawing) /\ C \in Nat
  BY FS_CardinalityType DEF DiagramsTyped
<1>1. Diagrams!Cardinality(drawing) = C
  BY Zenon DEF Diagrams!Cardinality, Cardinality
<1>2. \E n \in 1..C + 1 : \A d \in drawing : d.ruler # n
  <2>1. SUFFICES ASSUME \A n \in 1..C + 1 : \E d \in drawing : d.ruler = n PROVE FALSE
    OBVIOUS
  <2>. DEFINE f == [n \in 1..C + 1 |-> CHOOSE d \in drawing : d.ruler = n]
  <2>2. f \in [1..C + 1 -> drawing] /\ \A n \in 1..C + 1 : f[n].ruler = n
    BY <2>1
  <2>3. IsFiniteSet(1..C + 1) /\ Cardinality(1..C + 1) = C + 1
    <3>. DEFINE b == C + 1
    <3>1. b \in Int /\ 1 \in Int /\ ~(1 > b) /\ b - 1 + 1 = b
      BY <1>0
    <3>. HIDE DEF b
    <3>2. IsFiniteSet(1..b) /\ Cardinality(1..b) = IF 1 > b THEN 0 ELSE b - 1 + 1
      BY <3>1, FS_Interval
    <3>3. IsFiniteSet(1..b) /\ Cardinality(1..b) = b
      BY <3>1, <3>2
    <3>. QED
      BY <3>3 DEF b
  <2>4. C < C + 1
    BY <1>0
  <2>. HIDE DEF f, C
  <2>5. \E x, y \in 1..C + 1 : x # y /\ f[x] = f[y]
    <3>1. Cardinality(drawing) < Cardinality(1..C + 1)
      BY <2>3, <2>4 DEF C
    <3>. QED
      BY <1>0, <2>2, <2>3, <3>1, FS_PigeonHole
  <2>. QED
    BY <2>2, <2>5
<1>3. Diagrams!NewRuler \in 1..C + 1 /\ \A d \in drawing : d.ruler # Diagrams!NewRuler
  BY <1>1, <1>2 DEF Diagrams!NewRuler
<1>. QED
  BY <1>0, <1>3

\* What the renderer answers goes to a run still parked on it.
LEMMA Replies ==
    ASSUME DiagramsInv, NEW v \in Diagrams!Verdict, Diagrams!Reply(v),
           worker.at \in {"looking", "drawing"}
    PROVE  /\ worker' \in WorkerSet /\ worker'.at = "free"
           /\ \E k \in RunSet :
                 /\ run' = [run EXCEPT ![worker.for] = k]
                 /\ k.at = run[worker.for].at /\ k.left = run[worker.for].left
                 /\ k.reply = IF k.at = "parked" THEN v ELSE run[worker.for].reply
<1>. DEFINE r == worker.for
            k == [run[r] EXCEPT !.reply = IF run[r].at = "parked" THEN v ELSE run[r].reply]
<1>1. r \in Run /\ run[r] \in RunSet
  BY DEF DiagramsInv, Serving, DiagramsTyped
<1>2. k \in RunSet /\ k.at = run[r].at /\ k.left = run[r].left
      /\ k.reply = IF run[r].at = "parked" THEN v ELSE run[r].reply
  BY <1>1 DEF RunSet
<1>3. run' = [run EXCEPT ![r] = k]
  BY DEF Diagrams!Reply
<1>4. worker' \in WorkerSet /\ worker'.at = "free"
  BY DEF Diagrams!Reply, WorkerSet
<1>. QED
  BY <1>2, <1>3, <1>4

\* After an answer the renderer waits for no drawing.
LEMMA RepliedKeeps ==
    ASSUME DiagramsInv, NEW v \in Diagrams!Verdict, Diagrams!Reply(v),
           worker.at \in {"looking", "drawing"}, quit' = quit, overran' = overran,
           run[worker.for].at = "parked" /\ v = "late" =>
              TooSlow(Head(run[worker.for].left)) \/ Diagrams!Cancelled,
           ruler' \in Nat, drawing' \subseteq DrawingSet, IsFiniteSet(drawing'),
           cause' \in {"none", "deadline", "cancelled"}, cause' = "cancelled" => Diagrams!Cancelled,
           cache' \in Seq(VerdictSet), CachedTruly',
           \A d \in drawing' : ~d.awaited /\ d.ruler # ruler'
    PROVE  DiagramsInv'
<1>0. worker' \in WorkerSet /\ worker'.at = "free"
  BY Replies
<1>1. PICK k \in RunSet : /\ run' = [run EXCEPT ![worker.for] = k]
                          /\ k.at = run[worker.for].at /\ k.left = run[worker.for].left
                          /\ k.reply = IF k.at = "parked" THEN v ELSE run[worker.for].reply
  BY Replies
<1>2. worker.for \in Run /\ run \in [Run -> RunSet]
  BY DEF DiagramsInv, Serving, DiagramsTyped
<1>3. run' \in [Run -> RunSet] /\ \A q \in Run : run'[q] = IF q = worker.for THEN k ELSE run[q]
  BY <1>1, <1>2
<1>4. Diagrams!Cancelled' = Diagrams!Cancelled /\ \A f : TooSlow(f)' = TooSlow(f)
  BY DEF Diagrams!Cancelled, TooSlow
<1>5. DiagramsTyped'
  BY <1>0, <1>3 DEF DiagramsInv, DiagramsTyped
<1>6. HasMore'
  BY <1>1, <1>3 DEF DiagramsInv, HasMore
<1>7. ToldTruly'
  BY <1>1, <1>3, <1>4 DEF DiagramsInv, ToldTruly
<1>8. Serving' /\ Measured'
  BY <1>0, <1>4 DEF Serving, Measured
<1>. QED
  BY <1>5, <1>6, <1>7, <1>8 DEF DiagramsInv

-----------------------------------------------------------------------------
\* The oldest verdict makes room, and the newest is as true as those it joins.
LEMMA Remembers ==
    ASSUME Diagrams!CacheLimitAssumption, cache \in Seq(VerdictSet), CachedTruly, NEW f \in Fence,
           NEW v \in Diagrams!Verdict, v = "late" => TooSlow(f)
    PROVE  Diagrams!With(f, v) \in Seq(TrueVerdicts)
<1>. DEFINE e == [of |-> f, verdict |-> v]
<1>1. e \in TrueVerdicts
  BY DEF TrueVerdicts, VerdictSet
<1>2. Len(cache) >= CacheLimit => Tail(cache) \in Seq(TrueVerdicts)
  <2>1. CacheLimit \in Nat \ {0} /\ Len(cache) \in Nat
    BY LenProperties DEF Diagrams!CacheLimitAssumption
  <2>2. Len(cache) >= CacheLimit => Len(cache) # 0
    BY <2>1
  <2>3. cache # <<>> => Tail(cache) \in Seq(TrueVerdicts)
    BY HeadTailProperties DEF CachedTruly
  <2>4. Len(<<>>) = 0
    BY EmptySeq
  <2>. QED
    BY <2>2, <2>3, <2>4
<1>. HIDE DEF e
<1>3. \A s \in Seq(TrueVerdicts) : Append(s, e) \in Seq(TrueVerdicts)
  BY <1>1, AppendProperties
<1>4. Diagrams!With(f, v) =
         IF Diagrams!Seen(f) THEN cache
         ELSE Append(IF Len(cache) >= CacheLimit THEN Tail(cache) ELSE cache, e)
  BY DEF Diagrams!With, e
<1>. QED
  BY <1>2, <1>3, <1>4 DEF CachedTruly

\* What the cache keeps of a source is one of its verdicts.
LEMMA CacheTells ==
    ASSUME CachedTruly, NEW f \in Fence, Diagrams!Seen(f)
    PROVE  /\ Diagrams!KeptOf(f) \in Diagrams!Verdict
           /\ Diagrams!KeptOf(f) = "late" => TooSlow(f)
<1>1. PICK k \in DOMAIN cache :
         cache[k].of = f /\ Diagrams!KeptOf(f) = cache[k].verdict
  BY DEF Diagrams!Seen, Diagrams!KeptOf
<1>2. cache[k] \in TrueVerdicts
  BY <1>1, LenProperties DEF CachedTruly
<1>. QED
  <2>1. cache[k].verdict \in Diagrams!Verdict /\ cache[k].of = f
    BY <1>1, <1>2 DEF TrueVerdicts, VerdictSet
  <2>2. cache[k].verdict = "late" => TooSlow(cache[k].of)
    BY <1>2 DEF TrueVerdicts
  <2>. QED
    BY <1>1, <2>1, <2>2

\* What the renderer looks at is a fence, and its drawing the one waited for.
LEMMA Looking ==
    ASSUME DiagramsInv, worker.at \in {"looking", "drawing"}
    PROVE  /\ worker.for \in Run /\ Diagrams!Source \in Fence
           /\ Diagrams!Source = Head(run[worker.for].left)
           /\ run[worker.for].at = "parked" \/ Diagrams!Cancelled
<1>1. worker.for \in Run /\ run[worker.for].left # <<>>
  BY DEF DiagramsInv, Serving
<1>2. run[worker.for].left \in Seq(Fence)
  BY <1>1 DEF DiagramsInv, DiagramsTyped, RunSet
<1>3. Head(run[worker.for].left) \in Fence
  BY <1>1, <1>2, HeadTailProperties
<1>. QED
  BY <1>1, <1>3 DEF DiagramsInv, Serving, Diagrams!Source

LEMMA Waiting ==
    ASSUME DiagramsInv, worker.at = "drawing"
    PROVE  IsAwaited(Diagrams!Awaited) /\ Diagrams!Awaited \in DrawingSet
<1>1. PICK a \in drawing : IsAwaited(a)
  BY DEF DiagramsInv, Measured
<1>2. Diagrams!Awaited = a
  BY <1>1 DEF IsAwaited, Diagrams!Awaited
<1>. QED
  BY <1>1, <1>2 DEF DiagramsInv, DiagramsTyped

\* Nothing is waited for once the drawing waited for is over or given up on.
LEMMA NoneWaitedFor ==
    ASSUME DiagramsInv, worker.at = "drawing", NEW d \in drawing \ {Diagrams!Awaited}
    PROVE  ~d.awaited /\ d.ruler # ruler
BY Waiting DEF IsAwaited

-----------------------------------------------------------------------------
LEMMA DrawingKeeps == ASSUME DiagramsInv, Diagrams!Draw PROVE DiagramsInv'
<1>. DEFINE d == [ruler |-> ruler', of |-> Diagrams!Source, awaited |-> TRUE]
<1>1. /\ worker.at = "looking" /\ UNCHANGED <<run, cache, overran, quit>>
      /\ ruler' = IF ruler = 0 THEN Diagrams!NewRuler ELSE ruler
      /\ cause' = IF Diagrams!Cancelled THEN "cancelled" ELSE "none"
      /\ worker' = [worker EXCEPT !.at = "drawing"]
      /\ drawing' = drawing \cup {d}
  BY DEF Diagrams!Draw
<1>2. /\ worker.for \in Run /\ Diagrams!Source \in Fence
      /\ Diagrams!Source = Head(run[worker.for].left)
  BY <1>1, Looking
<1>3. worker' \in WorkerSet /\ worker'.at = "drawing" /\ worker'.for = worker.for
  BY <1>1 DEF DiagramsInv, DiagramsTyped, WorkerSet
<1>4. \A e \in drawing : ~e.awaited /\ e.ruler # ruler
  BY <1>1 DEF DiagramsInv, Measured
<1>5. ruler' \in Nat \ {0} /\ \A e \in drawing : e.ruler # ruler'
  <2>1. DiagramsTyped /\ ruler \in Nat
    BY DEF DiagramsInv, DiagramsTyped
  <2>. QED
    BY <1>1, <1>4, <2>1, FreeRuler
<1>6. d \in DrawingSet /\ d.ruler = ruler' /\ d.of = Diagrams!Source /\ d.awaited
  BY <1>2, <1>5 DEF DrawingSet
<1>7. Diagrams!Cancelled' = Diagrams!Cancelled /\ \A f : TooSlow(f)' = TooSlow(f)
  BY <1>1 DEF Diagrams!Cancelled, TooSlow
<1>. HIDE DEF d
<1>13. PICK e \in DrawingSet :
          /\ drawing' = drawing \cup {e}
          /\ e.ruler = ruler' /\ e.of = Diagrams!Source /\ e.awaited
  BY <1>1, <1>6
<1>8. DiagramsTyped'
  <2>1. drawing' \subseteq DrawingSet /\ IsFiniteSet(drawing')
    BY <1>13, FS_AddElement DEF DiagramsInv, DiagramsTyped
  <2>2. cause' \in {"none", "cancelled"} /\ ruler' \in Nat
    BY <1>1, <1>5
  <2>. QED
    BY <1>1, <1>3, <2>1, <2>2 DEF DiagramsInv, DiagramsTyped
<1>9. HasMore' /\ ToldTruly'
  BY <1>1, <1>7 DEF DiagramsInv, HasMore, ToldTruly
<1>10. CachedTruly'
  BY <1>1, <1>7 DEF DiagramsInv, CachedTruly, TrueVerdicts, TooSlow
<1>11. Serving'
  BY <1>1, <1>3, <1>7 DEF DiagramsInv, Serving
<1>12. Measured'
  <2>1. cause' # "deadline" /\ (cause' = "cancelled" => Diagrams!Cancelled)
    BY <1>1
  <2>2. IsAwaited(e)'
    <3>1. run'[worker'.for].at = "parked" => e.of = Head(run'[worker'.for].left)
      BY <1>1, <1>2, <1>3, <1>13
    <3>2. \A c \in drawing' : c.awaited \/ c.ruler = ruler' => c = e
      BY <1>4, <1>5, <1>13
    <3>. QED
      BY <1>13, <2>1, <3>1, <3>2 DEF IsAwaited
  <2>3. e \in drawing'
    BY <1>13
  <2>. QED
    BY <1>3, <1>7, <2>1, <2>2, <2>3 DEF Measured
<1>. QED
  BY <1>8, <1>9, <1>10, <1>11, <1>12 DEF DiagramsInv

LEMMA BudgetKeeps == ASSUME DiagramsInv, Diagrams!BudgetSpent PROVE DiagramsInv'
<1>. DEFINE a == Diagrams!Awaited
<1>1. /\ worker.at = "drawing" /\ cause' = "deadline" /\ overran' = overran \cup {a.of}
      /\ UNCHANGED <<run, worker, ruler, drawing, cache, quit>>
  BY DEF Diagrams!BudgetSpent
<1>2. IsAwaited(a) /\ a \in DrawingSet
  BY <1>1, Waiting
<1>11. PICK b \in DrawingSet : b = a /\ IsAwaited(b)
  BY <1>2
<1>. HIDE DEF a
<1>3. a.of \in Fence /\ b \in drawing
  BY <1>2, <1>11 DEF DrawingSet, IsAwaited
<1>4. Diagrams!Cancelled' = Diagrams!Cancelled /\ \A f : TooSlow(f) => TooSlow(f)'
  BY <1>1 DEF Diagrams!Cancelled, TooSlow
<1>5. DiagramsTyped'
  BY <1>1, <1>3 DEF DiagramsInv, DiagramsTyped
<1>6. HasMore'
  BY <1>1 DEF DiagramsInv, HasMore
<1>7. ToldTruly'
  BY <1>1, <1>4 DEF DiagramsInv, ToldTruly
<1>8. CachedTruly'
  <2>1. TrueVerdicts \subseteq TrueVerdicts'
    BY <1>4 DEF TrueVerdicts
  <2>2. cache \in Seq(TrueVerdicts)
    BY DEF DiagramsInv, CachedTruly
  <2>3. cache \in Seq(TrueVerdicts')
    BY <2>1, <2>2, SeqMonotonic
  <2>. QED
    BY <1>1, <2>3 DEF CachedTruly
<1>9. Serving'
  BY <1>1, <1>4 DEF DiagramsInv, Serving
<1>10. Measured'
  <2>1. IsAwaited(b)'
    <3>1. TooSlow(b.of)'
      BY <1>1, <1>11 DEF TooSlow
    <3>. QED
      BY <1>1, <1>11, <3>1 DEF IsAwaited
  <2>2. cause' # "cancelled" /\ worker'.at = "drawing" /\ b \in drawing'
    BY <1>1, <1>3
  <2>. QED
    BY <2>1, <2>2 DEF Measured
<1>. QED
  BY <1>5, <1>6, <1>7, <1>8, <1>9, <1>10 DEF DiagramsInv

\* A drawing is over, or given up on: the one answered is told the truth.
LEMMA DrawnKeeps ==
    ASSUME Diagrams!CacheLimitAssumption, DiagramsInv, Diagrams!Drawn PROVE DiagramsInv'
<1>. DEFINE a == Diagrams!Awaited
<1>1. /\ worker.at = "drawing" /\ cache' = Diagrams!With(a.of, "drawn")
      /\ drawing' = drawing \ {a} /\ cause' = "none" /\ Diagrams!Reply("drawn")
      /\ UNCHANGED <<ruler, overran, quit>>
  BY DEF Diagrams!Drawn
<1>2. a.of \in Fence
  BY <1>1, Waiting DEF DrawingSet
<1>3. \A d \in drawing' : ~d.awaited /\ d.ruler # ruler'
  BY <1>1, NoneWaitedFor
<1>. HIDE DEF a
<1>4. "drawn" \in Diagrams!Verdict /\ "drawn" # "late"
  BY DEF Diagrams!Verdict
<1>5. cache' \in Seq(TrueVerdicts)
  BY <1>1, <1>2, <1>4, Remembers DEF DiagramsInv, DiagramsTyped
<1>6. cache' \in Seq(VerdictSet)
  BY <1>5, SeqMonotonic DEF TrueVerdicts
<1>7. CachedTruly'
  BY <1>1, <1>5 DEF CachedTruly, TrueVerdicts, TooSlow
<1>8. drawing' \subseteq DrawingSet /\ IsFiniteSet(drawing') /\ ruler' \in Nat
  BY <1>1, FS_Subset DEF DiagramsInv, DiagramsTyped
<1>. QED
  BY <1>1, <1>3, <1>4, <1>6, <1>7, <1>8, RepliedKeeps

LEMMA GiveUpKeeps ==
    ASSUME Diagrams!CacheLimitAssumption, DiagramsInv, Diagrams!GiveUp PROVE DiagramsInv'
<1>. DEFINE a == Diagrams!Awaited
            b == [a EXCEPT !.awaited = FALSE]
<1>1. /\ worker.at = "drawing" /\ cause # "none" /\ ruler' = 0
      /\ drawing' = (drawing \ {a}) \cup {b}
      /\ cache' = IF cause = "deadline" THEN Diagrams!With(a.of, "late") ELSE cache
      /\ cause' = "none" /\ Diagrams!Reply("late")
      /\ UNCHANGED <<overran, quit>>
  BY DEF Diagrams!GiveUp, Diagrams!RulerAfter, Diagrams!IsVerdict
<1>2. IsAwaited(a) /\ a \in DrawingSet
  BY <1>1, Waiting
<1>3. \A d \in drawing \ {a} : ~d.awaited
  BY <1>1, NoneWaitedFor
<1>. HIDE DEF a
<1>4. b \in DrawingSet /\ b.awaited = FALSE /\ a.of \in Fence
  BY <1>2 DEF DrawingSet
<1>. HIDE DEF b
<1>5. drawing' \subseteq DrawingSet /\ IsFiniteSet(drawing')
  BY <1>1, <1>4, FS_Subset, FS_AddElement DEF DiagramsInv, DiagramsTyped
<1>6. \A d \in drawing' : ~d.awaited /\ d.ruler # ruler'
  BY <1>1, <1>3, <1>4, <1>5 DEF DrawingSet
<1>7. cause = "deadline" => TooSlow(a.of)
  BY <1>2 DEF IsAwaited
<1>8. "late" \in Diagrams!Verdict
  BY DEF Diagrams!Verdict
<1>9. cache' \in Seq(TrueVerdicts)
  BY <1>1, <1>4, <1>7, <1>8, Remembers DEF DiagramsInv, DiagramsTyped, CachedTruly
<1>10. cache' \in Seq(VerdictSet)
  BY <1>9, SeqMonotonic DEF TrueVerdicts
<1>11. CachedTruly'
  BY <1>1, <1>9 DEF CachedTruly, TrueVerdicts, TooSlow
<1>12. cause = "deadline" \/ Diagrams!Cancelled
  <2>1. cause \in {"deadline", "cancelled"}
    BY <1>1 DEF DiagramsInv, DiagramsTyped
  <2>2. cause = "cancelled" => Diagrams!Cancelled
    BY DEF DiagramsInv, Measured
  <2>. QED
    BY <2>1, <2>2
<1>13. run[worker.for].at = "parked" => TooSlow(Head(run[worker.for].left)) \/ Diagrams!Cancelled
  BY <1>2, <1>7, <1>12 DEF IsAwaited
<1>. QED
  BY <1>1, <1>5, <1>6, <1>8, <1>10, <1>11, <1>13, RepliedKeeps

LEMMA AnswerKeeps == ASSUME DiagramsInv, Diagrams!AnswerKept PROVE DiagramsInv'
<1>. DEFINE f == Diagrams!Source
            v == Diagrams!KeptOf(f)
<1>1. /\ worker.at = "looking" /\ Diagrams!Seen(f) /\ Diagrams!Reply(v)
      /\ UNCHANGED <<ruler, drawing, cause, cache, overran, quit>>
  BY DEF Diagrams!AnswerKept
<1>2. f \in Fence /\ f = Head(run[worker.for].left)
  BY <1>1, Looking
<1>. HIDE DEF f
<1>3. v \in Diagrams!Verdict /\ (v = "late" => TooSlow(f))
  BY <1>1, <1>2, CacheTells DEF DiagramsInv
<1>. HIDE DEF v
<1>4. cause' \in {"none", "deadline", "cancelled"} /\ (cause' = "cancelled" => Diagrams!Cancelled)
  BY <1>1 DEF DiagramsInv, DiagramsTyped, Measured
<1>5. \A d \in drawing' : ~d.awaited /\ d.ruler # ruler'
  BY <1>1 DEF DiagramsInv, Measured
<1>6. CachedTruly'
  BY <1>1 DEF DiagramsInv, CachedTruly, TrueVerdicts, TooSlow
<1>7. /\ ruler' \in Nat /\ drawing' \subseteq DrawingSet /\ IsFiniteSet(drawing')
      /\ cache' \in Seq(VerdictSet)
  BY <1>1 DEF DiagramsInv, DiagramsTyped
<1>. QED
  BY <1>1, <1>2, <1>3, <1>4, <1>5, <1>6, <1>7, RepliedKeeps

\* The renderer stops, or a goroutine left behind ends.
LEMMA EndKeeps ==
    ASSUME DiagramsInv, Diagrams!WorkerStops \/ Diagrams!LeftBehindEnds PROVE DiagramsInv'
<1>1. /\ UNCHANGED <<run, ruler, cause, cache, overran, quit>>
      /\ drawing' \subseteq drawing /\ \A d \in drawing : d.awaited => d \in drawing'
  BY Zenon DEF Diagrams!WorkerStops, Diagrams!LeftBehindEnds
<1>2. /\ worker' \in WorkerSet
      /\ UNCHANGED worker \/ (worker.at = "free" /\ worker'.at = "stopped")
  BY DEF DiagramsInv, DiagramsTyped, WorkerSet, Diagrams!WorkerStops, Diagrams!LeftBehindEnds
<1>3. Diagrams!Cancelled' = Diagrams!Cancelled /\ \A f : TooSlow(f)' = TooSlow(f)
  BY <1>1 DEF Diagrams!Cancelled, TooSlow
<1>4. DiagramsTyped'
  BY <1>1, <1>2, FS_Subset DEF DiagramsInv, DiagramsTyped
<1>5. HasMore' /\ ToldTruly'
  BY <1>1, <1>3 DEF DiagramsInv, HasMore, ToldTruly
<1>6. CachedTruly'
  BY <1>1 DEF DiagramsInv, CachedTruly, TrueVerdicts, TooSlow
<1>7. Serving'
  BY <1>1, <1>2, <1>3 DEF DiagramsInv, Serving
<1>8. Measured'
  <2>1. CASE worker'.at = "drawing"
    <3>1. UNCHANGED worker /\ worker.at = "drawing"
      BY <1>2, <2>1
    <3>2. PICK a \in drawing : IsAwaited(a)
      BY <3>1 DEF DiagramsInv, Measured
    <3>3. a \in drawing'
      BY <1>1, <3>2 DEF IsAwaited
    <3>4. IsAwaited(a)'
      BY <1>1, <1>3, <3>1, <3>2, <3>3 DEF IsAwaited
    <3>. QED
      BY <1>1, <1>3, <2>1, <3>3, <3>4 DEF DiagramsInv, Measured
  <2>2. CASE worker'.at # "drawing"
    BY <1>1, <1>2, <1>3, <2>2 DEF DiagramsInv, Measured
  <2>. QED
    BY <2>1, <2>2
<1>. QED
  BY <1>4, <1>5, <1>6, <1>7, <1>8 DEF DiagramsInv

\* A quit gets one step further.
LEMMA QuitKeeps ==
    ASSUME DiagramsInv,
           Diagrams!SetClosed \/ Diagrams!Cancel \/ Diagrams!CloseRenderer \/ Diagrams!Stopped
    PROVE  DiagramsInv'
<1>1. UNCHANGED <<run, worker, ruler, drawing, cache, overran>>
  BY DEF Diagrams!SetClosed, Diagrams!Cancel, Diagrams!CloseRenderer, Diagrams!Stopped
<1>2. quit' \in {"closed", "cancelled", "closing", "over"}
  BY DEF Diagrams!SetClosed, Diagrams!Cancel, Diagrams!CloseRenderer, Diagrams!Stopped
<1>3. Diagrams!Cancelled => Diagrams!Cancelled'
  BY DEF Diagrams!SetClosed, Diagrams!Cancel, Diagrams!CloseRenderer, Diagrams!Stopped,
         Diagrams!Cancelled
<1>4. cause' = cause \/ (cause' = "cancelled" /\ Diagrams!Cancelled')
  BY DEF Diagrams!SetClosed, Diagrams!Cancel, Diagrams!CloseRenderer, Diagrams!Stopped,
         Diagrams!Cancelled
<1>5. \A f : TooSlow(f)' = TooSlow(f)
  BY <1>1 DEF TooSlow
<1>6. DiagramsTyped'
  BY <1>1, <1>2, <1>4 DEF DiagramsInv, DiagramsTyped
<1>7. HasMore' /\ ToldTruly'
  BY <1>1, <1>3, <1>5 DEF DiagramsInv, HasMore, ToldTruly
<1>8. CachedTruly'
  BY <1>1 DEF DiagramsInv, CachedTruly, TrueVerdicts, TooSlow
<1>9. Serving'
  BY <1>1, <1>3 DEF DiagramsInv, Serving
<1>10. Measured'
  <2>1. CASE worker.at = "drawing"
    <3>1. PICK a \in drawing : IsAwaited(a)
      BY <2>1 DEF DiagramsInv, Measured
    <3>2. cause' = "deadline" => cause = "deadline"
      BY <1>4
    <3>3. IsAwaited(a)'
      BY <1>1, <1>5, <3>1, <3>2 DEF IsAwaited
    <3>. QED
      BY <1>1, <1>3, <1>4, <2>1, <3>1, <3>3 DEF DiagramsInv, Measured
  <2>2. CASE worker.at # "drawing"
    BY <1>1, <1>3, <1>4, <2>2 DEF DiagramsInv, Measured
  <2>. QED
    BY <2>1, <2>2
<1>. QED
  BY <1>6, <1>7, <1>8, <1>9, <1>10 DEF DiagramsInv

LEMMA DiagramsStep ==
    ASSUME Diagrams!CacheLimitAssumption, DiagramsInv,
           [Diagrams!Next]_(Diagrams!diagramVars)
    PROVE  DiagramsInv'
<1>1. CASE UNCHANGED Diagrams!diagramVars
  <2>1. UNCHANGED <<run, worker, ruler, drawing, cause, cache, overran, quit>>
    BY <1>1 DEF Diagrams!diagramVars
  <2>. QED
    BY <2>1 DEF DiagramsInv, DiagramsTyped, HasMore, ToldTruly, CachedTruly, TrueVerdicts,
                TooSlow, Serving, Measured, IsAwaited, Diagrams!Cancelled
<1>2. CASE Diagrams!Next
  BY <1>2, RunKeeps, AnswerKeeps, DrawingKeeps, DrawnKeeps, BudgetKeeps, GiveUpKeeps, EndKeeps,
     QuitKeeps
  DEF Diagrams!Next, Diagrams!WorkerStep, Diagrams!StopStep
<1>. QED
  BY <1>1, <1>2

LEMMA DiagramsShows ==
    ASSUME DiagramsInv
    PROVE  /\ Diagrams!DiagramsTypeOK /\ Diagrams!RulerIsAlone
           /\ Diagrams!LateIsTheSources
<1>1. Diagrams!DiagramsTypeOK
  BY DEF DiagramsInv, DiagramsTyped, RunSet, WorkerSet, DrawingSet, VerdictSet,
         Diagrams!DiagramsTypeOK
<1>2. Diagrams!RulerIsAlone
  <2>1. CASE worker.at = "drawing"
    <3>1. PICK a \in drawing : IsAwaited(a)
      BY <2>1 DEF DiagramsInv, Measured
    <3>. QED
      BY <3>1 DEF IsAwaited, Diagrams!RulerIsAlone
  <2>2. CASE worker.at # "drawing"
    BY <2>2 DEF DiagramsInv, Measured, Diagrams!RulerIsAlone
  <2>. QED
    BY <2>1, <2>2
<1>3. Diagrams!LateIsTheSources
  <2>1. \A i \in DOMAIN cache : cache[i] \in TrueVerdicts
    BY LenProperties DEF DiagramsInv, CachedTruly
  <2>2. \A i \in DOMAIN cache : cache[i].verdict = "late" => cache[i].of \in overran
    BY <2>1 DEF TrueVerdicts, TooSlow
  <2>3. \A r \in Run : run[r].at = "answered" /\ ~Diagrams!Cancelled =>
           /\ run[r].reply # Diagrams!Nothing
           /\ run[r].reply = "late" => Head(run[r].left) \in overran
    BY DEF DiagramsInv, ToldTruly, TooSlow
  <2>. QED
    BY <2>2, <2>3 DEF Diagrams!LateIsTheSources
<1>. QED
  BY <1>1, <1>2, <1>3

-----------------------------------------------------------------------------
(* Documents.  What a save has read of the file is as old as it says: while the *)
(* file has been written by nobody since, it holds what the save read.         *)

\* The variables of Documents, by their names there.
file == v1
tabText == v2
tabRead == v3
docLock == v4
job == v5
pageText == v6
push == v7
lost == v8
reach == v9
turns == v10
USE DEF file, tabText, tabRead, docLock, job, pageText, push, lost, reach, turns

FileSet == [text : Text, at : 1 .. MaxWrites + 1]
StatSet == [at : 0 .. MaxWrites + 1, size : {Lengths[t] : t \in Text} \cup {0}]
JobSet  == [text : Text, at : 1 .. MaxWrites + 1, stat : StatSet, new : Text, hash : Text]

DocTyped ==
    /\ file \in FileSet /\ tabText \in Text /\ pageText \in Text
    /\ tabRead \in StatSet /\ job \in JobSet
    /\ docLock \in {"open", "free", "rescan", "save", "saved"}
    /\ push \in Text \cup {NoText} /\ lost \subseteq 1 .. MaxWrites
    /\ reach \in Documents!Reaches /\ turns \in 0 .. MaxTurns

ReadIsAsOldAsItSays ==
    docLock = "save" => job.at <= file.at /\ (job.at = file.at => job.text = file.text)

DocInv == DocTyped /\ ReadIsAsOldAsItSays

LEMMA StatIsStat ==
    ASSUME Documents!SizeAssumption, DocTyped
    PROVE  /\ Documents!Stat \in StatSet /\ Documents!Unseen \in StatSet
           /\ \A t \in Text : Documents!Recorded(t) \in StatSet
<1>1. Documents!Unseen \in StatSet
  BY DEF Documents!Unseen, StatSet, Documents!SizeAssumption
<1>2. Documents!Stat \in StatSet
  <2>1. file.at \in 0 .. MaxWrites + 1 /\ Lengths[file.text] \in {Lengths[t] : t \in Text}
    BY DEF DocTyped, FileSet, Documents!SizeAssumption
  <2>. QED
    BY <2>1 DEF Documents!Stat, StatSet
<1>. QED
  BY <1>1, <1>2 DEF DocTyped, Documents!Recorded

LEMMA DocumentsInit ==
    ASSUME Documents!SizeAssumption, Documents!Init PROVE DocInv
<1>1. PICK t \in Text :
        /\ file = [text |-> t, at |-> 1] /\ tabText = t /\ pageText = t
        /\ job = [text |-> t, at |-> 1, stat |-> Documents!Unseen, new |-> t, hash |-> t]
  BY DEF Documents!Init
<1>2. tabRead = Documents!Unseen /\ docLock = "open" /\ push = NoText /\ lost = {}
  BY DEF Documents!Init
<1>3. MaxWrites \in Nat /\ 1 \in 1 .. MaxWrites + 1
  BY DEF Documents!SizeAssumption
<1>4. Documents!Unseen \in StatSet
  BY <1>3 DEF Documents!Unseen, StatSet
<1>5. file \in FileSet
  BY <1>1, <1>3 DEF FileSet
<1>6. job \in JobSet
  BY <1>1, <1>3, <1>4 DEF JobSet
<1>7. reach \in Documents!Reaches /\ turns \in 0 .. MaxTurns
  BY DEF Documents!Init, Documents!Reaches, Documents!SizeAssumption
<1>. QED
  BY <1>1, <1>2, <1>4, <1>5, <1>6, <1>7 DEF DocInv, DocTyped, ReadIsAsOldAsItSays

\* A write makes the file newer, and what is read now is what it holds now.
LEMMA WrittenFile ==
    ASSUME Documents!SizeAssumption, DocTyped, NEW t \in Text, Documents!Write(t),
           file.at <= MaxWrites
    PROVE  file' \in FileSet /\ file'.at = file.at + 1 /\ reach' \in Documents!Reaches
<1>1. file.at \in 1 .. MaxWrites + 1 /\ MaxWrites \in Nat
  BY DEF DocTyped, FileSet, Documents!SizeAssumption
<1>2. file.at + 1 \in 1 .. MaxWrites + 1
  BY <1>1
<1>3. reach' \in Documents!Reaches
  BY DEF Documents!Write, Documents!Reaches, DocTyped
<1>. QED
  BY <1>2, <1>3 DEF Documents!Write, FileSet

LEMMA ReadsNow ==
    ASSUME Documents!SizeAssumption, DocTyped, NEW s \in StatSet, NEW t \in Text
    PROVE  /\ [Documents!NoJob EXCEPT !.stat = s] \in JobSet
           /\ [Documents!NoJob EXCEPT !.new = t] \in JobSet
           /\ [Documents!NoJob EXCEPT !.new = t].at = file.at
           /\ [Documents!NoJob EXCEPT !.new = t].text = file.text
<1>1. Documents!Unseen \in StatSet
  BY StatIsStat
<1>2. file.text \in Text /\ file.at \in 1 .. MaxWrites + 1
  BY DEF DocTyped, FileSet
<1>3. Documents!NoJob \in JobSet /\ Documents!NoJob.at = file.at /\ Documents!NoJob.text = file.text
  BY <1>1, <1>2 DEF Documents!NoJob, JobSet, DocTyped
<1>. QED
  BY <1>3 DEF JobSet

LEMMA DocumentsStep ==
    ASSUME Documents!SizeAssumption, DocInv, [Documents!Next]_(Documents!docVars)
    PROVE  DocInv'
<1>. USE DEF DocInv
<1>0. /\ file.at \in 1 .. MaxWrites + 1 /\ job.at \in 1 .. MaxWrites + 1 /\ MaxWrites \in Nat
      /\ job.text \in Text /\ job.new \in Text /\ job.stat \in StatSet /\ file.text \in Text
  BY DEF DocTyped, FileSet, JobSet, Documents!SizeAssumption
<1>1. CASE Documents!Edit
  <2>1. /\ file.at < MaxWrites
        /\ UNCHANGED <<tabText, tabRead, docLock, job, pageText, push, lost, turns>>
    BY <1>1 DEF Documents!Edit
  <2>2. PICK t \in Text : Documents!Write(t)
    BY <1>1 DEF Documents!Edit
  <2>3. file' \in FileSet /\ file'.at = file.at + 1 /\ reach' \in Documents!Reaches
    BY <1>0, <2>1, <2>2, WrittenFile
  <2>4. DocTyped'
    BY <2>1, <2>3 DEF DocTyped
  <2>5. job.at <= file.at => job.at <= file.at + 1 /\ job.at # file.at + 1
    BY <1>0
  <2>6. ReadIsAsOldAsItSays'
    BY <2>1, <2>3, <2>5 DEF ReadIsAsOldAsItSays
  <2>. QED
    BY <2>4, <2>6
<1>2. CASE Documents!BeginDocument
  BY <1>2, StatIsStat DEF DocTyped, ReadIsAsOldAsItSays, Documents!BeginDocument
<1>3. CASE Documents!RescanStat
  <2>1. job' \in JobSet
    <3>1. \A s \in StatSet : [Documents!NoJob EXCEPT !.stat = s] \in JobSet
      BY ReadsNow DEF DocTyped
    <3>2. Documents!Stat \in StatSet
      BY StatIsStat
    <3>3. job' = [Documents!NoJob EXCEPT !.stat = Documents!Stat]
      BY <1>3 DEF Documents!RescanStat
    <3>. QED
      BY <3>1, <3>2, <3>3
  <2>. QED
    BY <1>3, <2>1 DEF DocTyped, ReadIsAsOldAsItSays, Documents!RescanStat
<1>4. CASE Documents!RescanRead
  BY <1>0, <1>4 DEF DocTyped, ReadIsAsOldAsItSays, Documents!RescanRead
<1>5. CASE Documents!Push
  <2>1. pageText' \in Text /\ push' = NoText
        /\ UNCHANGED <<file, tabText, tabRead, docLock, job, lost, reach, turns>>
    BY <1>5 DEF DocTyped, Documents!Push
  <2>. QED
    BY <2>1 DEF DocTyped, ReadIsAsOldAsItSays
<1>6. CASE Documents!Load
  BY <1>6 DEF DocTyped, ReadIsAsOldAsItSays, Documents!Load
<1>7. CASE Documents!SaveRead
  <2>1. UNCHANGED <<file, tabText, tabRead, pageText, push, lost, reach, turns>> /\ docLock' = "save"
    BY <1>7 DEF Documents!SaveRead
  <2>2. PICK t \in Text : job' = [Documents!NoJob EXCEPT !.new = t]
    BY <1>7 DEF Documents!SaveRead
  <2>3. job' \in JobSet /\ job'.at = file.at /\ job'.text = file.text
    BY <1>0, <2>2, ReadsNow
  <2>4. file.at <= file.at
    BY <1>0
  <2>. QED
    BY <2>1, <2>3, <2>4 DEF DocTyped, ReadIsAsOldAsItSays
<1>8. CASE Documents!SaveRefused
  BY <1>0, <1>8, StatIsStat DEF DocTyped, ReadIsAsOldAsItSays, Documents!SaveRefused
<1>9. CASE Documents!SaveFails
  BY <1>9 DEF DocTyped, ReadIsAsOldAsItSays, Documents!SaveFails
<1>10. CASE Documents!SaveReplaces
  <2>1. /\ file.at <= MaxWrites /\ Documents!Write(job.new) /\ docLock' = "saved"
        /\ lost' \subseteq lost \cup {file.at}
        /\ UNCHANGED <<tabText, tabRead, job, pageText, push, turns>>
    BY <1>10 DEF Documents!SaveReplaces
  <2>2. file' \in FileSet /\ reach' \in Documents!Reaches
    BY <1>0, <2>1, WrittenFile
  <2>3. file.at \in 1 .. MaxWrites
    BY <1>0, <2>1
  <2>. QED
    BY <2>1, <2>2, <2>3 DEF DocTyped, ReadIsAsOldAsItSays
<1>11. CASE Documents!SaveRecords
  BY <1>0, <1>11, StatIsStat DEF DocTyped, ReadIsAsOldAsItSays, Documents!SaveRecords
<1>12. CASE UNCHANGED Documents!docVars
  <2>1. UNCHANGED <<file, tabText, tabRead, docLock, job, pageText, push, lost, reach, turns>>
    BY <1>12 DEF Documents!docVars
  <2>. QED
    BY <2>1 DEF DocTyped, ReadIsAsOldAsItSays
<1>13. CASE Documents!Turn
  <2>1. /\ UNCHANGED <<file, tabText, tabRead, docLock, job, pageText, push, lost>>
        /\ reach' \in Documents!Reaches
        /\ turns < MaxTurns /\ turns' = turns + 1
    BY <1>13 DEF Documents!Turn
  <2>2. turns' \in 0 .. MaxTurns
    BY <2>1 DEF DocTyped, Documents!SizeAssumption
  <2>. QED
    BY <2>1, <2>2 DEF DocTyped, ReadIsAsOldAsItSays
<1>. QED
  BY <1>1, <1>2, <1>3, <1>4, <1>5, <1>6, <1>7, <1>8, <1>9, <1>10, <1>11, <1>12, <1>13
  DEF Documents!Next

\* What a save takes away was written after it read the file.
LEMMA SaveLoses ==
    ASSUME DocInv, [Documents!Next]_(Documents!docVars) PROVE Documents!LosesInTheWindow
<1>1. CASE Documents!SaveReplaces
  <2>1. /\ docLock = "save" /\ job.text = job.hash
        /\ lost' \subseteq IF file.text # job.hash THEN lost \cup {file.at} ELSE lost
    BY <1>1 DEF Documents!SaveReplaces
  <2>2. file.at \in Int /\ job.at \in Int
    BY DEF DocInv, DocTyped, FileSet, JobSet
  <2>3. job.at <= file.at /\ (job.at = file.at => job.text = file.text)
    BY <2>1 DEF DocInv, ReadIsAsOldAsItSays
  <2>4. file.text # job.hash => file.at > job.at
    BY <2>1, <2>2, <2>3
  <2>. QED
    BY <2>1, <2>4 DEF Documents!LosesInTheWindow
<1>2. CASE ~Documents!SaveReplaces
  <2>1. lost' = lost
    BY <1>2 DEF Documents!Next, Documents!Edit, Documents!Turn, Documents!BeginDocument, Documents!RescanStat,
       Documents!RescanRead, Documents!Push, Documents!Load, Documents!SaveRead,
       Documents!SaveRefused, Documents!SaveFails, Documents!SaveRecords, Documents!docVars
  <2>. QED
    BY <2>1 DEF Documents!LosesInTheWindow
<1>. QED
  BY <1>1, <1>2

LEMMA DocumentsShow == ASSUME DocInv PROVE Documents!DocTypeOK
BY DEF DocInv, DocTyped, FileSet, StatSet, Documents!DocTypeOK

-----------------------------------------------------------------------------
(* Repositories.  A run's messages are about owners and lists, and its channel  *)
(* has the room its sends need.                                               *)

\* The variables of Repositories, by their names there.
configured == v1
repos == v2
errs == v3
gen == v4
runs == v5
disk == v6
ownerEdits == v7
USE DEF configured, repos, errs, gen, runs, disk, ownerEdits

States == {"started", "failed", "succeeded", "complete"}
Places == {"none", "token", "starting", "retry", "refused", "told", "dropped", "asking",
           "stamping", "last", "collecting", "writing", "closing", "closed"}
MessageSet ==
    [state : States, owner : SUBSET Owner, list : {{}} \cup {{l} : l \in Repositories!Lists}]
GenSet ==
    [at : Places, owners : SUBSET Owner, left : SUBSET Owner, merged : Repositories!Lists,
     fresh : SUBSET Owner, queue : Seq(MessageSet), reading : BOOLEAN]
DiskSet == [list : Repositories!Lists, at : Repositories!Lists]

\* The most that was ever put in a channel.
Room == 2 * Cardinality(Owner) + 1

\* A run that asks has somebody to ask, and its messages had room.
InOrder(r) ==
    /\ r.at = "token" => r.owners # {}
    /\ r.at \in {"starting", "asking"} => r.left # {}
    /\ Len(r.queue) <= Room

RepoInv ==
    /\ configured \in (SUBSET Owner) \ {{}} /\ repos \in Repositories!Lists
    /\ errs \subseteq Owner /\ gen \in 0 .. MaxGen /\ disk \in DiskSet
    /\ ownerEdits \in 0 .. MaxEdits
    /\ runs \in [Repositories!Gens -> GenSet]
    /\ \A g \in Repositories!Gens : InOrder(runs[g])

LEMMA OwnersAreFinite == Repositories!RepositoriesAssumption => IsFiniteSet(Owner)
<1>1. Repositories!IsFiniteSet(Owner) <=> IsFiniteSet(Owner)
  BY Zenon DEF Repositories!IsFiniteSet, IsFiniteSet
<1>. QED
  BY <1>1 DEF Repositories!RepositoriesAssumption

LEMMA ZeroList ==
    ASSUME Repositories!RepositoriesAssumption
    PROVE  /\ Repositories!None \in Repositories!Lists
           /\ Repositories!NoRun \in GenSet /\ Room \in Nat
           /\ Repositories!NoRun.queue = <<>>
<1>1. 0 \in 0 .. MaxGen
  BY DEF Repositories!RepositoriesAssumption
<1>2. Repositories!None \in Repositories!Lists
  BY <1>1 DEF Repositories!None, Repositories!Lists
<1>3. <<>> \in Seq(MessageSet)
  OBVIOUS
<1>4. Repositories!NoRun \in GenSet /\ Repositories!NoRun.queue = <<>>
  BY <1>2, <1>3 DEF Repositories!NoRun, GenSet, Places
<1>5. Cardinality(Owner) \in Nat
  BY OwnersAreFinite, FS_CardinalityType
<1>6. Room \in Nat
  BY <1>5 DEF Room
<1>. QED
  BY <1>2, <1>4, <1>6

LEMMA RepositoriesInit ==
    ASSUME Repositories!RepositoriesAssumption, Repositories!RepoInit PROVE RepoInv
<1>. USE DEF Repositories!RepoInit
<1>1. configured \in (SUBSET Owner) \ {{}} /\ errs \subseteq Owner
  BY DEF Repositories!RepositoriesAssumption
<1>2. gen \in 0 .. MaxGen /\ ownerEdits \in 0 .. MaxEdits
  BY DEF Repositories!RepositoriesAssumption
<1>3. repos \in Repositories!Lists /\ disk \in DiskSet
  BY ZeroList DEF DiskSet
<1>4. runs \in [Repositories!Gens -> GenSet]
  BY ZeroList
<1>5. Repositories!NoRun.at = "none" /\ Len(<<>>) = 0 /\ Room >= 0
  BY ZeroList, EmptySeq DEF Repositories!NoRun
<1>6. InOrder(Repositories!NoRun)
  BY <1>5, ZeroList DEF InOrder
<1>7. \A g \in Repositories!Gens : InOrder(runs[g])
  BY <1>6
<1>. QED
  BY <1>1, <1>2, <1>3, <1>4, <1>7 DEF RepoInv

\* A message leaves lists that are lists, and errors that are owners.
LEMMA Pushed ==
    ASSUME RepoInv, NEW g \in Repositories!Gens, NEW msg \in MessageSet,
           Repositories!Push(g, msg)
    PROVE  repos' \in Repositories!Lists /\ errs' \subseteq Owner
<1>1. repos \in Repositories!Lists /\ errs \subseteq Owner
  BY DEF RepoInv
<1>2. CASE Repositories!Superseded(g)
  BY <1>1, <1>2 DEF Repositories!Push
<1>3. CASE ~Repositories!Superseded(g)
  <2>1. /\ errs' = CASE msg.state = "succeeded" -> errs \ msg.owner
                     [] msg.state = "failed"    -> errs \cup msg.owner
                     [] OTHER                   -> errs
        /\ repos' = IF msg.list = {} THEN repos
                    ELSE CHOOSE l \in Repositories!Lists : msg.list = {l}
    BY <1>3 DEF Repositories!Push
  <2>2. msg.owner \subseteq Owner /\ msg.list \in {{}} \cup {{l} : l \in Repositories!Lists}
    BY DEF MessageSet
  <2>. QED
    BY <1>1, <2>1, <2>2
<1>. QED
  BY <1>2, <1>3

\* A run gets on, whatever it tells.
LEMMA GenMoves ==
    ASSUME RepoInv, NEW g \in Repositories!Gens, NEW k \in GenSet, InOrder(k),
           runs' = [runs EXCEPT ![g] = k],
           repos' \in Repositories!Lists, errs' \subseteq Owner, disk' \in DiskSet,
           UNCHANGED <<configured, gen, ownerEdits>>
    PROVE  RepoInv'
<1>1. runs' \in [Repositories!Gens -> GenSet]
  BY DEF RepoInv
<1>2. \A h \in Repositories!Gens : runs'[h] = IF h = g THEN k ELSE runs[h]
  BY DEF RepoInv
<1>3. \A h \in Repositories!Gens : InOrder(runs'[h])
  BY <1>2 DEF RepoInv
<1>. QED
  BY <1>1, <1>3 DEF RepoInv

LEMMA Messages ==
    ASSUME NEW o \in Owner, NEW l \in Repositories!Lists
    PROVE  /\ Repositories!Started(o) \in MessageSet /\ Repositories!Failed(o) \in MessageSet
           /\ Repositories!Succeeded(o, {}) \in MessageSet
           /\ Repositories!Succeeded(o, {l}) \in MessageSet
           /\ Repositories!Complete({}) \in MessageSet
           /\ Repositories!Complete({l}) \in MessageSet
BY DEF MessageSet, States, Repositories!Started, Repositories!Failed, Repositories!Succeeded,
       Repositories!Complete

LEMMA SentKeeps ==
    ASSUME Repositories!RepositoriesAssumption, RepoInv, NEW g \in Repositories!Gens,
           NEW msg \in MessageSet, NEW where \in Places, NEW left \in SUBSET Owner,
           NEW merged \in Repositories!Lists, NEW fresh \in SUBSET Owner,
           where \notin {"token", "asking"}, where = "starting" => left # {},
           Repositories!Send(g, msg, where, left, merged, fresh)
    PROVE  RepoInv'
<1>. DEFINE q == runs[g].queue
            k == [runs[g] EXCEPT !.queue = Append(q, msg), !.at = where, !.left = left,
                                 !.merged = merged, !.fresh = fresh]
<1>1. runs[g] \in GenSet /\ q \in Seq(MessageSet)
  BY DEF RepoInv, GenSet
<1>2. Append(q, msg) \in Seq(MessageSet) /\ Len(Append(q, msg)) = Len(q) + 1
  BY <1>1, AppendProperties
<1>3. Len(q) + 1 <= Room
  <2>1. IsFiniteSet(Owner) /\ runs[g].owners \subseteq Owner
    BY <1>1, OwnersAreFinite DEF GenSet
  <2>. DEFINE c == Cardinality(runs[g].owners)
              C == Cardinality(Owner)
  <2>2. c \in Nat /\ C \in Nat /\ c <= C
    BY <2>1, FS_Subset, FS_CardinalityType
  <2>3. Repositories!Cardinality(runs[g].owners) = c
    BY Zenon DEF Repositories!Cardinality, Cardinality
  <2>4. Len(q) < 2 * c + 1 /\ Len(q) \in Nat
    BY <1>1, <2>3, LenProperties DEF Repositories!Send, Repositories!Buffer
  <2>. HIDE DEF c, C, q
  <2>5. Len(q) + 1 <= 2 * C + 1
    BY <2>2, <2>4
  <2>. QED
    BY <2>5 DEF Room, C
<1>4. runs' = [runs EXCEPT ![g] = k]
  BY DEF Repositories!Send
<1>5. UNCHANGED <<repos, errs, configured, gen, disk, ownerEdits>>
  BY DEF Repositories!Send, Repositories!Quietly
<1>. HIDE DEF q
<1>6. k \in GenSet /\ k.at = where /\ k.left = left /\ k.queue = Append(q, msg)
  BY <1>1, <1>2 DEF GenSet
<1>. HIDE DEF k
<1>7. InOrder(k)
  BY <1>2, <1>3, <1>6 DEF InOrder
<1>. QED
  BY <1>4, <1>5, <1>6, <1>7, GenMoves DEF RepoInv

\* What writeOwnerCaches leaves in the file.
LEMMA FileOfLists ==
    ASSUME Repositories!RepositoriesAssumption, RepoInv, NEW g \in Repositories!Gens,
           NEW owners \in SUBSET Owner, NEW lists \in Repositories!Lists, NEW fresh \in SUBSET Owner
    PROVE  Repositories!Written(owners, lists, fresh, g) \in DiskSet
<1>1. g \in 0 .. MaxGen /\ 0 \in 0 .. MaxGen
  BY DEF Repositories!Gens, Repositories!RepositoriesAssumption
<1>2. Repositories!OwnedBy(lists, owners) \in Repositories!Lists
  BY <1>1 DEF Repositories!OwnedBy, Repositories!Lists
<1>. DEFINE times == [o \in Owner |-> CASE o \in owners \cap fresh -> g
                                        [] o \in owners \ fresh    -> disk.at[o]
                                        [] OTHER                   -> 0]
<1>3. \A o \in Owner : disk.at[o] \in 0 .. MaxGen
  BY DEF RepoInv, DiskSet, Repositories!Lists
<1>4. times \in Repositories!Lists
  BY <1>1, <1>3 DEF Repositories!Lists
<1>5. Repositories!Written(owners, lists, fresh, g) =
        [list |-> Repositories!OwnedBy(lists, owners), at |-> times]
  BY DEF Repositories!Written
<1>. HIDE DEF times
<1>. QED
  BY <1>2, <1>4, <1>5 DEF DiskSet

LEMMA Nexts ==
    ASSUME NEW S \in SUBSET Owner, S # {}
    PROVE  Repositories!NextOf(S) \in S /\ Repositories!NextOf(S) \in Owner
BY DEF Repositories!NextOf

\* Only the fields named change.
LEMMA TokenKeeps ==
    ASSUME RepoInv, NEW g \in Repositories!Gens,
           Repositories!HasToken(g) \/ Repositories!HasNoToken(g)
    PROVE  RepoInv'
<1>. DEFINE r == runs[g]
<1>0. r \in GenSet /\ InOrder(r) /\ r.at = "token"
  BY DEF RepoInv, Repositories!HasToken, Repositories!HasNoToken
<1>1. UNCHANGED <<configured, repos, errs, gen, disk, ownerEdits>>
  BY DEF Repositories!HasToken, Repositories!HasNoToken, Repositories!Quietly
<1>2. \E k \in GenSet : runs' = [runs EXCEPT ![g] = k] /\ InOrder(k)
  <2>1. CASE Repositories!HasToken(g) /\ r.left = {}
    <3>. DEFINE k == [r EXCEPT !.at = "starting", !.left = r.owners, !.reading = TRUE]
    <3>1. runs' = [runs EXCEPT ![g] = k]
      BY <2>1 DEF Repositories!HasToken
    <3>. HIDE DEF r
    <3>2. k \in GenSet /\ k.at = "starting" /\ k.left = r.owners /\ k.queue = r.queue
      BY <1>0 DEF GenSet, Places
    <3>. HIDE DEF k
    <3>. QED
      BY <1>0, <3>1, <3>2 DEF InOrder
  <2>2. CASE Repositories!HasToken(g) /\ r.left # {}
    <3>. DEFINE k == [r EXCEPT !.at = "retry"]
    <3>1. runs' = [runs EXCEPT ![g] = k]
      BY <2>2 DEF Repositories!HasToken
    <3>. HIDE DEF r
    <3>2. k \in GenSet /\ k.at = "retry" /\ k.queue = r.queue
      BY <1>0 DEF GenSet, Places
    <3>. HIDE DEF k
    <3>. QED
      BY <1>0, <3>1, <3>2 DEF InOrder
  <2>3. CASE Repositories!HasNoToken(g)
    <3>. DEFINE k == [r EXCEPT !.at = "refused", !.left = IF r.left = {} THEN r.owners ELSE r.left]
    <3>1. runs' = [runs EXCEPT ![g] = k]
      BY <2>3 DEF Repositories!HasNoToken
    <3>. HIDE DEF r
    <3>2. k \in GenSet /\ k.at = "refused" /\ k.queue = r.queue
      BY <1>0 DEF GenSet, Places
    <3>. HIDE DEF k
    <3>. QED
      BY <1>0, <3>1, <3>2 DEF InOrder
  <2>. QED
    BY <2>1, <2>2, <2>3
<1>. QED
  BY <1>1, <1>2, GenMoves DEF RepoInv

\* A run's place changes, and what it has left, if it has any.
LEMMA GenGoes ==
    ASSUME RepoInv, NEW g \in Repositories!Gens, NEW where \in Places, NEW left \in SUBSET Owner,
           NEW merged \in Repositories!Lists,
           where \notin {"token", "starting"}, where = "asking" => left # {},
           runs' = [runs EXCEPT ![g] = [@ EXCEPT !.at = where, !.left = left, !.merged = merged]],
           repos' \in Repositories!Lists, errs' \subseteq Owner, disk' \in DiskSet,
           UNCHANGED <<configured, gen, ownerEdits>>
    PROVE  RepoInv'
<1>. DEFINE r == runs[g]
            k == [r EXCEPT !.at = where, !.left = left, !.merged = merged]
<1>0. r \in GenSet /\ InOrder(r) /\ runs' = [runs EXCEPT ![g] = k]
  BY DEF RepoInv
<1>. HIDE DEF r
<1>1. k \in GenSet /\ k.at = where /\ k.left = left /\ k.queue = r.queue
  BY <1>0 DEF GenSet
<1>. HIDE DEF k
<1>. QED
  BY <1>0, <1>1, GenMoves DEF InOrder

\* The whole of what a run holds, to write one of its changes as all of them.
LEMMA Fields ==
    ASSUME RepoInv, NEW g \in Repositories!Gens
    PROVE  /\ runs[g].at \in Places /\ runs[g].left \in SUBSET Owner
           /\ runs[g].owners \in SUBSET Owner /\ runs[g].merged \in Repositories!Lists
           /\ runs[g].fresh \in SUBSET Owner /\ runs[g].queue \in Seq(MessageSet)
           /\ InOrder(runs[g])
           /\ \A w \in Places, l \in SUBSET Owner :
                 /\ [runs[g] EXCEPT !.at = w] =
                       [runs[g] EXCEPT !.at = w, !.left = runs[g].left, !.merged = runs[g].merged]
                 /\ [runs[g] EXCEPT !.left = l] =
                       [runs[g] EXCEPT !.at = runs[g].at, !.left = l, !.merged = runs[g].merged]
<1>. DEFINE r == runs[g]
<1>1. r \in GenSet /\ InOrder(r)
  BY DEF RepoInv
<1>. HIDE DEF r
<1>2. /\ r.at \in Places /\ r.left \in SUBSET Owner /\ r.owners \in SUBSET Owner
      /\ r.merged \in Repositories!Lists /\ r.fresh \in SUBSET Owner /\ r.queue \in Seq(MessageSet)
  BY <1>1 DEF GenSet
<1>3. \A w \in Places, l \in SUBSET Owner :
        /\ [r EXCEPT !.at = w] = [r EXCEPT !.at = w, !.left = r.left, !.merged = r.merged]
        /\ [r EXCEPT !.left = l] = [r EXCEPT !.at = r.at, !.left = l, !.merged = r.merged]
  BY <1>1 DEF GenSet
<1>. QED
  BY <1>1, <1>2, <1>3 DEF r

LEMMA RefusedKeeps ==
    ASSUME Repositories!RepositoriesAssumption, RepoInv, NEW g \in Repositories!Gens,
           Repositories!TellRefused(g) \/ Repositories!CompleteRefused(g)
    PROVE  RepoInv'
<1>. DEFINE r == runs[g]
<1>0. /\ UNCHANGED <<configured, gen, disk, ownerEdits>> /\ disk' \in DiskSet
      /\ r.at = "refused" /\ r.left \in SUBSET Owner /\ r.merged \in Repositories!Lists
  BY Fields DEF RepoInv, Repositories!TellRefused, Repositories!CompleteRefused,
     Repositories!Quietly
<1>1. CASE Repositories!TellRefused(g)
  <2>. DEFINE o    == Repositories!NextOf(r.left)
              left == r.left \ {o}
  <2>1. /\ runs' = [runs EXCEPT ![g].left = left] /\ r.left # {}
        /\ Repositories!Push(g, Repositories!Failed(o))
    BY <1>1 DEF Repositories!TellRefused
  <2>2. o \in Owner /\ left \in SUBSET Owner
    BY <1>0, <2>1, Nexts
  <2>. HIDE DEF o, left
  <2>3. Repositories!Failed(o) \in MessageSet
    BY <2>2, Messages, ZeroList
  <2>4. repos' \in Repositories!Lists /\ errs' \subseteq Owner
    BY <2>1, <2>3, Pushed
  <2>5. runs' = [runs EXCEPT ![g] = [r EXCEPT !.left = left]]
    BY <2>1
  <2>6. [r EXCEPT !.left = left] = [r EXCEPT !.at = r.at, !.left = left, !.merged = r.merged]
    BY <2>2, Fields
  <2>7. runs' = [runs EXCEPT ![g] = [@ EXCEPT !.at = r.at, !.left = left, !.merged = r.merged]]
    BY <2>5, <2>6
  <2>8. r.at \in Places
    BY Fields
  <2>. HIDE DEF r
  <2>. QED
    BY <1>0, <2>2, <2>4, <2>7, <2>8, GenGoes
<1>2. CASE Repositories!CompleteRefused(g)
  <2>. DEFINE where == IF Repositories!Superseded(g) THEN "dropped" ELSE "told"
  <2>1. /\ runs' = [runs EXCEPT ![g].at = where]
        /\ Repositories!Push(g, Repositories!Complete({}))
    BY <1>2 DEF Repositories!CompleteRefused
  <2>2. where \in Places /\ where \notin {"token", "starting", "asking"}
    BY DEF Places
  <2>. HIDE DEF where
  <2>3. Repositories!Complete({}) \in MessageSet
    BY Messages, ZeroList DEF Repositories!RepositoriesAssumption
  <2>4. repos' \in Repositories!Lists /\ errs' \subseteq Owner
    BY <2>1, <2>3, Pushed
  <2>5. runs' = [runs EXCEPT ![g] = [r EXCEPT !.at = where]]
    BY <2>1
  <2>6. [r EXCEPT !.at = where] = [r EXCEPT !.at = where, !.left = r.left, !.merged = r.merged]
    BY <1>0, <2>2, Fields
  <2>7. runs' = [runs EXCEPT ![g] = [@ EXCEPT !.at = where, !.left = r.left, !.merged = r.merged]]
    BY <2>5, <2>6
  <2>. HIDE DEF r
  <2>. QED
    BY <1>0, <2>2, <2>4, <2>7, GenGoes
<1>. QED
  BY <1>1, <1>2

\* Only its place changes.
LEMMA GenGoesTo ==
    ASSUME RepoInv, NEW g \in Repositories!Gens, NEW where \in Places,
           where \notin {"token", "starting"}, where = "asking" => runs[g].left # {},
           runs' = [runs EXCEPT ![g].at = where],
           repos' \in Repositories!Lists, errs' \subseteq Owner, disk' \in DiskSet,
           UNCHANGED <<configured, gen, ownerEdits>>
    PROVE  RepoInv'
<1>. DEFINE r == runs[g]
<1>1. runs' = [runs EXCEPT ![g] = [r EXCEPT !.at = where]]
  OBVIOUS
<1>2. [r EXCEPT !.at = where] = [r EXCEPT !.at = where, !.left = r.left, !.merged = r.merged]
  BY Fields
<1>3. runs' = [runs EXCEPT ![g] = [@ EXCEPT !.at = where, !.left = r.left, !.merged = r.merged]]
  BY <1>1, <1>2
<1>4. r.left \in SUBSET Owner /\ r.merged \in Repositories!Lists
  BY Fields
<1>5. where = "asking" => r.left # {}
  OBVIOUS
<1>. HIDE DEF r
<1>. QED
  BY <1>3, <1>4, <1>5, GenGoes

LEMMA RetryKeeps ==
    ASSUME Repositories!RepositoriesAssumption, RepoInv, NEW g \in Repositories!Gens,
           \/ Repositories!RetryStarts(g) \/ Repositories!RetryJudges(g)
           \/ Repositories!RetryStamps(g) \/ Repositories!RetryCompletes(g)
           \/ \E ok \in BOOLEAN : Repositories!RetryAnswers(g, ok)
    PROVE  RepoInv'
<1>0. /\ repos \in Repositories!Lists /\ errs \subseteq Owner /\ disk \in DiskSet
      /\ runs[g].left \in SUBSET Owner /\ runs[g].merged \in Repositories!Lists
      /\ runs[g].owners \in SUBSET Owner /\ InOrder(runs[g])
  BY Fields DEF RepoInv
<1>1. CASE Repositories!RetryStarts(g)
  <2>. DEFINE o     == Repositories!NextOf(runs[g].left)
              where == IF Repositories!Superseded(g) THEN "dropped" ELSE "asking"
  <2>1. /\ runs' = [runs EXCEPT ![g].at = where] /\ runs[g].left # {}
        /\ Repositories!Push(g, Repositories!Started(o))
        /\ UNCHANGED <<configured, gen, disk, ownerEdits>>
    BY <1>1 DEF Repositories!RetryStarts, Repositories!Quietly
  <2>2. where \in Places /\ where \notin {"token", "starting"}
    BY DEF Places
  <2>3. o \in Owner
    BY <1>0, <2>1, Nexts
  <2>. HIDE DEF o, where
  <2>4. Repositories!Started(o) \in MessageSet
    BY <2>3, Messages, ZeroList
  <2>5. repos' \in Repositories!Lists /\ errs' \subseteq Owner
    BY <2>1, <2>4, Pushed
  <2>. QED
    BY <1>0, <2>1, <2>2, <2>5, GenGoesTo
<1>2. CASE Repositories!RetryJudges(g)
  <2>. DEFINE where == IF errs = {} /\ ~Repositories!Superseded(g) THEN "stamping" ELSE "last"
  <2>1. /\ runs' = [runs EXCEPT ![g].at = where]
        /\ UNCHANGED <<configured, gen, disk, ownerEdits, repos, errs>>
    BY <1>2 DEF Repositories!RetryJudges, Repositories!Quietly
  <2>2. where \in Places /\ where \notin {"token", "starting", "asking"}
    BY DEF Places
  <2>. HIDE DEF where
  <2>. QED
    BY <1>0, <2>1, <2>2, GenGoesTo
<1>3. CASE Repositories!RetryStamps(g)
  <2>1. /\ runs' = [runs EXCEPT ![g].at = "last"]
        /\ UNCHANGED <<configured, gen, ownerEdits, repos, errs>>
        /\ disk' \in {disk, Repositories!Written(runs[g].owners, runs[g].merged,
                                                 runs[g].owners, g)}
    BY <1>3 DEF Repositories!RetryStamps
  <2>2. disk' \in DiskSet
    BY <1>0, <2>1, FileOfLists
  <2>3. "last" \in Places /\ "last" \notin {"token", "starting", "asking"}
    BY DEF Places
  <2>. QED
    BY <1>0, <2>1, <2>2, <2>3, GenGoesTo
<1>4. CASE Repositories!RetryCompletes(g)
  <2>. DEFINE where == IF Repositories!Superseded(g) THEN "dropped" ELSE "told"
  <2>1. /\ runs' = [runs EXCEPT ![g].at = where]
        /\ Repositories!Push(g, Repositories!Complete({runs[g].merged}))
        /\ UNCHANGED <<configured, gen, disk, ownerEdits>>
    BY <1>4 DEF Repositories!RetryCompletes, Repositories!Quietly
  <2>2. where \in Places /\ where \notin {"token", "starting", "asking"}
    BY DEF Places
  <2>. HIDE DEF where
  <2>3. Repositories!Complete({runs[g].merged}) \in MessageSet
    BY <1>0, Messages DEF Repositories!RepositoriesAssumption
  <2>4. repos' \in Repositories!Lists /\ errs' \subseteq Owner
    BY <2>1, <2>3, Pushed
  <2>. QED
    BY <1>0, <2>1, <2>2, <2>4, GenGoesTo
<1>5. CASE \E ok \in BOOLEAN : Repositories!RetryAnswers(g, ok)
  <2>0. PICK ok \in BOOLEAN : Repositories!RetryAnswers(g, ok)
    BY <1>5
  <2>. DEFINE o      == Repositories!NextOf(runs[g].left)
              where  == IF Repositories!Superseded(g) THEN "dropped" ELSE "retry"
              left   == runs[g].left \ {o}
              merged == [runs[g].merged EXCEPT ![o] = IF ok THEN g ELSE runs[g].merged[o]]
              msg    == IF ok THEN Repositories!Succeeded(o, {}) ELSE Repositories!Failed(o)
  <2>1. /\ runs[g].at = "asking" /\ Repositories!Push(g, msg)
        /\ UNCHANGED <<configured, gen, disk, ownerEdits>>
    BY <2>0 DEF Repositories!RetryAnswers, Repositories!Quietly
  <2>2. runs' = [runs EXCEPT ![g] = [@ EXCEPT !.at = where, !.left = left, !.merged = merged]]
    <3>1. runs' = [runs EXCEPT ![g].at = where, ![g].left = left,
                              ![g].merged[o] = IF ok THEN g ELSE runs[g].merged[o]]
      BY <2>0 DEF Repositories!RetryAnswers
    <3>2. runs' = [runs EXCEPT ![g].at = where, ![g].left = left, ![g].merged = merged]
      BY Zenon, <3>1
    <3>. HIDE DEF merged, where, left, o
    <3>. QED
      BY <3>2
  <2>3. o \in Owner /\ left \in SUBSET Owner
    BY <1>0, <2>1, Nexts DEF InOrder
  <2>4. g \in 0 .. MaxGen
    BY DEF Repositories!Gens, Repositories!RepositoriesAssumption
  <2>5. merged \in Repositories!Lists
    BY <1>0, <2>3, <2>4 DEF Repositories!Lists
  <2>6. where \in Places /\ where \notin {"token", "starting", "asking"}
    BY DEF Places
  <2>. HIDE DEF o, where, left, merged
  <2>7. msg \in MessageSet
    BY <2>3, Messages, ZeroList
  <2>. HIDE DEF msg
  <2>8. repos' \in Repositories!Lists /\ errs' \subseteq Owner
    BY <2>1, <2>7, Pushed
  <2>. QED
    BY <1>0, <2>1, <2>2, <2>3, <2>5, <2>6, <2>8, GenGoes
<1>. QED
  BY <1>1, <1>2, <1>3, <1>4, <1>5

\* The fan-out: the coordinator's steps, each with its room in the channel.
LEMMA FanOutKeeps ==
    ASSUME Repositories!RepositoriesAssumption, RepoInv, NEW g \in Repositories!Gens,
           \/ Repositories!StartOwner(g) \/ Repositories!Judge(g) \/ Repositories!Write(g)
           \/ Repositories!SendComplete(g)
           \/ \E ok \in BOOLEAN, o \in Owner : Repositories!Collect(g, o, ok)
    PROVE  RepoInv'
<1>. DEFINE r == runs[g]
<1>0. /\ repos \in Repositories!Lists /\ errs \subseteq Owner /\ disk \in DiskSet
      /\ r.left \in SUBSET Owner /\ r.merged \in Repositories!Lists
      /\ r.owners \in SUBSET Owner /\ r.fresh \in SUBSET Owner /\ InOrder(r)
  BY Fields DEF RepoInv
<1>1. CASE Repositories!StartOwner(g)
  <2>. DEFINE o == Repositories!NextOf(r.left)
  <2>1. o \in Owner /\ o \in r.left
    BY <1>0, <1>1, Nexts DEF InOrder, Repositories!StartOwner
  <2>2. Repositories!Started(o) \in MessageSet
    BY <2>1, Messages, ZeroList
  <2>3. "collecting" \in Places /\ "starting" \in Places /\ {} \in SUBSET Owner
    BY DEF Places
  <2>4. CASE r.left = {o}
    <3>1. Repositories!Send(g, Repositories!Started(o), "collecting", r.owners, r.merged, {})
      BY <1>1, <2>4 DEF Repositories!StartOwner
    <3>. HIDE DEF r, o
    <3>. QED
      BY <1>0, <2>2, <2>3, <3>1, SentKeeps
  <2>5. CASE r.left # {o}
    <3>1. Repositories!Send(g, Repositories!Started(o), "starting", r.left \ {o}, r.merged, {})
      BY <1>1, <2>5 DEF Repositories!StartOwner
    <3>2. r.left \ {o} \in SUBSET Owner /\ r.left \ {o} # {}
      BY <1>0, <2>1, <2>5
    <3>. HIDE DEF r, o
    <3>. QED
      BY <1>0, <2>2, <2>3, <3>1, <3>2, SentKeeps
  <2>. QED
    BY <2>4, <2>5
<1>2. CASE Repositories!Judge(g)
  <2>. DEFINE where == IF ~Repositories!Superseded(g) /\ r.fresh # {} THEN "writing" ELSE "closing"
  <2>1. /\ runs' = [runs EXCEPT ![g].at = where]
        /\ UNCHANGED <<configured, gen, disk, ownerEdits, repos, errs>>
    BY <1>2 DEF Repositories!Judge, Repositories!Quietly
  <2>2. where \in Places /\ where \notin {"token", "starting", "asking"}
    BY DEF Places
  <2>. HIDE DEF where, r
  <2>. QED
    BY <1>0, <2>1, <2>2, GenGoesTo
<1>3. CASE Repositories!Write(g)
  <2>1. /\ runs' = [runs EXCEPT ![g].at = "closing"]
        /\ UNCHANGED <<configured, gen, ownerEdits, repos, errs>>
        /\ disk' \in {disk, Repositories!Written(r.owners, r.merged, r.fresh, g)}
    BY <1>3 DEF Repositories!Write
  <2>. HIDE DEF r
  <2>2. disk' \in DiskSet
    BY <1>0, <2>1, FileOfLists
  <2>3. "closing" \in Places /\ "closing" \notin {"token", "starting", "asking"}
    BY DEF Places
  <2>. QED
    BY <1>0, <2>1, <2>2, <2>3, GenGoesTo
<1>4. CASE Repositories!SendComplete(g)
  <2>1. Repositories!Send(g, Repositories!Complete({r.merged}), "closed", {}, r.merged, r.fresh)
    BY <1>4 DEF Repositories!SendComplete
  <2>. HIDE DEF r
  <2>2. Repositories!Complete({r.merged}) \in MessageSet
    BY <1>0, Messages DEF Repositories!RepositoriesAssumption
  <2>3. "closed" \in Places /\ {} \in SUBSET Owner
    BY DEF Places
  <2>. QED
    BY <1>0, <2>1, <2>2, <2>3, SentKeeps
<1>5. CASE \E ok \in BOOLEAN, o \in Owner : Repositories!Collect(g, o, ok)
  <2>0. PICK ok \in BOOLEAN, o \in Owner : Repositories!Collect(g, o, ok)
    BY <1>5
  <2>. DEFINE with == [r.merged EXCEPT ![o] = g]
  <2>1. IF ok THEN Repositories!Send(g, Repositories!Succeeded(o, {with}), "collecting",
                                     r.left \ {o}, with, r.fresh \cup {o})
              ELSE Repositories!Send(g, Repositories!Failed(o), "collecting", r.left \ {o},
                                     r.merged, r.fresh)
    BY <2>0 DEF Repositories!Collect
  <2>2. g \in 0 .. MaxGen
    BY DEF Repositories!Gens, Repositories!RepositoriesAssumption
  <2>3. with \in Repositories!Lists
    BY <1>0, <2>2 DEF Repositories!Lists
  <2>. HIDE DEF with
  <2>4. Repositories!Succeeded(o, {with}) \in MessageSet /\ Repositories!Failed(o) \in MessageSet
    BY <2>3, Messages
  <2>5. /\ "collecting" \in Places /\ r.left \ {o} \in SUBSET Owner
        /\ r.fresh \cup {o} \in SUBSET Owner
    BY <1>0 DEF Places
  <2>. HIDE DEF r
  <2>6. CASE ok
    BY <1>0, <2>1, <2>3, <2>4, <2>5, <2>6, SentKeeps
  <2>7. CASE ~ok
    BY <1>0, <2>1, <2>4, <2>5, <2>7, SentKeeps
  <2>. QED
    BY <2>6, <2>7
<1>. QED
  BY <1>1, <1>2, <1>3, <1>4, <1>5

\* The run's own loop takes the oldest message.
LEMMA ReceiveKeeps ==
    ASSUME Repositories!RepositoriesAssumption, RepoInv, NEW g \in Repositories!Gens,
           Repositories!Receive(g)
    PROVE  RepoInv'
<1>. DEFINE r       == runs[g]
            reading == ~Repositories!Superseded(g) /\ Head(r.queue).state # "complete"
            where   == IF ~Repositories!Superseded(g) /\ Head(r.queue).state = "complete"
                       THEN "told" ELSE r.at
            k       == [r EXCEPT !.queue = Tail(r.queue), !.reading = reading, !.at = where]
<1>0. r \in GenSet /\ InOrder(r) /\ r.queue \in Seq(MessageSet) /\ r.at \in Places
  BY Fields DEF RepoInv
<1>1. /\ r.queue # <<>> /\ Repositories!Push(g, Head(r.queue))
      /\ UNCHANGED <<configured, gen, disk, ownerEdits>>
  BY DEF Repositories!Receive, Repositories!Quietly
<1>2. runs' = [runs EXCEPT ![g] = k]
  BY DEF Repositories!Receive
<1>3. where \in Places /\ (where = r.at \/ where = "told")
  BY <1>0 DEF Places
<1>4. reading \in BOOLEAN
  OBVIOUS
<1>. HIDE DEF reading, where, r
<1>5. Head(r.queue) \in MessageSet /\ Tail(r.queue) \in Seq(MessageSet)
      /\ Len(Tail(r.queue)) = Len(r.queue) - 1 /\ Len(r.queue) \in Nat
  BY <1>0, <1>1, HeadTailProperties, LenProperties
<1>6. repos' \in Repositories!Lists /\ errs' \subseteq Owner
  BY <1>1, <1>5, Pushed
<1>7. k \in GenSet /\ k.at = where /\ k.left = r.left /\ k.owners = r.owners
      /\ k.queue = Tail(r.queue)
  BY <1>0, <1>3, <1>4, <1>5 DEF GenSet
<1>. HIDE DEF k
<1>8. Len(k.queue) = Len(r.queue) - 1
  BY <1>5, <1>7
<1>9. Room \in Int /\ Len(r.queue) <= Room => Len(r.queue) - 1 <= Room
  BY <1>5
<1>10. Room \in Int
  BY ZeroList
<1>11. InOrder(k)
  BY <1>0, <1>3, <1>7, <1>8, <1>9, <1>10 DEF InOrder
<1>. QED
  BY <1>1, <1>2, <1>6, <1>7, <1>11, GenMoves DEF RepoInv

\* The owners are chosen, or the button is pressed.
LEMMA PressKeeps ==
    ASSUME Repositories!RepositoriesAssumption, RepoInv,
           \/ Repositories!Refresh
           \/ \E owners \in (SUBSET Owner) \ {{}} : Repositories!Configure(owners)
    PROVE  RepoInv'
<1>1. CASE \E owners \in (SUBSET Owner) \ {{}} : Repositories!Configure(owners)
  <2>1. PICK owners \in (SUBSET Owner) \ {{}} : Repositories!Configure(owners)
    BY <1>1
  <2>2. /\ configured' = owners /\ ownerEdits < MaxEdits /\ ownerEdits' = ownerEdits + 1
        /\ UNCHANGED <<repos, errs, gen, runs, disk>>
    BY <2>1 DEF Repositories!Configure
  <2>3. ownerEdits' \in 0 .. MaxEdits
    <3>1. ownerEdits \in 0 .. MaxEdits /\ MaxEdits \in Nat
      BY DEF RepoInv, Repositories!RepositoriesAssumption
    <3>. QED
      BY <2>2, <3>1
  <2>. QED
    BY <2>2, <2>3 DEF RepoInv
<1>2. CASE Repositories!Refresh
  <2>. DEFINE n == gen + 1
              z == Repositories!NoRun
              m == Repositories!OwnedBy(repos, configured)
              e == errs \cap configured
              k == [z EXCEPT !.at = "token", !.owners = configured, !.left = e, !.merged = m]
  <2>1. /\ gen < MaxGen /\ gen' = n /\ runs' = [runs EXCEPT ![n] = k]
        /\ UNCHANGED <<configured, repos, errs, disk, ownerEdits>>
    BY <1>2 DEF Repositories!Refresh
  <2>2. n \in Repositories!Gens /\ n \in 0 .. MaxGen
    BY <2>1 DEF RepoInv, Repositories!Gens, Repositories!RepositoriesAssumption
  <2>3. m \in Repositories!Lists
    <3>1. 0 \in 0 .. MaxGen
      BY DEF Repositories!RepositoriesAssumption
    <3>. QED
      BY <3>1 DEF RepoInv, Repositories!OwnedBy, Repositories!Lists
  <2>4. z \in GenSet /\ z.queue = <<>> /\ Room \in Nat
    BY ZeroList
  <2>5. configured \in SUBSET Owner /\ configured # {} /\ e \in SUBSET Owner
    BY DEF RepoInv
  <2>. HIDE DEF z, m, n, e
  <2>6. k \in GenSet /\ k.at = "token" /\ k.owners = configured /\ k.queue = <<>>
    BY <2>3, <2>4, <2>5 DEF GenSet, Places
  <2>. HIDE DEF k
  <2>7. Len(<<>>) = 0 /\ 0 <= Room
    BY <2>4, EmptySeq
  <2>8. InOrder(k)
    BY <2>5, <2>6, <2>7 DEF InOrder
  <2>9. runs' \in [Repositories!Gens -> GenSet]
    BY <2>1, <2>2, <2>6 DEF RepoInv
  <2>10. \A h \in Repositories!Gens : runs'[h] = IF h = n THEN k ELSE runs[h]
    BY <2>1, <2>2 DEF RepoInv
  <2>11. \A h \in Repositories!Gens : InOrder(runs'[h])
    BY <2>8, <2>10 DEF RepoInv
  <2>. QED
    BY <2>1, <2>2, <2>9, <2>11 DEF RepoInv
<1>. QED
  BY <1>1, <1>2

LEMMA RepositoriesStep ==
    ASSUME Repositories!RepositoriesAssumption, RepoInv,
           [Repositories!RepoNext]_(Repositories!repoVars)
    PROVE  RepoInv'
<1>1. CASE UNCHANGED Repositories!repoVars
  <2>1. UNCHANGED <<configured, repos, errs, gen, runs, disk, ownerEdits>>
    BY <1>1 DEF Repositories!repoVars
  <2>. QED
    BY <2>1 DEF RepoInv
<1>2. CASE Repositories!Refresh \/ \E owners \in (SUBSET Owner) \ {{}} : Repositories!Configure(owners)
  BY <1>2, PressKeeps
<1>3. CASE \E g \in Repositories!Gens : Repositories!Step(g)
  <2>1. PICK g \in Repositories!Gens : Repositories!Step(g)
    BY <1>3
  <2>. QED
    BY <2>1, TokenKeeps, RefusedKeeps, RetryKeeps, FanOutKeeps, ReceiveKeeps
    DEF Repositories!Step
<1>. QED
  BY <1>1, <1>2, <1>3 DEF Repositories!RepoNext

LEMMA RepositoriesShow ==
    ASSUME Repositories!RepositoriesAssumption, RepoInv PROVE Repositories!RepoTypeOK
<1>1. \A g \in Repositories!Gens : /\ runs[g].merged \in Repositories!Lists
                                   /\ Len(runs[g].queue) <= Room
  BY Fields DEF InOrder
<1>2. Repositories!Cardinality(Owner) = Cardinality(Owner)
  BY Zenon DEF Repositories!Cardinality, Cardinality
<1>. QED
  BY <1>1, <1>2 DEF RepoInv, Room, DiskSet, Repositories!RepoTypeOK

-----------------------------------------------------------------------------
(* Rail.  The rows stay apart from each other whatever is moved, and the order  *)
(* in which new ones were found exists.                                      *)

\* The variables of Rail, by their names there.
recent == v1
written == v2
onScreen == v3
opening == v4
nudged == v5
rail == v6
marks == v7
rows == v8
railSpent == v9
USE DEF recent, written, onScreen, opening, nudged, rail, marks, rows, railSpent

\* The sequences in which no session is twice.
Rows == {s \in Seq(Row) : \A i, j \in 1 .. Len(s) : s[i] = s[j] => i = j}

SpentSet == [docs : 0 .. MaxDocs, opens : 0 .. MaxOpens, moves : 0 .. MaxDiskMoves]

RailInv ==
    /\ recent \in Rows /\ rail \in Rows /\ rows \in Rows
    /\ onScreen \subseteq Rail!ToSet(recent)
    /\ written \in [Row -> Nat] /\ marks \in [Row -> Nat] /\ railSpent \in SpentSet
    /\ \A s \in Row : written[s] <= railSpent.docs /\ marks[s] <= railSpent.docs

LEMMA RowsAre ==
    ASSUME NEW s \in Rows
    PROVE  /\ s \in Seq(Row) /\ Len(s) \in Nat /\ DOMAIN s = 1 .. Len(s)
           /\ \A i \in 1 .. Len(s) : s[i] \in Row
           /\ \A i, j \in 1 .. Len(s) : s[i] = s[j] => i = j
           /\ Rail!ToSet(s) = {s[i] : i \in 1 .. Len(s)} /\ Rail!ToSet(s) \subseteq Row
BY LenProperties DEF Rows, Rail!ToSet

LEMMA NoRows == <<>> \in Rows /\ Rail!ToSet(<<>>) = {}
<1>1. <<>> \in Seq(Row) /\ Len(<<>>) = 0
  BY EmptySeq
<1>2. <<>> \in Rows
  BY <1>1 DEF Rows
<1>3. 1 .. 0 = {}
  OBVIOUS
<1>. QED
  BY <1>1, <1>2, <1>3, RowsAre

\* Rows that are apart from each other, one after the other.
LEMMA Joined ==
    ASSUME NEW s \in Rows, NEW t \in Rows, Rail!ToSet(s) \cap Rail!ToSet(t) = {}
    PROVE  /\ s \o t \in Rows /\ Rail!ToSet(s \o t) = Rail!ToSet(s) \cup Rail!ToSet(t)
           /\ \A a, b : Rail!Above(t, a, b) => Rail!Above(s \o t, a, b)
<1>. DEFINE m == Len(s)
            n == Len(t)
            u == s \o t
<1>1. /\ m \in Nat /\ n \in Nat /\ s \in Seq(Row) /\ t \in Seq(Row)
      /\ \A i \in 1 .. m : s[i] \in Row /\ s[i] \in Rail!ToSet(s)
      /\ \A i \in 1 .. n : t[i] \in Row /\ t[i] \in Rail!ToSet(t)
      /\ \A i, j \in 1 .. m : s[i] = s[j] => i = j
      /\ \A i, j \in 1 .. n : t[i] = t[j] => i = j
      /\ DOMAIN t = 1 .. n
  BY RowsAre
<1>2. /\ u \in Seq(Row) /\ Len(u) = m + n
      /\ \A i \in 1 .. m + n : u[i] = IF i <= m THEN s[i] ELSE t[i - m]
  BY <1>1, ConcatProperties
<1>3. DOMAIN u = 1 .. m + n
  BY <1>2, LenProperties
<1>. HIDE DEF m, n, u
<1>4. ASSUME NEW i \in 1 .. m + n, NEW j \in 1 .. m + n, u[i] = u[j] PROVE i = j
  <2>1. CASE i <= m /\ j <= m
    <3>1. i \in 1 .. m /\ j \in 1 .. m
      BY <1>1, <2>1
    <3>. QED
      BY <1>1, <1>2, <1>4, <2>1, <3>1
  <2>2. CASE i <= m /\ ~(j <= m)
    <3>1. i \in 1 .. m /\ j - m \in 1 .. n
      BY <1>1, <2>2
    <3>2. u[i] \in Rail!ToSet(s) /\ u[j] \in Rail!ToSet(t)
      BY <1>1, <1>2, <2>2, <3>1
    <3>. QED
      BY <1>4, <3>2
  <2>3. CASE ~(i <= m) /\ j <= m
    <3>1. j \in 1 .. m /\ i - m \in 1 .. n
      BY <1>1, <2>3
    <3>2. u[j] \in Rail!ToSet(s) /\ u[i] \in Rail!ToSet(t)
      BY <1>1, <1>2, <2>3, <3>1
    <3>. QED
      BY <1>4, <3>2
  <2>4. CASE ~(i <= m) /\ ~(j <= m)
    <3>1. i - m \in 1 .. n /\ j - m \in 1 .. n
      BY <1>1, <2>4
    <3>2. t[i - m] = t[j - m]
      BY <1>2, <1>4, <2>4
    <3>3. i - m = j - m
      BY <1>1, <3>1, <3>2
    <3>. QED
      BY <1>1, <3>3
  <2>. QED
    BY <2>1, <2>2, <2>3, <2>4
<1>5. u \in Rows
  BY <1>2, <1>4 DEF Rows
<1>6. \A i \in 1 .. m : i \in 1 .. m + n /\ u[i] = s[i]
  BY <1>1, <1>2
<1>7. \A i \in 1 .. n : m + i \in 1 .. m + n /\ u[m + i] = t[i]
  BY <1>1, <1>2
<1>8. Rail!ToSet(u) = Rail!ToSet(s) \cup Rail!ToSet(t)
  <2>1. Rail!ToSet(u) = {u[i] : i \in 1 .. m + n}
    BY <1>2, <1>5, RowsAre
  <2>2. Rail!ToSet(s) = {s[i] : i \in 1 .. m} /\ Rail!ToSet(t) = {t[i] : i \in 1 .. n}
    BY RowsAre DEF m, n
  <2>3. \A i \in 1 .. m + n : i \in 1 .. m \/ i - m \in 1 .. n
    BY <1>1
  <2>4. \A i \in 1 .. m + n : u[i] \in Rail!ToSet(s) \cup Rail!ToSet(t)
    BY <1>1, <1>2, <2>3
  <2>. QED
    BY <1>6, <1>7, <2>1, <2>2, <2>4
<1>9. ASSUME NEW a, NEW b, Rail!Above(t, a, b) PROVE Rail!Above(u, a, b)
  <2>1. PICK i, j \in 1 .. n : i < j /\ t[i] = a /\ t[j] = b
    BY <1>1, <1>9 DEF Rail!Above
  <2>2. m + i < m + j
    BY <1>1, <2>1
  <2>3. m + i \in DOMAIN u /\ m + j \in DOMAIN u /\ u[m + i] = a /\ u[m + j] = b
    BY <1>3, <1>7, <2>1
  <2>. QED
    BY <2>2, <2>3 DEF Rail!Above
<1>. QED
  BY <1>5, <1>8, <1>9 DEF u

LEMMA OneRow == ASSUME NEW x \in Row PROVE <<x>> \in Rows /\ Rail!ToSet(<<x>>) = {x}
<1>1. <<x>> \in Seq(Row) /\ Len(<<x>>) = 1 /\ <<x>>[1] = x /\ 1 .. 1 = {1}
  OBVIOUS
<1>2. <<x>> \in Rows
  BY <1>1 DEF Rows
<1>. QED
  BY <1>1, <1>2, RowsAre

\* Some number is the least, whatever numbers there are.
LEMMA Least ==
    ASSUME NEW T, T \subseteq Nat, T # {} PROVE \E n \in T : \A m \in T : n <= m
<1>1. \E x \in T : \A y \in T : ~ (<<y, x>> \in OpToRel(<, Nat))
  BY NatLessThanWellFounded, WFMin
<1>2. PICK x \in T : \A y \in T : ~ (<<y, x>> \in OpToRel(<, Nat))
  BY <1>1
<1>3. \A y \in T : ~ (y < x)
  BY <1>2 DEF OpToRel
<1>4. x \in Int /\ \A y \in T : y \in Int
  OBVIOUS
<1>5. \A y \in T : x <= y
  BY <1>3, <1>4
<1>. QED
  BY <1>5

\* s is what there is in f of outside K, in its order.
IsFresh(s, f, K) ==
    /\ s \in Rows /\ Rail!ToSet(s) = Rail!ToSet(f) \ K
    /\ \A a, b : Rail!Above(s, a, b) => Rail!Above(f, a, b)

\* All but the last row of some rows, and the last.
LEMMA AllButTheLast ==
    ASSUME NEW f \in Rows, Len(f) # 0
    PROVE  \E g \in Rows, x \in Row :
              /\ Len(g) = Len(f) - 1 /\ x \notin Rail!ToSet(g)
              /\ Rail!ToSet(f) = Rail!ToSet(g) \cup {x}
              /\ \A a, b : Rail!Above(g, a, b) => Rail!Above(f, a, b)
              /\ \A a \in Rail!ToSet(g) : Rail!Above(f, a, x)
<1>. DEFINE n == Len(f)
            g == SubSeq(f, 1, n - 1)
            x == f[n]
<1>1. /\ n \in Nat \ {0} /\ DOMAIN f = 1 .. n
      /\ \A i \in 1 .. n : f[i] \in Row
      /\ \A i, j \in 1 .. n : f[i] = f[j] => i = j
      /\ Rail!ToSet(f) = {f[i] : i \in 1 .. n}
  BY RowsAre
<1>. HIDE DEF n
<1>2. \A i \in 1 .. n - 1 : f[i] \in Row /\ i \in 1 .. n
  BY <1>1
<1>3. /\ 1 \in Int /\ n - 1 \in Int /\ n \in 1 .. n
      /\ (1 <= n - 1 => (n - 1) - 1 + 1 = n - 1) /\ (~(1 <= n - 1) => n - 1 = 0)
      /\ (n - 1) - 1 + 1 = n - 1 /\ \A i \in 1 .. n - 1 : 1 + i - 1 = i
  BY <1>1
<1>4. /\ g \in Seq(Row) /\ Len(g) = IF 1 <= n - 1 THEN (n - 1) - 1 + 1 ELSE 0
      /\ \A i \in 1 .. (n - 1) - 1 + 1 : g[i] = f[1 + i - 1]
  BY <1>2, <1>3, SubSeqProperties
<1>. HIDE DEF g
<1>5. Len(g) = n - 1 /\ \A i \in 1 .. n - 1 : g[i] = f[i]
  BY <1>3, <1>4
<1>6. g \in Rows
  BY <1>1, <1>2, <1>4, <1>5 DEF Rows
<1>7. Rail!ToSet(g) = {g[i] : i \in 1 .. n - 1} /\ DOMAIN g = 1 .. n - 1
  BY <1>5, <1>6, RowsAre
<1>8. \A i \in 1 .. n - 1 : i # n
  BY <1>1
<1>9. x \in Row /\ x \notin Rail!ToSet(g)
  BY <1>1, <1>2, <1>3, <1>5, <1>7, <1>8
<1>10. \A i \in 1 .. n : i = n \/ i \in 1 .. n - 1
  BY <1>1
<1>11. Rail!ToSet(f) = Rail!ToSet(g) \cup {x}
  BY <1>1, <1>2, <1>3, <1>5, <1>7, <1>10
<1>12. ASSUME NEW a, NEW b, Rail!Above(g, a, b) PROVE Rail!Above(f, a, b)
  BY <1>1, <1>2, <1>5, <1>7, <1>12 DEF Rail!Above
<1>13. ASSUME NEW a \in Rail!ToSet(g) PROVE Rail!Above(f, a, x)
  <2>1. PICK i \in 1 .. n - 1 : a = g[i]
    BY <1>7
  <2>2. i < n /\ i \in 1 .. n
    BY <1>1
  <2>3. f[i] = a /\ i \in DOMAIN f /\ n \in DOMAIN f
    BY <1>1, <1>3, <1>5, <2>1, <2>2
  <2>. QED
    BY <2>2, <2>3 DEF Rail!Above
<1>. QED
  BY <1>5, <1>6, <1>9, <1>11, <1>12, <1>13 DEF n

\* New rows can be put in the order they were found: of the rows found that cannot be,
\* the shortest would not be the shortest.
LEMMA FreshExists == ASSUME NEW f \in Rows, NEW K PROVE \E s : IsFresh(s, f, K)
<1>. DEFINE Bad == {n \in Nat : \E e \in Rows : Len(e) = n /\ ~\E s : IsFresh(s, e, K)}
<1>1. SUFFICES ASSUME ~\E s : IsFresh(s, f, K) PROVE FALSE
  OBVIOUS
<1>2. Len(f) \in Bad
  BY <1>1, RowsAre
<1>3. PICK n \in Bad : \A m \in Bad : n <= m
  BY <1>2, Least
<1>4. PICK e \in Rows : Len(e) = n /\ ~\E s : IsFresh(s, e, K)
  BY <1>3
<1>5. n \in Nat /\ \A g \in Rows : Len(g) = n - 1 /\ n # 0 => \E s : IsFresh(s, g, K)
  <2>1. n \in Nat
    BY <1>3
  <2>2. ASSUME NEW g \in Rows, Len(g) = n - 1, n # 0, ~\E s : IsFresh(s, g, K) PROVE FALSE
    <3>1. n - 1 \in Bad
      BY <2>1, <2>2
    <3>. HIDE DEF Bad
    <3>2. n <= n - 1
      BY <1>3, <3>1
    <3>. QED
      BY <2>1, <3>2
  <2>. QED
    BY <2>1, <2>2
<1>. HIDE DEF Bad
<1>6. CASE n = 0
  <2>1. Rail!ToSet(e) = {} /\ DOMAIN e = {}
    BY <1>4, <1>6, RowsAre
  <2>2. ~\E a, b : Rail!Above(<<>>, a, b)
    BY DEF Rail!Above
  <2>3. IsFresh(<<>>, e, K)
    BY <2>1, <2>2, NoRows DEF IsFresh
  <2>. QED
    BY <1>4, <2>3
<1>7. CASE n # 0
  <2>1. PICK g \in Rows, x \in Row :
              /\ Len(g) = Len(e) - 1 /\ x \notin Rail!ToSet(g)
              /\ Rail!ToSet(e) = Rail!ToSet(g) \cup {x}
              /\ \A a, b : Rail!Above(g, a, b) => Rail!Above(e, a, b)
              /\ \A a \in Rail!ToSet(g) : Rail!Above(e, a, x)
    BY <1>4, <1>7, AllButTheLast
  <2>2. PICK s : IsFresh(s, g, K)
    BY <1>4, <1>5, <1>7, <2>1
  <2>3. CASE x \in K
    <3>1. IsFresh(s, e, K)
      BY <2>1, <2>2, <2>3 DEF IsFresh
    <3>. QED
      BY <1>4, <3>1
  <2>4. CASE x \notin K
    <3>. DEFINE u == s \o <<x>>
    <3>1. s \in Rows /\ <<x>> \in Rows /\ Rail!ToSet(<<x>>) = {x} /\ x \notin Rail!ToSet(s)
      BY <2>1, <2>2, OneRow DEF IsFresh
    <3>2. u \in Rows /\ Rail!ToSet(u) = Rail!ToSet(s) \cup {x}
      BY <3>1, Joined
    <3>3. ASSUME NEW a, NEW b, Rail!Above(u, a, b) PROVE Rail!Above(e, a, b)
      <4>. DEFINE m == Len(s)
      <4>1. /\ m \in Nat /\ Len(<<x>>) = 1 /\ s \in Seq(Row) /\ <<x>> \in Seq(Row)
            /\ <<x>>[1] = x
            /\ DOMAIN s = 1 .. m /\ \A i \in 1 .. m : s[i] \in Rail!ToSet(s)
        BY <3>1, RowsAre
      <4>2. /\ Len(u) = m + 1
            /\ \A i \in 1 .. m + 1 : u[i] = IF i <= m THEN s[i] ELSE <<x>>[i - m]
        BY <4>1, ConcatProperties
      <4>3. DOMAIN u = 1 .. m + 1
        BY <3>2, <4>2, RowsAre
      <4>. HIDE DEF m, u
      <4>4. PICK i, j \in 1 .. m + 1 : i < j /\ u[i] = a /\ u[j] = b
        BY <3>3, <4>3 DEF Rail!Above
      <4>5. i \in 1 .. m /\ i <= m
        BY <4>1, <4>4
      <4>6. u[i] = s[i] /\ s[i] \in Rail!ToSet(s)
        BY <4>1, <4>2, <4>4, <4>5
      <4>7. CASE j <= m
        <5>1. j \in 1 .. m
          BY <4>1, <4>7
        <5>2. u[j] = s[j]
          BY <4>2, <4>7
        <5>3. Rail!Above(s, a, b)
          BY <4>1, <4>4, <4>5, <4>6, <5>1, <5>2 DEF Rail!Above
        <5>. QED
          BY <2>1, <2>2, <5>3 DEF IsFresh
      <4>8. CASE ~(j <= m)
        <5>1. j - m = 1
          BY <4>1, <4>8
        <5>2. b = x
          BY <4>1, <4>2, <4>4, <4>8, <5>1
        <5>3. a \in Rail!ToSet(g)
          BY <2>2, <4>4, <4>6 DEF IsFresh
        <5>. QED
          BY <2>1, <5>2, <5>3
      <4>. QED
        BY <4>7, <4>8
    <3>4. IsFresh(u, e, K)
      BY <2>1, <2>2, <2>4, <3>2, <3>3 DEF IsFresh
    <3>. QED
      BY <1>4, <3>4
  <2>. QED
    BY <2>3, <2>4
<1>. QED
  BY <1>6, <1>7

\* The rows of some sessions, in any order.
LEMMA SeqsOfRows ==
    ASSUME NEW S \in SUBSET Row, Rail!Cardinality(S) \in Nat, NEW t \in Rail!SetToSeqs(S)
    PROVE  t \in Rows /\ Rail!ToSet(t) \subseteq S
<1>. DEFINE c == Rail!Cardinality(S)
<1>1. c \in Nat /\ t \in [1 .. c -> S] /\ \A i, j \in 1 .. c : t[i] = t[j] => i = j
  BY DEF Rail!SetToSeqs
<1>. HIDE DEF c
<1>2. t \in [1 .. c -> Row]
  BY <1>1
<1>3. t \in Seq(Row)
  BY <1>1, <1>2, SeqDef
<1>4. Len(t) = c
  BY <1>1, <1>3, LenProperties
<1>. QED
  BY <1>1, <1>3, <1>4 DEF Rows, Rail!ToSet

\* Fresh gives rows, none of which is known.
LEMMA FreshAre ==
    ASSUME NEW found \in Rows, NEW known \in Rows
    PROVE  /\ Rail!Fresh(found, known) \in Rows
           /\ Rail!ToSet(Rail!Fresh(found, known)) \cap Rail!ToSet(known) = {}
<1>. DEFINE new == Rail!ToSet(found) \ Rail!ToSet(known)
            c   == Rail!Cardinality(new)
<1>1. PICK s : IsFresh(s, found, Rail!ToSet(known))
  BY FreshExists
<1>2. /\ s \in Rows /\ Rail!ToSet(s) = new /\ Len(s) \in Nat /\ s \in Seq(Row)
      /\ \A i, j \in 1 .. Len(s) : s[i] = s[j] => i = j
      /\ DOMAIN s = 1 .. Len(s) /\ new = {s[i] : i \in 1 .. Len(s)}
      /\ \A a, b : Rail!Above(s, a, b) => Rail!Above(found, a, b)
  BY <1>1, RowsAre DEF IsFresh
<1>3. new \subseteq Row
  BY RowsAre
<1>4. c = Len(s)
  <2>. DEFINE n == Len(s)
  <2>1. IsFiniteSet(1 .. n) /\ Cardinality(1 .. n) = n
    <3>1. 1 \in Int /\ n \in Int /\ (1 > n => n = 0) /\ (~(1 > n) => n - 1 + 1 = n)
      BY <1>2
    <3>. HIDE DEF n
    <3>2. IsFiniteSet(1 .. n) /\ Cardinality(1 .. n) = IF 1 > n THEN 0 ELSE n - 1 + 1
      BY <3>1, FS_Interval
    <3>. QED
      BY <3>1, <3>2
  <2>2. s \in [1 .. n -> new]
    BY <1>2, LenProperties
  <2>. HIDE DEF new
  <2>3. s \in Bijection(1 .. n, new)
    BY <1>2, <2>2 DEF Bijection, Injection, Surjection, IsInjective
  <2>4. Cardinality(new) = n
    BY <2>1, <2>3, FS_Bijection DEF ExistsBijection
  <2>5. Rail!Cardinality(new) = Cardinality(new)
    BY Zenon DEF Rail!Cardinality, Cardinality
  <2>. QED
    BY <2>4, <2>5
<1>8. s \in [1 .. Len(s) -> new]
  BY <1>2, LenProperties
<1>5. s \in Rail!SetToSeqs(new)
  <2>. HIDE DEF new, c
  <2>1. s \in [1 .. c -> new]
    BY <1>4, <1>8
  <2>2. \A i, j \in 1 .. c : i # j => s[i] # s[j]
    BY <1>2, <1>4
  <2>. QED
    BY <2>1, <2>2 DEF Rail!SetToSeqs, c
<1>6. Rail!Fresh(found, known) \in Rail!SetToSeqs(new)
  <2>. DEFINE ok(t) == \A a, b \in new : Rail!Above(t, a, b) => Rail!Above(found, a, b)
  <2>1. Rail!Fresh(found, known) = CHOOSE t \in Rail!SetToSeqs(new) : ok(t)
    BY DEF Rail!Fresh
  <2>2. ok(s)
    BY <1>2
  <2>. HIDE DEF new, ok
  <2>. QED
    BY <1>5, <2>1, <2>2
<1>7. \A t \in Rail!SetToSeqs(new) : t \in Rows /\ Rail!ToSet(t) \subseteq new
  BY <1>2, <1>3, <1>4, SeqsOfRows
<1>. QED
  BY <1>6, <1>7

LEMMA Chained ==
    ASSUME NEW l \in Seq(Row), NEW r \in Seq(Row), NEW a, NEW b, Len(l) = a, Len(r) = b
    PROVE  /\ l \o r \in Seq(Row) /\ Len(l \o r) = a + b
           /\ \A k \in 1 .. a + b : (l \o r)[k] = IF k <= a THEN l[k] ELSE r[k - a]
BY ConcatProperties

\* A row taken out of its place.
LEMMA TakenOut ==
    ASSUME NEW s \in Rows, NEW i \in 1 .. Len(s)
    PROVE  /\ Rail!RemoveAt(s, i) \in Seq(Row)
           /\ Len(Rail!RemoveAt(s, i)) = Len(s) - 1
           /\ \A k \in 1 .. Len(s) - 1 :
                 Rail!RemoveAt(s, i)[k] = IF k < i THEN s[k] ELSE s[k + 1]
<1>. DEFINE n == Len(s)
            l == SubSeq(s, 1, i - 1)
            r == SubSeq(s, i + 1, n)
            t == Rail!RemoveAt(s, i)
<1>1. n \in Nat /\ i \in 1 .. n /\ \A k \in 1 .. n : s[k] \in Row
  BY RowsAre
<1>. HIDE DEF n
<1>2. /\ {1, i - 1, i + 1, n} \subseteq Int
      /\ \A k \in 1 .. i - 1 : k \in 1 .. n
      /\ \A k \in i + 1 .. n : k \in 1 .. n
      /\ (IF 1 <= i - 1 THEN i - 1 - 1 + 1 ELSE 0) = i - 1 /\ i - 1 - 1 + 1 = i - 1
      /\ (IF i + 1 <= n THEN n - (i + 1) + 1 ELSE 0) = n - i /\ n - (i + 1) + 1 = n - i
      /\ \A k \in 1 .. i - 1 : 1 + k - 1 = k
      /\ \A k \in 1 .. n - i : i + 1 + k - 1 = i + k
  BY <1>1
<1>3. /\ l \in Seq(Row) /\ Len(l) = i - 1 /\ \A k \in 1 .. i - 1 : l[k] = s[k]
  BY <1>1, <1>2, SubSeqProperties
<1>4. /\ r \in Seq(Row) /\ Len(r) = n - i /\ \A k \in 1 .. n - i : r[k] = s[i + k]
  BY <1>1, <1>2, SubSeqProperties
<1>5. t = l \o r
  BY DEF Rail!RemoveAt, n
<1>. HIDE DEF l, r, t
<1>6. /\ t \in Seq(Row) /\ Len(t) = (i - 1) + (n - i)
      /\ \A k \in 1 .. (i - 1) + (n - i) : t[k] = IF k <= i - 1 THEN l[k] ELSE r[k - (i - 1)]
  <2>. DEFINE a == i - 1
              b == n - i
  <2>1. Len(l) = a /\ Len(r) = b
    BY <1>3, <1>4
  <2>. HIDE DEF a, b
  <2>2. l \in Seq(Row) /\ r \in Seq(Row)
    BY <1>3, <1>4
  <2>3. /\ l \o r \in Seq(Row) /\ Len(l \o r) = a + b
        /\ \A k \in 1 .. a + b : (l \o r)[k] = IF k <= a THEN l[k] ELSE r[k - a]
    BY <2>1, <2>2, Chained
  <2>. QED
    BY <1>5, <2>3 DEF a, b
<1>7. (i - 1) + (n - i) = n - 1
  BY <1>1
<1>8. ASSUME NEW k \in 1 .. n - 1 PROVE t[k] = IF k < i THEN s[k] ELSE s[k + 1]
  <2>1. CASE k < i
    <3>1. k <= i - 1 /\ k \in 1 .. i - 1
      BY <1>1, <2>1
    <3>. QED
      BY <1>3, <1>6, <1>7, <2>1, <3>1
  <2>2. CASE ~(k < i)
    <3>1. ~(k <= i - 1) /\ k - (i - 1) \in 1 .. n - i /\ i + (k - (i - 1)) = k + 1
      BY <1>1, <2>2
    <3>2. t[k] = r[k - (i - 1)]
      BY <1>6, <1>7, <3>1
    <3>3. r[k - (i - 1)] = s[i + (k - (i - 1))]
      BY <1>4, <3>1
    <3>. QED
      BY <2>2, <3>1, <3>2, <3>3
  <2>. QED
    BY <2>1, <2>2
<1>. QED
  BY <1>6, <1>7, <1>8 DEF n, t

\* A row put in a place.
LEMMA PutIn ==
    ASSUME NEW s \in Seq(Row), NEW i \in 1 .. Len(s) + 1, NEW x \in Row
    PROVE  /\ Rail!InsertAt(s, i, x) \in Seq(Row)
           /\ Len(Rail!InsertAt(s, i, x)) = Len(s) + 1
           /\ \A k \in 1 .. Len(s) + 1 :
                 Rail!InsertAt(s, i, x)[k] =
                    IF k < i THEN s[k] ELSE IF k = i THEN x ELSE s[k - 1]
<1>. DEFINE n == Len(s)
            l == SubSeq(s, 1, i - 1)
            r == SubSeq(s, i, n)
            m == l \o <<x>>
            t == Rail!InsertAt(s, i, x)
<1>1. n \in Nat /\ i \in 1 .. n + 1 /\ \A k \in 1 .. n : s[k] \in Row
  BY LenProperties
<1>. HIDE DEF n
<1>2. /\ {1, i - 1, i, n} \subseteq Int
      /\ \A k \in 1 .. i - 1 : k \in 1 .. n
      /\ \A k \in i .. n : k \in 1 .. n
      /\ (IF 1 <= i - 1 THEN i - 1 - 1 + 1 ELSE 0) = i - 1 /\ i - 1 - 1 + 1 = i - 1
      /\ (IF i <= n THEN n - i + 1 ELSE 0) = n - i + 1
      /\ \A k \in 1 .. i - 1 : 1 + k - 1 = k
  BY <1>1
<1>3. /\ l \in Seq(Row) /\ Len(l) = i - 1 /\ \A k \in 1 .. i - 1 : l[k] = s[k]
  BY <1>1, <1>2, SubSeqProperties
<1>4. /\ r \in Seq(Row) /\ Len(r) = n - i + 1 /\ \A k \in 1 .. n - i + 1 : r[k] = s[i + k - 1]
  BY <1>1, <1>2, SubSeqProperties
<1>5. t = m \o r
  BY DEF Rail!InsertAt, n
<1>6. <<x>> \in Seq(Row) /\ Len(<<x>>) = 1 /\ <<x>>[1] = x
  OBVIOUS
<1>. HIDE DEF l, r, t
<1>7. /\ m \in Seq(Row) /\ Len(m) = (i - 1) + 1
      /\ \A k \in 1 .. (i - 1) + 1 : m[k] = IF k <= i - 1 THEN l[k] ELSE <<x>>[k - (i - 1)]
  BY <1>3, <1>6, Chained
<1>. HIDE DEF m
<1>8. Len(m) = i /\ (i - 1) + 1 = i
  BY <1>1, <1>7
<1>9. /\ t \in Seq(Row) /\ Len(t) = i + (n - i + 1)
      /\ \A k \in 1 .. i + (n - i + 1) : t[k] = IF k <= i THEN m[k] ELSE r[k - i]
  <2>. DEFINE b == n - i + 1
  <2>1. Len(r) = b
    BY <1>4
  <2>. HIDE DEF b
  <2>2. /\ m \o r \in Seq(Row) /\ Len(m \o r) = i + b
        /\ \A k \in 1 .. i + b : (m \o r)[k] = IF k <= i THEN m[k] ELSE r[k - i]
    <3>1. m \in Seq(Row) /\ Len(m) = i /\ r \in Seq(Row)
      BY <1>4, <1>7, <1>8
    <3>. QED
      BY <2>1, <3>1, Chained
  <2>. QED
    BY <1>5, <2>2 DEF b
<1>10. i + (n - i + 1) = n + 1
  BY <1>1
<1>11. ASSUME NEW k \in 1 .. n + 1
       PROVE  t[k] = IF k < i THEN s[k] ELSE IF k = i THEN x ELSE s[k - 1]
  <2>1. CASE k < i
    <3>1. k <= i - 1 /\ k \in 1 .. i - 1 /\ k <= i /\ k \in 1 .. i
      BY <1>1, <2>1
    <3>. QED
      BY <1>3, <1>7, <1>8, <1>9, <1>10, <2>1, <3>1
  <2>2. CASE k = i
    <3>1. ~(k <= i - 1) /\ k <= i /\ k \in 1 .. i /\ k - (i - 1) = 1 /\ ~(k < i)
      BY <1>1, <2>2
    <3>. QED
      BY <1>6, <1>7, <1>8, <1>9, <1>10, <2>2, <3>1
  <2>3. CASE k > i
    <3>1. /\ ~(k <= i) /\ k - i \in 1 .. n - i + 1 /\ i + (k - i) - 1 = k - 1
          /\ ~(k < i) /\ k # i
      BY <1>1, <2>3
    <3>2. t[k] = r[k - i] /\ r[k - i] = s[i + (k - i) - 1]
      BY <1>4, <1>9, <1>10, <3>1
    <3>. QED
      BY <3>1, <3>2
  <2>4. k < i \/ k = i \/ k > i
    BY <1>1
  <2>. QED
    BY <2>1, <2>2, <2>3, <2>4
<1>. QED
  BY <1>9, <1>10, <1>11 DEF n, t

\* A session that is gone takes nothing with it.
LEMMA WithoutOne ==
    ASSUME NEW s \in Rows, NEW x \in Rail!ToSet(s)
    PROVE  Rail!Without(s, x) \in Rows /\ Rail!ToSet(Rail!Without(s, x)) = Rail!ToSet(s) \ {x}
<1>. DEFINE n == Len(s)
            t == Rail!Without(s, x)
<1>1. /\ n \in Nat /\ DOMAIN s = 1 .. n /\ Rail!ToSet(s) = {s[k] : k \in 1 .. n}
      /\ \A j, k \in 1 .. n : s[j] = s[k] => j = k
  BY RowsAre
<1>2. PICK i \in 1 .. n : s[i] = x /\ t = Rail!RemoveAt(s, i)
  BY <1>1 DEF Rail!Without
<1>3. /\ t \in Seq(Row) /\ Len(t) = n - 1
      /\ \A k \in 1 .. n - 1 : t[k] = IF k < i THEN s[k] ELSE s[k + 1]
  BY <1>2, TakenOut
<1>. HIDE DEF n, t
<1>4. \A k \in 1 .. n - 1 : k \in 1 .. n /\ k + 1 \in 1 .. n /\ (k < i => k # i)
                            /\ (~(k < i) => k + 1 # i)
  BY <1>1
<1>5. ASSUME NEW j \in 1 .. n - 1, NEW k \in 1 .. n - 1, t[j] = t[k] PROVE j = k
  <2>1. (IF j < i THEN j ELSE j + 1) = (IF k < i THEN k ELSE k + 1)
    BY <1>1, <1>3, <1>4, <1>5
  <2>. QED
    BY <1>1, <2>1
<1>6. t \in Rows
  BY <1>3, <1>5 DEF Rows
<1>7. Rail!ToSet(t) = {t[k] : k \in 1 .. n - 1}
  BY <1>3, <1>6, RowsAre
<1>8. \A k \in 1 .. n - 1 : t[k] \in Rail!ToSet(s) \ {x}
  BY <1>1, <1>2, <1>3, <1>4
<1>9. ASSUME NEW k \in 1 .. n, k # i PROVE s[k] \in Rail!ToSet(t)
  <2>1. CASE k < i
    <3>1. k \in 1 .. n - 1
      BY <1>1, <2>1
    <3>. QED
      BY <1>3, <1>7, <2>1, <3>1
  <2>2. CASE ~(k < i)
    <3>1. k - 1 \in 1 .. n - 1 /\ ~(k - 1 < i) /\ (k - 1) + 1 = k
      BY <1>1, <1>9, <2>2
    <3>. QED
      BY <1>3, <1>7, <3>1
  <2>. QED
    BY <2>1, <2>2
<1>. QED
  BY <1>1, <1>2, <1>6, <1>7, <1>8, <1>9 DEF t

\* Where row i is once the row at from has gone to to.
PlaceAfter(i, from, to) ==
    IF i = from THEN to
    ELSE LET q == IF i < from THEN i ELSE i - 1
         IN IF q < to THEN q ELSE q + 1

\* And whose row it is that is then at k.
PlaceBefore(k, from, to) ==
    IF k = to THEN from
    ELSE LET q == IF k < to THEN k ELSE k - 1
         IN IF q < from THEN q ELSE q + 1

LEMMA PlacesAreKept ==
    ASSUME NEW n \in Nat, NEW from \in 1 .. n, NEW to \in 1 .. n
    PROVE  /\ \A i \in 1 .. n : /\ PlaceAfter(i, from, to) \in 1 .. n
                                /\ PlaceBefore(i, from, to) \in 1 .. n
                                /\ PlaceBefore(PlaceAfter(i, from, to), from, to) = i
                                /\ PlaceAfter(PlaceBefore(i, from, to), from, to) = i
           /\ \A i, j \in 1 .. n : i < j /\ i # from /\ j # from =>
                 PlaceAfter(i, from, to) < PlaceAfter(j, from, to)
BY DEF PlaceAfter, PlaceBefore

\* The row dragged goes where the other one was, and the rest keep their order.
LEMMA MovedRows ==
    ASSUME NEW s \in Rows, NEW from \in 1 .. Len(s), NEW to \in 1 .. Len(s)
    PROVE  /\ Rail!Moved(s, from, to) \in Rows
           /\ Rail!ToSet(Rail!Moved(s, from, to)) = Rail!ToSet(s)
           /\ \A a, b \in Rail!ToSet(s) \ {s[from]} :
                 Rail!Above(s, a, b) => Rail!Above(Rail!Moved(s, from, to), a, b)
<1>. DEFINE n == Len(s)
            t == Rail!RemoveAt(s, from)
            u == Rail!Moved(s, from, to)
            before(k) == PlaceBefore(k, from, to)
            after(k) == PlaceAfter(k, from, to)
<1>1. /\ n \in Nat /\ DOMAIN s = 1 .. n /\ Rail!ToSet(s) = {s[k] : k \in 1 .. n}
      /\ from \in 1 .. n /\ to \in 1 .. n /\ \A k \in 1 .. n : s[k] \in Row
      /\ \A j, k \in 1 .. n : s[j] = s[k] => j = k
  BY RowsAre
<1>2. /\ t \in Seq(Row) /\ Len(t) = n - 1
      /\ \A k \in 1 .. n - 1 : t[k] = IF k < from THEN s[k] ELSE s[k + 1]
  BY TakenOut
<1>3. u = Rail!InsertAt(t, to, s[from])
  BY DEF Rail!Moved
<1>. HIDE DEF n, t, u
<1>4. n - 1 + 1 = n
  BY <1>1
<1>5. /\ u \in Seq(Row) /\ Len(u) = n
      /\ \A k \in 1 .. n : u[k] = IF k < to THEN t[k] ELSE IF k = to THEN s[from] ELSE t[k - 1]
  <2>1. to \in 1 .. Len(t) + 1 /\ Len(t) + 1 = n /\ s[from] \in Row
    BY <1>1, <1>2, <1>4
  <2>. DEFINE v == Rail!InsertAt(t, to, s[from])
  <2>2. /\ v \in Seq(Row) /\ Len(v) = Len(t) + 1
        /\ \A k \in 1 .. Len(t) + 1 :
              v[k] = IF k < to THEN t[k] ELSE IF k = to THEN s[from] ELSE t[k - 1]
    BY <1>2, <2>1, PutIn
  <2>. HIDE DEF v
  <2>3. u = v
    BY <1>3 DEF v
  <2>. QED
    BY <2>1, <2>2, <2>3
<1>6. ASSUME NEW k \in 1 .. n PROVE u[k] = s[before(k)]
  <2>1. CASE k < to
    <3>1. k \in 1 .. n - 1 /\ k # to
      BY <1>1, <2>1
    <3>. QED
      BY <1>2, <1>5, <2>1, <3>1 DEF PlaceBefore
  <2>2. CASE k = to
    BY <1>1, <1>5, <2>2 DEF PlaceBefore
  <2>3. CASE k > to
    <3>1. k - 1 \in 1 .. n - 1 /\ k # to /\ ~(k < to)
      BY <1>1, <2>3
    <3>. QED
      BY <1>2, <1>5, <3>1 DEF PlaceBefore
  <2>4. k < to \/ k = to \/ k > to
    BY <1>1
  <2>. QED
    BY <2>1, <2>2, <2>3, <2>4
<1>7. /\ \A k \in 1 .. n : /\ after(k) \in 1 .. n /\ before(k) \in 1 .. n
                           /\ before(after(k)) = k /\ after(before(k)) = k
      /\ \A j, k \in 1 .. n : j < k /\ j # from /\ k # from => after(j) < after(k)
  BY <1>1, PlacesAreKept
<1>. HIDE DEF before, after
<1>8. ASSUME NEW j \in 1 .. n, NEW k \in 1 .. n, u[j] = u[k] PROVE j = k
  <2>1. before(j) = before(k)
    BY <1>1, <1>6, <1>7, <1>8
  <2>. QED
    BY <1>7, <2>1
<1>9. u \in Rows
  BY <1>5, <1>8 DEF Rows
<1>10. Rail!ToSet(u) = {u[k] : k \in 1 .. n} /\ DOMAIN u = 1 .. n
  BY <1>5, <1>9, RowsAre
<1>11. \A k \in 1 .. n : u[after(k)] = s[k]
  BY <1>6, <1>7
<1>12. Rail!ToSet(u) = Rail!ToSet(s)
  <2>1. \A k \in 1 .. n : u[k] \in Rail!ToSet(s)
    <3>. TAKE k \in 1 .. n
    <3>1. PICK j \in 1 .. n : u[k] = s[j]
      BY <1>6, <1>7
    <3>2. s[j] \in {s[i] : i \in 1 .. n}
      OBVIOUS
    <3>. QED
      BY <1>1, <3>1, <3>2
  <2>2. \A k \in 1 .. n : s[k] \in Rail!ToSet(u)
    <3>. TAKE k \in 1 .. n
    <3>1. PICK j \in 1 .. n : u[j] = s[k]
      BY <1>7, <1>11
    <3>2. u[j] \in {u[i] : i \in 1 .. n}
      OBVIOUS
    <3>. QED
      BY <1>10, <3>1, <3>2
  <2>3. Rail!ToSet(u) \subseteq Rail!ToSet(s)
    <3>1. \A x \in {u[k] : k \in 1 .. n} : \E k \in 1 .. n : x = u[k]
      OBVIOUS
    <3>. QED
      BY <1>10, <2>1, <3>1
  <2>4. Rail!ToSet(s) \subseteq Rail!ToSet(u)
    <3>1. \A x \in {s[k] : k \in 1 .. n} : \E k \in 1 .. n : x = s[k]
      OBVIOUS
    <3>. QED
      BY <1>1, <2>2, <3>1
  <2>. QED
    BY <2>3, <2>4
<1>13. ASSUME NEW a \in Rail!ToSet(s) \ {s[from]}, NEW b \in Rail!ToSet(s) \ {s[from]},
              Rail!Above(s, a, b)
       PROVE  Rail!Above(u, a, b)
  <2>1. PICK i, j \in 1 .. n : i < j /\ s[i] = a /\ s[j] = b
    BY <1>1, <1>13 DEF Rail!Above
  <2>2. after(i) < after(j) /\ after(i) \in 1 .. n /\ after(j) \in 1 .. n
    BY <1>7, <2>1
  <2>3. u[after(i)] = a /\ u[after(j)] = b
    BY <1>11, <2>1
  <2>. QED
    BY <1>10, <2>2, <2>3 DEF Rail!Above
<1>. QED
  BY <1>9, <1>12, <1>13 DEF u

LEMMA RailInitially ==
    ASSUME Rail!RailAssumption, Rail!RailInit PROVE RailInv
<1>1. Rail!Cardinality(Row) \in Nat
  <2>1. Rail!IsFiniteSet(Row) <=> IsFiniteSet(Row)
    BY Zenon DEF Rail!IsFiniteSet, IsFiniteSet
  <2>2. Rail!Cardinality(Row) = Cardinality(Row)
    BY Zenon DEF Rail!Cardinality, Cardinality
  <2>. QED
    BY <2>1, <2>2, FS_CardinalityType DEF Rail!RailAssumption
<1>2. \A t \in Rail!SetToSeqs(Row) : t \in Rows
  BY <1>1, SeqsOfRows
<1>3. recent \in Rows /\ rail \in Rows /\ rows \in Rows
  BY <1>2, NoRows DEF Rail!RailInit, Rail!NoScan
<1>4. MaxDocs \in Nat /\ MaxOpens \in Nat /\ MaxDiskMoves \in Nat
  BY DEF Rail!RailAssumption
<1>5. /\ written \in [Row -> Nat] /\ marks \in [Row -> Nat]
      /\ \A s \in Row : written[s] = 0 /\ marks[s] = 0
  BY DEF Rail!RailInit
<1>6. railSpent \in SpentSet /\ railSpent.docs = 0
  BY <1>4 DEF Rail!RailInit, SpentSet
<1>. QED
  BY <1>3, <1>5, <1>6 DEF RailInv, Rail!RailInit

\* What a step spends, and that it spends no documents but to write one.
LEMMA Spending ==
    ASSUME Rail!RailAssumption, RailInv, NEW w \in {"docs", "opens", "moves"}, NEW m \in Nat,
           m = [docs |-> MaxDocs, opens |-> MaxOpens, moves |-> MaxDiskMoves][w],
           Rail!Spends(w, m)
    PROVE  /\ railSpent' \in SpentSet
           /\ railSpent'.docs = IF w = "docs" THEN railSpent.docs + 1 ELSE railSpent.docs
           /\ railSpent.docs \in Nat
<1>1. railSpent \in SpentSet /\ MaxDocs \in Nat /\ MaxOpens \in Nat /\ MaxDiskMoves \in Nat
  BY DEF RailInv, Rail!RailAssumption
<1>2. railSpent[w] < m /\ railSpent' = [railSpent EXCEPT ![w] = railSpent[w] + 1]
  BY DEF Rail!Spends
<1>3. CASE w = "docs"
  BY <1>1, <1>2, <1>3 DEF SpentSet
<1>4. CASE w = "opens"
  BY <1>1, <1>2, <1>4 DEF SpentSet
<1>5. CASE w = "moves"
  BY <1>1, <1>2, <1>5 DEF SpentSet
<1>. QED
  BY <1>3, <1>4, <1>5

\* What becomes of the rail: it takes in what is new, or lets one row be dragged.
LEMMA RailMoves ==
    ASSUME RailInv, Rail!RailNext
    PROVE  rail' = rail \/ Rail!RailOrder
           \/ \E from, to \in 1 .. Rail!Cardinality(Row) : Rail!Reorder(from, to)
BY DEF Rail!RailNext, Rail!Appears, Rail!Disappears, Rail!Writes, Rail!Reveal,
       Rail!MarkOpened, Rail!Nudge, Rail!TakeNudge, Rail!CountAll, Rail!Scan

\* The order the rail takes: what is new, then what it knew.
LEMMA NewRows ==
    ASSUME RailInv, Rail!RailOrder
    PROVE  /\ rail' \in Rows /\ Rail!ToSet(rail) \subseteq Rail!ToSet(rail')
           /\ \A a, b : Rail!Above(rail, a, b) => Rail!Above(rail', a, b)
<1>. DEFINE f == Rail!Fresh(rows, rail)
<1>1. rail \in Rows /\ rows \in Rows
  BY DEF RailInv
<1>2. f \in Rows /\ Rail!ToSet(f) \cap Rail!ToSet(rail) = {}
  BY <1>1, FreshAre
<1>3. rail' = f \o rail
  BY DEF Rail!RailOrder, Rail!Ordered
<1>. HIDE DEF f
<1>. QED
  BY <1>1, <1>2, <1>3, Joined

LEMMA RailStep ==
    ASSUME Rail!RailAssumption, RailInv, [Rail!RailNext]_(Rail!railVars) PROVE RailInv'
<1>. USE DEF RailInv
<1>0. /\ MaxDocs \in Nat /\ MaxOpens \in Nat /\ MaxDiskMoves \in Nat
      /\ railSpent \in SpentSet /\ railSpent.docs \in Nat
  BY DEF Rail!RailAssumption, SpentSet
<1>a. CASE UNCHANGED Rail!railVars
  BY <1>a DEF Rail!railVars
<1>1. ASSUME NEW s \in Row, Rail!Appears(s) PROVE RailInv'
  <2>1. recent \in Rows /\ s \notin Rail!ToSet(recent)
    BY <1>1 DEF Rail!Appears
  <2>2. <<s>> \in Rows /\ Rail!ToSet(<<s>>) = {s}
    BY OneRow
  <2>3. Append(recent, s) = recent \o <<s>>
    BY <2>1, RowsAre, AppendIsConcat
  <2>4. \A r \in {<<s>> \o recent, Append(recent, s)} :
           r \in Rows /\ Rail!ToSet(recent) \subseteq Rail!ToSet(r)
    <3>. DEFINE one == <<s>>
    <3>1. one \in Rows /\ Rail!ToSet(one) = {s} /\ Append(recent, s) = recent \o one
      BY <2>2, <2>3
    <3>. HIDE DEF one
    <3>2. one \o recent \in Rows /\ Rail!ToSet(one \o recent) = {s} \cup Rail!ToSet(recent)
      BY <2>1, <3>1, Joined
    <3>3. recent \o one \in Rows /\ Rail!ToSet(recent \o one) = Rail!ToSet(recent) \cup {s}
      BY <2>1, <3>1, Joined
    <3>. QED
      BY <3>1, <3>2, <3>3 DEF one
  <2>5. recent' \in Rows /\ Rail!ToSet(recent) \subseteq Rail!ToSet(recent')
    BY <1>1, <2>4 DEF Rail!Appears
  <2>6. railSpent' \in SpentSet /\ railSpent'.docs = railSpent.docs
    BY <1>0, <1>1, Spending DEF Rail!Appears
  <2>. QED
    BY <1>1, <2>5, <2>6 DEF Rail!Appears
<1>2. ASSUME NEW s \in Row, Rail!Disappears(s) PROVE RailInv'
  <2>1. recent' \in Rows /\ Rail!ToSet(recent') = Rail!ToSet(recent) \ {s}
    BY <1>2, WithoutOne DEF Rail!Disappears
  <2>2. railSpent' \in SpentSet /\ railSpent'.docs = railSpent.docs
    BY <1>0, <1>2, Spending DEF Rail!Disappears
  <2>3. written' \in [Row -> Nat] /\ \A r \in Row : written'[r] <= railSpent.docs
    BY <1>0, <1>2 DEF Rail!Disappears
  <2>4. onScreen' \subseteq Rail!ToSet(recent')
    BY <1>2, <2>1 DEF Rail!Disappears
  <2>. QED
    BY <1>2, <2>1, <2>2, <2>3, <2>4 DEF Rail!Disappears
<1>3. ASSUME NEW s \in Row, Rail!Writes(s) PROVE RailInv'
  <2>1. railSpent' \in SpentSet /\ railSpent'.docs = railSpent.docs + 1
    BY <1>0, <1>3, Spending DEF Rail!Writes
  <2>2. written' \in [Row -> Nat] /\ \A r \in Row : written'[r] <= railSpent.docs + 1
    BY <1>0, <1>3 DEF Rail!Writes
  <2>3. \A r \in Row : marks[r] <= railSpent.docs + 1
    BY <1>0
  <2>. QED
    BY <1>3, <2>1, <2>2, <2>3 DEF Rail!Writes
<1>4. ASSUME NEW s \in Row, Rail!Reveal(s) PROVE RailInv'
  <2>1. railSpent' \in SpentSet /\ railSpent'.docs = railSpent.docs
    BY <1>0, <1>4, Spending DEF Rail!Reveal
  <2>. QED
    BY <1>4, <2>1 DEF Rail!Reveal
<1>5. CASE Rail!MarkOpened
  <2>1. PICK s \in onScreen : /\ written' = [written EXCEPT ![s] = 0]
                              /\ recent' = <<s>> \o Rail!Without(recent, s)
    BY <1>5 DEF Rail!MarkOpened
  <2>. DEFINE w == Rail!Without(recent, s)
  <2>2. recent \in Rows /\ s \in Rail!ToSet(recent)
    BY <2>1
  <2>3. s \in Row /\ w \in Rows /\ Rail!ToSet(w) = Rail!ToSet(recent) \ {s}
    BY <2>2, RowsAre, WithoutOne
  <2>4. <<s>> \in Rows /\ Rail!ToSet(<<s>>) = {s}
    BY <2>3, OneRow
  <2>. HIDE DEF w
  <2>5. recent' \in Rows /\ Rail!ToSet(recent') = {s} \cup Rail!ToSet(w)
    <3>1. recent' = <<s>> \o w
      BY <2>1 DEF w
    <3>. QED
      BY <2>3, <2>4, <3>1, Joined
  <2>6. Rail!ToSet(recent') = Rail!ToSet(recent)
    BY <2>2, <2>3, <2>5
  <2>7. written' \in [Row -> Nat] /\ \A r \in Row : written'[r] <= railSpent.docs
    <3>. DEFINE wr == [written EXCEPT ![s] = 0]
                d == railSpent.docs
    <3>1. /\ wr \in [Row -> Nat]
          /\ \A r \in Row : wr[r] = IF r = s THEN 0 ELSE written[r]
      BY <2>3
    <3>2. d \in Nat /\ \A r \in Row : written[r] <= d
      BY <1>0
    <3>3. written' = wr
      BY <2>1
    <3>. HIDE DEF wr, d
    <3>4. \A r \in Row : wr[r] <= d
      BY <3>1, <3>2
    <3>. QED
      BY <3>1, <3>3, <3>4 DEF d
  <2>. QED
    BY <1>5, <2>5, <2>6, <2>7 DEF Rail!MarkOpened
<1>6. CASE Rail!Nudge
  BY <1>6 DEF Rail!Nudge
<1>7. CASE Rail!TakeNudge
  <2>1. marks' \in [Row -> Nat] /\ \A s \in Row : marks'[s] <= railSpent.docs
    BY <1>7 DEF Rail!TakeNudge
  <2>. QED
    BY <1>7, <2>1 DEF Rail!TakeNudge
<1>8. CASE Rail!CountAll
  <2>1. marks' \in [Row -> Nat] /\ \A s \in Row : marks'[s] <= railSpent.docs
    BY <1>0, <1>8 DEF Rail!CountAll
  <2>. QED
    BY <1>8, <2>1 DEF Rail!CountAll
<1>9. CASE Rail!Scan
  BY <1>9 DEF Rail!Scan
<1>10. CASE Rail!RailOrder
  BY <1>10, NewRows, NoRows DEF Rail!RailOrder, Rail!NoScan
<1>11. ASSUME NEW from, NEW to, Rail!Reorder(from, to) PROVE RailInv'
  <2>1. rail \in Rows /\ from \in 1 .. Len(rail) /\ to \in 1 .. Len(rail)
    BY <1>11, RowsAre DEF Rail!Reorder
  <2>2. rail' \in Rows
    BY <1>11, <2>1, MovedRows DEF Rail!Reorder
  <2>. QED
    BY <1>11, <2>2 DEF Rail!Reorder
<1>. QED
  BY <1>a, <1>1, <1>2, <1>3, <1>4, <1>5, <1>6, <1>7, <1>8, <1>9, <1>10, <1>11
     DEF Rail!RailNext

LEMMA RailShows == ASSUME Rail!RailAssumption, RailInv PROVE Rail!RailTypeOK
<1>1. \A s \in Rows : Rail!IsInjective(s) /\ Rail!ToSet(s) \subseteq Row
  BY RowsAre DEF Rail!IsInjective
<1>2. MaxDocs \in Nat /\ railSpent.docs \in 0 .. MaxDocs
  BY DEF RailInv, SpentSet, Rail!RailAssumption
<1>3. marks \in [Row -> 0 .. MaxDocs]
  BY <1>2 DEF RailInv
<1>. QED
  BY <1>1, <1>3 DEF RailInv, Rail!RailTypeOK

\* Only the row that is dragged changes places.
LEMMA RailKeeps ==
    ASSUME Rail!RailAssumption, RailInv, [Rail!RailNext]_(Rail!railVars)
    PROVE  Rail!KeepsPlaces
<1>1. PICK any \in Row : TRUE
  BY DEF Rail!RailAssumption
<1>2. CASE rail' = rail
  BY <1>1, <1>2 DEF Rail!KeepsPlaces
<1>3. CASE Rail!RailOrder
  BY <1>1, <1>3, NewRows DEF Rail!KeepsPlaces
<1>4. ASSUME NEW from, NEW to, Rail!Reorder(from, to) PROVE Rail!KeepsPlaces
  <2>1. rail \in Rows /\ from \in 1 .. Len(rail) /\ to \in 1 .. Len(rail) /\ rail[from] \in Row
    BY <1>4, RowsAre DEF Rail!Reorder, RailInv
  <2>2. /\ Rail!ToSet(rail') = Rail!ToSet(rail)
        /\ \A a, b \in Rail!ToSet(rail) \ {rail[from]} :
              Rail!Above(rail, a, b) => Rail!Above(rail', a, b)
    BY <1>4, <2>1, MovedRows DEF Rail!Reorder
  <2>. QED
    BY <2>1, <2>2 DEF Rail!KeepsPlaces
<1>. QED
  BY <1>2, <1>3, <1>4, RailMoves DEF Rail!railVars

-----------------------------------------------------------------------------
(* The parts, side by side.                                                  *)

WindowInv ==
    /\ OwnInv
    /\ part = "documents" => DocInv
    /\ part = "rail" => RailInv
    /\ part = "diagrams" => DiagramsInv
    /\ part = "repositories" => RepoInv
    /\ part = "ollama" => OllamaInv

LEMMA PartsAre ==
    /\ Documents!SizeAssumption /\ Rail!RailAssumption
    /\ Repositories!RepositoriesAssumption /\ Diagrams!CacheLimitAssumption
BY PartsAssumption DEF PartsAssumption

LEMMA WindowInitially == WindowInit => WindowInv
<1>. SUFFICES ASSUME WindowInit PROVE WindowInv
  OBVIOUS
<1>1. OwnInv
  BY OwnInitially DEF WindowInit
<1>2. part = "documents" => DocInv
  BY PartsAre, DocumentsInit DEF WindowInit
<1>3. part = "rail" => RailInv
  BY PartsAre, RailInitially DEF WindowInit
<1>4. part = "diagrams" => DiagramsInv
  BY DiagramsInit DEF WindowInit
<1>5. part = "repositories" => RepoInv
  BY PartsAre, RepositoriesInit DEF WindowInit
<1>6. part = "ollama" => OllamaInv
  BY OllamaInit DEF WindowInit
<1>. QED
  BY <1>1, <1>2, <1>3, <1>4, <1>5, <1>6 DEF WindowInv

\* A step of the window is one of the part under check, or changes nothing.
LEMMA OnePartMoves ==
    ASSUME [WindowNext]_WindowVars
    PROVE  /\ part' = part /\ [ChromeNext]_chromeVars
           /\ part = "documents" => [Documents!Next]_(Documents!docVars)
           /\ part = "rail" => [Rail!RailNext]_(Rail!railVars)
           /\ part = "diagrams" => [Diagrams!Next]_(Diagrams!diagramVars)
           /\ part = "repositories" => [Repositories!RepoNext]_(Repositories!repoVars)
           /\ part = "ollama" => [Ollama!Next]_(Ollama!ollamaVars)
<1>1. CASE UNCHANGED WindowVars
  <2>1. /\ part' = part /\ UNCHANGED chromeVars
        /\ UNCHANGED Documents!docVars /\ UNCHANGED Rail!railVars
        /\ UNCHANGED Diagrams!diagramVars /\ UNCHANGED Repositories!repoVars
        /\ UNCHANGED Ollama!ollamaVars
    BY <1>1 DEF WindowVars, Documents!docVars, Rail!railVars, Diagrams!diagramVars,
                Repositories!repoVars, Ollama!ollamaVars
  <2>. QED
    BY <2>1
<1>2. CASE WindowNext
  BY <1>2 DEF WindowNext
<1>. QED
  BY <1>1, <1>2

LEMMA WindowInvStep == WindowInv /\ [WindowNext]_WindowVars => WindowInv'
<1>. SUFFICES ASSUME WindowInv, [WindowNext]_WindowVars PROVE WindowInv'
  OBVIOUS
<1>0. part' = part
  BY OnePartMoves
<1>1. OwnInv'
  BY OnePartMoves, ChromeStep DEF WindowInv
<1>2. part = "documents" => DocInv'
  BY PartsAre, OnePartMoves, DocumentsStep DEF WindowInv
<1>3. part = "rail" => RailInv'
  BY PartsAre, OnePartMoves, RailStep DEF WindowInv
<1>4. part = "diagrams" => DiagramsInv'
  BY PartsAre, OnePartMoves, DiagramsStep DEF WindowInv
<1>5. part = "repositories" => RepoInv'
  BY PartsAre, OnePartMoves, RepositoriesStep DEF WindowInv
<1>6. part = "ollama" => OllamaInv'
  BY OnePartMoves, OllamaStep DEF WindowInv
<1>. QED
  BY <1>0, <1>1, <1>2, <1>3, <1>4, <1>5, <1>6 DEF WindowInv

LEMMA WindowInvShows == WindowInv => WindowTypesOK /\ NumbersAreItsOwn /\ ProgressIsTold
<1>. SUFFICES ASSUME WindowInv PROVE WindowTypesOK /\ NumbersAreItsOwn /\ ProgressIsTold
  OBVIOUS
<1>1. ChromeTypeOK /\ NumbersAreItsOwn
  BY ChromeShows DEF WindowInv
<1>2. part = "documents" => Documents!DocTypeOK
  BY DocumentsShow DEF WindowInv
<1>3. part = "rail" => Rail!RailTypeOK
  BY PartsAre, RailShows DEF WindowInv
<1>4. part = "diagrams" => /\ Diagrams!DiagramsTypeOK /\ Diagrams!RulerIsAlone
                           /\ Diagrams!LateIsTheSources
  BY DiagramsShows DEF WindowInv
<1>5. part = "repositories" => Repositories!RepoTypeOK
  BY PartsAre, RepositoriesShow DEF WindowInv
<1>6. part = "ollama" => Ollama!OllamaTypeOK /\ Ollama!PullingIsInFlight
  BY OllamaShows DEF WindowInv
<1>. QED
  BY <1>1, <1>2, <1>3, <1>4, <1>5, <1>6 DEF WindowTypesOK, ProgressIsTold

LEMMA NothingMoves ==
    ASSUME WindowInv, [WindowNext]_WindowVars
    PROVE  /\ part = "documents" => Documents!LosesInTheWindow
           /\ part = "rail" => Rail!KeepsPlaces
<1>1. part = "documents" => Documents!LosesInTheWindow
  BY OnePartMoves, SaveLoses DEF WindowInv
<1>2. part = "rail" => Rail!KeepsPlaces
  BY PartsAre, OnePartMoves, RailKeeps DEF WindowInv
<1>. QED
  BY <1>1, <1>2

LEMMA WindowInvariant == Window => []WindowInv
  BY WindowInitially, WindowInvStep, PTL DEF Window

-----------------------------------------------------------------------------
(* What follows for the window.                                              *)

\* The variables of every part hold what the code's own types let them hold.
THEOREM WindowTyped == Window => []WindowTypesOK
  BY WindowInvariant, WindowInvShows, PTL

\* The numbers drawn around a session were found for that session: whatever was
\* measured, counted or fetched before another came on screen is not shown with it.
THEOREM WindowNumbersAreItsOwn == Window => []NumbersAreItsOwn
  BY WindowInvariant, WindowInvShows, PTL

\* A pull is drawn exactly while one is in flight, and a diagram counts as too slow after
\* its own budget alone, measured against a ruler nobody else draws with.
THEOREM WindowTellsProgress == Window => []ProgressIsTold
  BY WindowInvariant, WindowInvShows, PTL

\* A save replaces no write that came before its own read of the file, and no row of the
\* rail moves but one the user drags or one that is new.
THEOREM WindowMovesNothing == Window => NothingIsMoved
<1>1. WindowInv /\ [WindowNext]_WindowVars => [StaysInPlace]_WindowVars
  BY NothingMoves DEF StaysInPlace
<1>2. Window => [][WindowNext]_WindowVars
  BY PTL DEF Window
<1>3. Window => [][StaysInPlace]_WindowVars
  BY <1>1, <1>2, WindowInvariant, PTL
<1>. QED
  BY <1>3 DEF NothingIsMoved

-----------------------------------------------------------------------------
(* And of each component by itself, from its own specification. *)

\* As above, of the numbers around a session alone.
THEOREM DrawnForItsSession == ChromeSpec => []NumbersAreItsOwn
  BY OwnInitially, ChromeStep, ChromeShows, PTL DEF ChromeSpec

\* As above, of the rail alone.
THEOREM RailIsStill == Rail!RailSpec => Rail!RailKeepsItsPlaces
<1>1. RailInv /\ [Rail!RailNext]_(Rail!railVars) => [Rail!KeepsPlaces]_(Rail!railVars)
  BY PartsAre, RailKeeps
<1>2. Rail!RailInit => RailInv
  BY PartsAre, RailInitially
<1>3. RailInv /\ [Rail!RailNext]_(Rail!railVars) => RailInv'
  BY PartsAre, RailStep
<1>. QED
  BY <1>1, <1>2, <1>3, PTL DEF Rail!RailSpec, Rail!RailKeepsItsPlaces

\* As above, of pulls alone.
THEOREM PullsAreDrawn == Ollama!OllamaFairSpec => []Ollama!PullingIsInFlight
  BY OllamaInit, OllamaStep, OllamaShows, PTL DEF Ollama!OllamaFairSpec

\* As above, of diagrams alone.
THEOREM RulersAreAlone ==
    Diagrams!DiagramsFairSpec => []Diagrams!RulerIsAlone /\ []Diagrams!LateIsTheSources
<1>1. DiagramsInv /\ [Diagrams!Next]_(Diagrams!diagramVars) => DiagramsInv'
  BY PartsAre, DiagramsStep
<1>2. DiagramsInv => Diagrams!RulerIsAlone /\ Diagrams!LateIsTheSources
  BY DiagramsShows
<1>. QED
  BY <1>1, <1>2, DiagramsInit, PTL DEF Diagrams!DiagramsFairSpec
=============================================================================
