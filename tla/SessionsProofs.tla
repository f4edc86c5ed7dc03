--------------------------- MODULE SessionsProofs ---------------------------
(***************************************************************************)
(* One supervisor to a session, for every set of sessions and any number of *)
(* boots, in a workbench that is not started on a session (Startup = NoSlug): *)
(* every boot then happens under showMu.                                    *)
(*                                                                         *)
(* Two supervisors on a session would each be the process of a state, and a   *)
(* state with a process is the one registered under its slug.  That in turn   *)
(* rests on when a state loses its registration: only after stop() marked it, *)
(* or before the page has seen it, so that no start is on its way to it.     *)
(*                                                                         *)
(* The window needs more of the history: every registered session has been on *)
(* screen or is about to be, so forget() finds one to fall back on whenever   *)
(* one is left.                                                             *)
(***************************************************************************)
EXTENDS Sessions, SequenceTheorems, WellFoundedInduction, TLAPS

c == call["locked"]

Stopping == {"stop", "reap", "forget"}
Booting  == {"serve", "record", "drop"}

\* Who is registered, and on what.
RegistryInv ==
    /\ \A s \in Slug : slugs[s] # NoTerm => slugs[s] <= seq /\ slugOf[slugs[s]] = s
    /\ \A s \in Slug : slugs[s] # NoTerm => s \notin foreign
    /\ \A s \in foreign : pidfile[s] = Foreign

\* A process belongs to a registered state that nobody has stopped; a start on its
\* way, and the window, are on a state that is registered or stopped.
StateInv ==
    /\ \A t \in Term : life[t] # "none" => t <= seq /\ slugOf[t] \in Slug
    /\ \A t \in Term : Running(t) => t \in process
    /\ \A t \in process : t \notin stopped /\ slugOf[t] \in Slug /\ slugs[slugOf[t]] = t
    /\ \A t \in starts \cup {showing} :
          t # NoTerm => t <= seq /\ slugOf[t] \in Slug /\ (t \in stopped \/ slugs[slugOf[t]] = t)

\* What the operation under showMu may rely on.
CallInv ==
    /\ call["startup"] = Idle
    /\ c.op # "startup"
    /\ c.pc # "done" => c.slug \in Slug /\ c.root \in Slug
    /\ c.op = "cleanup" => c.slug \notin foreign
    /\ c.pc = "remove" => c.op = "cleanup"
    /\ c.pc \in Stopping => /\ c.op \in {"show", "reload", "unload", "cleanup", "retire"}
                            /\ c.root = c.slug
                            /\ c.term # NoTerm /\ slugs[c.root] = c.term
                            /\ c.fallback = NoTerm
    /\ c.pc \in {"reap", "forget"} => c.term \in stopped
    /\ c.pc = "root" => c.root = c.slug
    /\ c.pc \in {"root", "check", "add"} => slugs[c.root] = NoTerm
    /\ c.pc = "add" => c.root \notin foreign
    /\ c.pc \in Booting => /\ c.term # NoTerm /\ slugs[c.root] = c.term
                           /\ c.term \notin starts \cup process \cup {showing, c.fallback}
    /\ c.pc = "reveal" /\ c.term # NoTerm =>
          /\ slugOf[c.term] \in Slug /\ c.term <= seq
          /\ c.term \in stopped \/ slugs[slugOf[c.term]] = c.term
    /\ c.fallback # NoTerm => slugOf[c.fallback] \in Slug /\ slugs[slugOf[c.fallback]] = c.fallback

\* The sessions that have been on screen are sessions that were added.
Known == {t \in Term : t <= seq /\ slugOf[t] \in Slug}
HistoryInv == history \in Seq(Known)

Inv == TypeOK /\ RegistryInv /\ StateInv /\ CallInv /\ HistoryInv

-----------------------------------------------------------------------------
(* The history.                                                             *)

\* without() leaves a history of the same terminals.
LEMMA WithoutType ==
    ASSUME NEW S, NEW h \in Seq(S), NEW t
    PROVE  Without(h, t) \in Seq(S)
<1>. DEFINE at == {i \in DOMAIN h : h[i] = t}
            i  == CHOOSE i \in at : TRUE
<1>1. CASE at = {}
  BY <1>1 DEF Without
<1>2. CASE at # {}
  <2>1. i \in 1..Len(h)
    BY <1>2
  <2>. HIDE DEF i
  <2>2. SubSeq(h, 1, i - 1) \in Seq(S)
    BY <2>1, SubSeqProperties
  <2>3. SubSeq(h, i + 1, Len(h)) \in Seq(S)
    BY <2>1, SubSeqProperties
  <2>4. SubSeq(h, 1, i - 1) \o SubSeq(h, i + 1, Len(h)) \in Seq(S)
    BY <2>2, <2>3, ConcatProperties
  <2>. QED
    BY <1>2, <2>4 DEF Without, i
<1>. QED
  BY <1>1, <1>2

\* forget() falls back on a session that is still registered, if on any.
LEMMA LastAliveFacts ==
    ASSUME NEW S, NEW h \in Seq(S), LastAlive(h) # NoTerm
    PROVE  /\ LastAlive(h) \in S
           /\ slugs'[slugOf[LastAlive(h)]] = LastAlive(h)
<1>. DEFINE live == {i \in DOMAIN h : slugs'[slugOf[h[i]]] = h[i] /\ Alive(h[i])}
            last == {i \in live : \A j \in live : j <= i}
            i    == CHOOSE i \in last : TRUE
<1>1. last # {} /\ LastAlive(h) = h[i]
  BY DEF LastAlive
<1>2. i \in live
  BY <1>1
<1>. QED
  BY <1>1, <1>2

-----------------------------------------------------------------------------
(* Types.                                                                   *)

LEMMA EnterType ==
    ASSUME TypeOK, NEW op \in Ops, NEW s \in Slug \cup {NoSlug}, NEW step \in Steps,
           NEW t \in Term \cup {NoTerm}, Enter(op, s, step, t)
    PROVE  call' \in [Actor -> Calls]
<1>. DEFINE e == [Idle EXCEPT !.op = op, !.pc = step, !.slug = s, !.root = s, !.term = t]
<1>1. Idle \in Calls
  BY DEF Idle, Calls, Ops, Steps
<1>2. e \in Calls
  BY <1>1 DEF Calls
<1>3. call' = [call EXCEPT !["locked"] = e]
  BY DEF Enter
<1>. HIDE DEF e
<1>. QED
  BY <1>2, <1>3 DEF TypeOK

LEMMA StepType ==
    ASSUME TypeOK, NEW a \in Actor
    PROVE  /\ \A step \in Steps : Goto(a, step) => call' \in [Actor -> Calls]
           /\ \A t \in Term \cup {NoTerm} : RevealNext(a, t) => call' \in [Actor -> Calls]
           /\ Finish(a) => call' \in [Actor -> Calls]
<1>1. Idle \in Calls
  BY DEF Idle, Calls, Ops, Steps
<1>2. call[a] \in Calls
  BY DEF TypeOK
<1>3. ASSUME NEW step \in Steps, Goto(a, step) PROVE call' \in [Actor -> Calls]
  <2>1. [call[a] EXCEPT !.pc = step] \in Calls
    BY <1>2 DEF Calls
  <2>. QED
    BY <1>3, <2>1 DEF Goto, TypeOK
<1>4. ASSUME NEW t \in Term \cup {NoTerm}, RevealNext(a, t) PROVE call' \in [Actor -> Calls]
  <2>1. [call[a] EXCEPT !.pc = "reveal", !.term = t] \in Calls
    BY <1>2 DEF Calls, Steps
  <2>. QED
    BY <1>4, <2>1 DEF RevealNext, TypeOK
<1>5. Finish(a) => call' \in [Actor -> Calls]
  BY <1>1 DEF Finish, TypeOK
<1>. QED
  BY <1>3, <1>4, <1>5

Quits == [phase : {"no", "stopping", "done"}, left : SUBSET Term,
          term : Term \cup {NoTerm}, grip : SUBSET {"process", "control"}]

LEMMA FailedType ==
    ASSUME TypeOK, NEW a \in Actor, Failed(a)
    PROVE  call' \in [Actor -> Calls] /\ quit' \in Quits
  BY StepType DEF TypeOK, Failed, Calls, Quits

LEMMA MarkType ==
    ASSUME TypeOK, NEW t \in Term, StopMark(t)
    PROVE  /\ stopped' \subseteq Term /\ process' \subseteq Term
           /\ listener' \in [Term -> {"none", "bound", "held", "closing", "closed"}]
           /\ life' \in [Term -> Lives]
           /\ Grip(t) \subseteq {"process", "control"}
  BY DEF TypeOK, StopMark, Lives, Grip

LEMMA ReapType ==
    ASSUME TypeOK, NEW t \in Term, NEW grip, StopReap(t, grip)
    PROVE  /\ listener' \in [Term -> {"none", "bound", "held", "closing", "closed"}]
           /\ life' \in [Term -> Lives]
           /\ pidfile' \in [Slug -> Term \cup {NoTerm, Foreign}]
  BY DEF TypeOK, StopReap, Lives

LEMMA UnregisterType ==
    ASSUME TypeOK, NEW t \in Term, Unregister(t)
    PROVE  /\ seq' \in 0..MaxBoots /\ slugOf' \in [Term -> Slug \cup {NoSlug}]
           /\ slugs' \in [Slug -> Term \cup {NoTerm}] /\ terms' \subseteq Term
           /\ showing' \in Term \cup {NoTerm} /\ history' \in Seq(Term)
  BY WithoutType DEF TypeOK, Unregister

\* An entry, and what the page, the poller and the supervisors do.
LEMMA OutsideType ==
    ASSUME TypeOK, Next, ~\E a \in Actor : Step(a)
    PROVE  TypeOK'
<1>. USE SlugAssumption, MaxBootsAssumption
<1>1. ASSUME NEW s \in Slug, Show(s) \/ Reload(s) \/ Unload(s) \/ Cleanup(s) PROVE TypeOK'
  <2>1. call' \in [Actor -> Calls]
    BY <1>1, EnterType DEF Show, Reload, Unload, Cleanup, TypeOK, Ops, Steps
  <2>. QED
    BY <1>1, <2>1 DEF Show, Reload, Unload, Cleanup, TypeOK, registry, states, kernel, disk
<1>2. ASSUME NEW s \in Slug, Adopt(s) PROVE TypeOK'
  <2>1. call' \in [Actor -> Calls]
    BY <1>2, EnterType DEF Adopt, TypeOK, Ops, Steps
  <2>. QED
    BY <1>2, <2>1 DEF Adopt, TypeOK, registry, states, kernel
<1>3. ASSUME NEW s \in Slug, CreateSession(s) \/ ForeignExits(s) PROVE TypeOK'
  BY <1>3 DEF CreateSession, ForeignExits, TypeOK, registry, states, kernel, disk
<1>4. ASSUME NEW t \in Term, Retire(t) PROVE TypeOK'
  <2>1. call' \in [Actor -> Calls]
    BY <1>4, EnterType DEF Retire, TypeOK, Ops, Steps
  <2>. QED
    BY <1>4, <2>1 DEF Retire, TypeOK, Lives, registry, states, disk
<1>5. ASSUME NEW t \in Term, PageLookup(t) \/ PageStart(t) PROVE TypeOK'
  BY <1>5 DEF PageLookup, PageStart, TypeOK, Lives, registry, states, kernel, disk
<1>6. ASSUME NEW t \in Term, WritePid(t) PROVE TypeOK'
  BY <1>6 DEF WritePid, TypeOK, Lives, registry, states, disk
<1>7. ASSUME NEW t \in Term, Exit(t) PROVE TypeOK'
  BY <1>7 DEF Exit, TypeOK, Lives, registry, states, disk
<1>8. ASSUME NEW t \in Term, ChildExited(t) PROVE TypeOK'
  BY <1>8 DEF ChildExited, TypeOK, Lives, registry, states, disk
<1>9. ASSUME NEW t \in Term, QuitStop(t) PROVE TypeOK'
  BY <1>9, MarkType DEF QuitStop, TypeOK, registry, disk
<1>10. CASE QuitReap
  <2>1. quit.term \in Term
    BY <1>10 DEF QuitReap, TypeOK
  <2>. QED
    BY <1>10, <2>1, ReapType DEF QuitReap, TypeOK, registry, disk
<1>11. CASE Poll
  BY <1>11 DEF Poll, TypeOK, registry, states, kernel
<1>12. CASE QuitBegin \/ QuitEnd
  BY <1>12 DEF QuitBegin, QuitEnd, TypeOK, registry, states, kernel, disk
<1>. QED
  BY <1>1, <1>2, <1>3, <1>4, <1>5, <1>6, <1>7, <1>8, <1>9, <1>10, <1>11, <1>12 DEF Next

\* The steps of an operation.
LEMMA StepsType ==
    ASSUME TypeOK, NEW a \in Actor, Step(a),
           call[a].pc \in {"stop", "reap", "forget", "drop"} => call[a].term # NoTerm,
           call[a].pc = "forget" => call[a].op \in {"show", "reload", "unload", "cleanup", "retire"}
    PROVE  TypeOK'
<1>. USE SlugAssumption, MaxBootsAssumption
<1>0. call[a] \in Calls
  BY DEF TypeOK
<1>1. CASE Stop(a)
  <2>1. call[a].term \in Term
    BY <1>0, <1>1 DEF Stop, Calls
  <2>2. call' \in [Actor -> Calls]
    BY <1>0, <1>1, <2>1, MarkType DEF Stop, TypeOK, Calls, Steps
  <2>. QED
    BY <1>1, <2>1, <2>2, MarkType DEF Stop, TypeOK, registry, disk
<1>2. CASE Reap(a)
  <2>1. call[a].term \in Term
    BY <1>0, <1>2 DEF Reap, Calls
  <2>2. call' \in [Actor -> Calls]
    BY <1>0, <1>2 DEF Reap, TypeOK, Calls, Steps
  <2>. QED
    BY <1>2, <2>1, <2>2, ReapType DEF Reap, TypeOK, registry, disk
<1>3. CASE Forget(a)
  <2>1. call[a].term \in Term
    BY <1>0, <1>3 DEF Forget, Calls
  <2>2. LastAlive(Without(history, call[a].term)) \in Term \cup {NoTerm}
    BY WithoutType, LastAliveFacts DEF TypeOK
  <2>3. \A b \in BOOLEAN : AfterForget(call[a].op, b) \in Steps
    BY <1>3 DEF Forget, AfterForget, Steps
  <2>4. Idle \in Calls
    BY DEF Idle, Calls, Ops, Steps
  <2>5. call' \in [Actor -> Calls]
    <3>. DEFINE shown == showing = call[a].term
                fb    == IF shown THEN LastAlive(Without(history, call[a].term)) ELSE NoTerm
                step  == AfterForget(call[a].op, shown)
                next  == [call[a] EXCEPT !.pc = step, !.term = IF step = "reveal" THEN fb ELSE NoTerm,
                                         !.fallback = fb, !.emptied = shown]
    <3>1. call' = [call EXCEPT ![a] = IF step = "done" THEN Idle ELSE next]
      BY <1>3 DEF Forget
    <3>2. fb \in Term \cup {NoTerm} /\ step \in Steps /\ shown \in BOOLEAN
      BY <2>2, <2>3
    <3>. HIDE DEF fb, step, shown
    <3>3. next \in Calls
      BY <1>0, <3>2 DEF Calls
    <3>. HIDE DEF next
    <3>. QED
      BY <2>4, <3>1, <3>3 DEF TypeOK
  <2>. QED
    BY <1>3, <2>1, <2>5, UnregisterType DEF Forget, TypeOK, states, kernel, disk
<1>4. CASE NextInactive(a)
  <2>1. CASE \E s \in Candidates(call[a].slug) : call' = [call EXCEPT ![a].pc = "check", ![a].root = s]
    <3>1. PICK s \in Slug : call' = [call EXCEPT ![a].pc = "check", ![a].root = s]
      BY <2>1 DEF Candidates, TypeOK
    <3>2. [call[a] EXCEPT !.pc = "check", !.root = s] \in Calls
      BY <1>0 DEF Calls, Steps
    <3>3. call' \in [Actor -> Calls]
      BY <3>1, <3>2 DEF TypeOK
    <3>. QED
      BY <1>4, <3>3 DEF NextInactive, TypeOK, registry, states, kernel, disk
  <2>2. CASE \E t \in Term \cup {NoTerm} : RevealNext(a, t)
    <3>1. call' \in [Actor -> Calls]
      BY <2>2, StepType
    <3>. QED
      BY <1>4, <3>1 DEF NextInactive, TypeOK, registry, states, kernel, disk
  <2>. QED
    BY <1>0, <1>4, <2>1, <2>2 DEF NextInactive, Calls
<1>5. CASE Root(a) \/ Check(a)
  <2>1. call' \in [Actor -> Calls] /\ quit' \in Quits
    BY <1>5, StepType, FailedType DEF Root, Check, TypeOK, Steps, Quits
  <2>. QED
    BY <1>5, <2>1 DEF Root, Check, TypeOK, Quits, registry, states, kernel, disk
<1>6. CASE Add(a)
  <2>1. CASE seq < MaxBoots
    <3>0. seq \in 0..MaxBoots
      BY DEF TypeOK
    <3>1. seq + 1 \in Term /\ seq + 1 \in 0..MaxBoots
      BY <2>1, <3>0 DEF Term
    <3>2. call[a].root \in Slug \cup {NoSlug} /\ [call[a] EXCEPT !.pc = "serve", !.term = seq + 1] \in Calls
      BY <1>0, <3>1 DEF Calls, Steps
    <3>3. call' \in [Actor -> Calls]
      BY <1>6, <2>1, <3>2 DEF Add, TypeOK
    <3>. QED
      BY <1>6, <2>1, <3>1, <3>2, <3>3 DEF Add, TypeOK, states, kernel, disk
  <2>2. CASE ~(seq < MaxBoots)
    BY <1>6, <2>2, FailedType DEF Add, TypeOK, Quits, states, kernel, disk
  <2>. QED
    BY <2>1, <2>2
<1>7. CASE Serve(a) \/ Record(a)
  <2>1. call' \in [Actor -> Calls]
    BY <1>7, StepType DEF Serve, Record, Steps
  <2>. QED
    BY <1>7, <2>1 DEF Serve, Record, TypeOK, registry, kernel, disk
<1>8. CASE Drop(a)
  <2>1. call[a].term \in Term
    BY <1>0, <1>8 DEF Drop, Calls
  <2>. QED
    BY <1>8, <2>1, UnregisterType, FailedType DEF Drop, TypeOK, Quits, states, kernel, disk
<1>9. CASE Reveal(a)
  <2>1. call[a].term \in Term \cup {NoTerm}
    BY <1>0 DEF Calls
  <2>2. call[a].term # NoTerm => Append(Without(history, call[a].term), call[a].term) \in Seq(Term)
    BY <2>1, WithoutType DEF TypeOK
  <2>3. call' \in [Actor -> Calls]
    BY <1>9, StepType DEF Reveal, Steps
  <2>. QED
    BY <1>9, <2>1, <2>2, <2>3 DEF Reveal, TypeOK, states, kernel, disk
<1>10. CASE RemoveRoot(a)
  <2>1. call' \in [Actor -> Calls]
    BY <1>10, StepType DEF RemoveRoot
  <2>. QED
    BY <1>10, <2>1 DEF RemoveRoot, TypeOK, registry, states
<1>. QED
  BY <1>1, <1>2, <1>3, <1>4, <1>5, <1>6, <1>7, <1>8, <1>9, <1>10 DEF Step

-----------------------------------------------------------------------------
(* The invariant.                                                           *)

LEMMA InitInv == Startup = NoSlug /\ Init => Inv
<1>. SUFFICES ASSUME Startup = NoSlug, Init PROVE Inv
  OBVIOUS
<1>. USE SlugAssumption, MaxBootsAssumption DEF Init
<1>1. call = [a \in Actor |-> Idle]
  BY DEF Actor
<1>2. Idle \in Calls
  BY DEF Idle, Calls, Ops, Steps
<1>3. TypeOK
  BY <1>1, <1>2 DEF TypeOK, Term, NoTerm, Foreign, Lives
<1>4. c = Idle /\ call["startup"] = Idle
  BY <1>1 DEF c, Actor
<1>5. CallInv
  BY <1>4 DEF CallInv, Idle, Stopping, Booting
<1>6. RegistryInv /\ StateInv
  BY DEF RegistryInv, StateInv, Running
<1>7. HistoryInv
  BY EmptySeq DEF HistoryInv
<1>. QED
  BY <1>3, <1>5, <1>6, <1>7 DEF Inv

\* Only showMu's holder takes steps.
LEMMA OnlyLocked == ASSUME Inv, NEW a \in Actor, Step(a) PROVE a = "locked"
  BY DEF Inv, CallInv, Actor, Step, Idle, Stop, Reap, Forget, NextInactive, Root, Check, Add, Serve,
         Record, Drop, Reveal, RemoveRoot

LEMMA Names == \A t \in Term : t # NoTerm /\ t # Foreign
  BY MaxBootsAssumption DEF Term, NoTerm, Foreign

\* Nothing that goes on without showMu touches the registry, and what a state owns
\* can only be lost: the three ways it can leave the invariant as it is.
LEMMA Quiet ==
    ASSUME Inv, UNCHANGED <<slugs, slugOf, seq, showing, call>>, starts' \subseteq starts,
           process' \subseteq process, stopped \subseteq stopped', process' \cap stopped' = {},
           foreign' \subseteq foreign, \A s \in foreign' : pidfile'[s] = Foreign,
           \A t \in Term : Running(t)' => t \in process',
           \A t \in Term : life'[t] # "none" => life[t] # "none"
    PROVE  RegistryInv' /\ StateInv' /\ CallInv'
<1>1. RegistryInv'
  BY DEF Inv, RegistryInv
<1>2. StateInv'
  BY DEF Inv, StateInv, TypeOK
<1>3. CallInv'
  BY DEF Inv, CallInv, c
<1>. QED
  BY <1>1, <1>2, <1>3

LEMMA OutsideInv ==
    ASSUME Inv, NEW t \in Term,
           PageLookup(t) \/ PageStart(t) \/ WritePid(t) \/ Exit(t) \/ ChildExited(t) \/ QuitStop(t)
    PROVE  RegistryInv' /\ StateInv' /\ CallInv'
<1>. USE DEF registry, states, kernel, disk
<1>0. TypeOK /\ \A s \in foreign : pidfile[s] = Foreign
  BY DEF Inv, RegistryInv
<1>p. \A u \in Term : Running(u) => u \in process
  BY DEF Inv, StateInv
<1>o. \A u \in process : u \notin stopped /\ slugOf[u] \in Slug \ foreign
  BY <1>0, Names DEF Inv, StateInv, RegistryInv, TypeOK
<1>1. CASE PageLookup(t)
  BY <1>0, <1>1 DEF Inv, RegistryInv, StateInv, CallInv, c, Running, PageLookup, TypeOK
<1>2. CASE PageStart(t)
  <2>1. t \in starts /\ starts' \subseteq starts /\ process' \subseteq process \cup {t}
        /\ UNCHANGED <<slugs, slugOf, seq, showing, call, stopped, foreign, pidfile>>
    BY <1>2 DEF PageStart
  <2>2. t \in process' => t \notin stopped /\ slugOf[t] \in Slug /\ slugs[slugOf[t]] = t
    BY <1>2, <2>1, <1>o, Names DEF PageStart, Inv, StateInv
  <2>3. \A u \in Term : (Running(u)' => u \in process') /\ (life'[u] # "none" => life[u] # "none" \/ u = t)
    BY <1>0, <1>2, <1>p DEF PageStart, Running, TypeOK
  <2>4. RegistryInv'
    BY <2>1 DEF Inv, RegistryInv
  <2>5. StateInv'
    BY <2>1, <2>2, <2>3, Names DEF Inv, StateInv
  <2>6. CallInv'
    BY <2>1 DEF Inv, CallInv, c
  <2>. QED
    BY <2>4, <2>5, <2>6
<1>3. CASE WritePid(t)
  <2>1. t \in process
    BY <1>3, <1>p DEF WritePid, Running
  <2>2. \A s \in foreign' : pidfile'[s] = Foreign
    BY <1>0, <1>3, <1>o, <2>1 DEF WritePid, TypeOK
  <2>3. \A u \in Term : (Running(u)' => Running(u)) /\ (life'[u] # "none" => life[u] # "none")
    BY <1>0, <1>3 DEF WritePid, Running, TypeOK
  <2>. QED
    BY <1>3, <1>o, <1>p, <2>2, <2>3, Quiet DEF WritePid
<1>4. CASE Exit(t)
  <2>1. t \in process
    BY <1>4, <1>p DEF Exit
  <2>2. \A s \in foreign' : pidfile'[s] = Foreign
    BY <1>0, <1>4, <1>o, <2>1 DEF Exit, TypeOK
  <2>3. \A u \in Term : (Running(u)' => Running(u)) /\ (life'[u] # "none" => life[u] # "none")
    BY <1>0, <1>4 DEF Exit, Running, TypeOK
  <2>. QED
    BY <1>4, <1>o, <1>p, <2>2, <2>3, Quiet DEF Exit
<1>5. CASE ChildExited(t)
  <2>1. \A u \in Term : (Running(u)' => Running(u)) /\ (life'[u] # "none" => life[u] # "none")
    BY <1>0, <1>5 DEF ChildExited, Running, TypeOK
  <2>. QED
    BY <1>0, <1>5, <1>o, <1>p, <2>1, Quiet DEF ChildExited
<1>6. CASE QuitStop(t)
  <2>1. \A u \in Term : (Running(u)' => Running(u) /\ u # t) /\ (life'[u] # "none" => life[u] # "none")
    BY <1>0, <1>6, <1>p DEF QuitStop, StopMark, Running, TypeOK
  <2>. QED
    BY <1>0, <1>6, <1>o, <1>p, <2>1, Quiet DEF QuitStop, StopMark
<1>. QED
  BY <1>1, <1>2, <1>3, <1>4, <1>5, <1>6

LEMMA OthersInv ==
    ASSUME Inv,
           \/ Poll \/ QuitBegin \/ QuitReap \/ QuitEnd
           \/ \E s \in Slug : CreateSession(s) \/ ForeignExits(s)
    PROVE  RegistryInv' /\ StateInv' /\ CallInv'
<1>. USE DEF registry, states, kernel, disk
<1>0. TypeOK /\ (\A s \in foreign : pidfile[s] = Foreign)
      /\ (\A u \in Term : Running(u) => u \in process) /\ (\A u \in process : u \notin stopped)
  BY DEF Inv, RegistryInv, StateInv
<1>1. CASE Poll \/ QuitBegin \/ QuitEnd \/ \E s \in Slug : CreateSession(s)
  <2>1. UNCHANGED <<slugs, slugOf, seq, showing, call, starts, process, stopped, foreign, pidfile, life>>
    BY <1>1 DEF Poll, QuitBegin, QuitEnd, CreateSession
  <2>. QED
    BY <1>0, <2>1, Quiet DEF Running
<1>2. CASE QuitReap
  <2>1. quit.term \in Term
    BY <1>0, <1>2 DEF QuitReap, TypeOK
  <2>2. \A u \in Term : (Running(u)' => Running(u)) /\ (life'[u] # "none" => life[u] # "none")
    BY <1>0, <1>2 DEF QuitReap, StopReap, Running, TypeOK
  <2>3. \A s \in foreign' : pidfile'[s] = Foreign
    BY <1>0, <1>2, <2>1, Names DEF QuitReap, StopReap, TypeOK
  <2>. QED
    BY <1>0, <1>2, <2>2, <2>3, Quiet DEF QuitReap
<1>3. CASE \E s \in Slug : ForeignExits(s)
  <2>1. \A s \in foreign' : pidfile'[s] = Foreign
    BY <1>0, <1>3 DEF ForeignExits, TypeOK
  <2>. QED
    BY <1>0, <1>3, <2>1, Quiet DEF ForeignExits, Running
<1>. QED
  BY <1>1, <1>2, <1>3

\* An operation begins.
LEMMA EntryInv ==
    ASSUME Inv,
           \/ \E s \in Slug : Show(s) \/ Reload(s) \/ Unload(s) \/ Cleanup(s) \/ Adopt(s)
           \/ \E t \in Term : Retire(t)
    PROVE  RegistryInv' /\ StateInv' /\ CallInv'
<1>. USE DEF registry, states, kernel, disk
<1>0. TypeOK /\ c = Idle
  BY DEF Inv, Free, c, Show, Reload, Unload, Cleanup, Adopt, Retire
<1>1. ASSUME UNCHANGED <<slugs, slugOf, seq, showing, starts, process, stopped, foreign, pidfile>>,
             \A t \in Term : (Running(t)' => Running(t)) /\ (life'[t] # "none" => life[t] # "none")
      PROVE  RegistryInv' /\ StateInv'
  BY <1>1 DEF Inv, RegistryInv, StateInv
<1>2. ASSUME NEW op \in {"show", "reload", "unload", "cleanup", "adopt", "retire"}, NEW s \in Slug,
             NEW step, NEW t \in Term \cup {NoTerm}, Enter(op, s, step, t),
             UNCHANGED <<slugs, slugOf, seq, showing, starts, process, stopped, foreign>>,
             \/ step = "stop" /\ op # "adopt" /\ t # NoTerm /\ slugs[s] = t
             \/ step \in {"root", "check"} /\ slugs[s] = NoTerm
             \/ step = "reveal" /\ slugs[s] = t
             \/ step = "remove" /\ op = "cleanup",
             op = "cleanup" => s \notin foreign
      PROVE  CallInv'
  <2>1. \A u \in Term : slugs[s] = u => slugOf[u] = s /\ u <= seq
    BY <1>2, Names DEF Inv, RegistryInv
  <2>2. call'["startup"] = Idle /\ c' = [Idle EXCEPT !.op = op, !.pc = step, !.slug = s, !.root = s, !.term = t]
    <3>1. Enter(op, s, step, t)
      BY <1>2
    <3>. QED
      BY <1>0, <3>1 DEF Inv, TypeOK, CallInv, Enter, c, Actor
  <2>3. /\ c'.op = op /\ c'.pc = step /\ c'.slug = s /\ c'.root = s /\ c'.term = t
        /\ c'.fallback = NoTerm
    BY <2>2 DEF Idle
  <2>4. CASE step = "stop"
    <3>1. op \in {"show", "reload", "unload", "cleanup", "retire"} /\ t # NoTerm /\ slugs'[s] = t
      BY <1>2, <2>4
    <3>2. s \in Slug /\ (op = "cleanup" => s \notin foreign')
      BY <1>2
    <3>. QED
      BY <2>2, <2>3, <2>4, <3>1, <3>2 DEF CallInv, Stopping, Booting
  <2>5. CASE step \in {"root", "check"}
    BY <1>2, <2>2, <2>3, <2>5 DEF CallInv, Stopping, Booting
  <2>6. CASE step = "reveal"
    BY <1>2, <2>1, <2>2, <2>3, <2>6 DEF CallInv, Stopping, Booting
  <2>7. CASE step = "remove"
    BY <1>2, <2>2, <2>3, <2>7 DEF CallInv, Stopping, Booting
  <2>. QED
    BY <1>2, <2>4, <2>5, <2>6, <2>7
<1>. HIDE DEF c
<1>3. ASSUME NEW s \in Slug, Show(s) PROVE RegistryInv' /\ StateInv' /\ CallInv'
  <2>1. slugs[s] \in Term \cup {NoTerm} /\ UNCHANGED <<slugs, slugOf, seq, showing, starts, process, stopped, foreign, pidfile, life>>
    BY <1>0, <1>3 DEF Show, TypeOK
  <2>2. CallInv'
    BY <1>2, <1>3, <2>1 DEF Show, Alive
  <2>. QED
    BY <1>1, <2>1, <2>2 DEF Running
<1>4. ASSUME NEW s \in Slug, Reload(s) PROVE RegistryInv' /\ StateInv' /\ CallInv'
  <2>1. slugs[s] \in Term \cup {NoTerm} /\ UNCHANGED <<slugs, slugOf, seq, showing, starts, process, stopped, foreign, pidfile, life>>
    BY <1>0, <1>4 DEF Reload, TypeOK
  <2>2. CallInv'
    BY <1>2, <1>4, <2>1 DEF Reload
  <2>. QED
    BY <1>1, <2>1, <2>2 DEF Running
<1>5. ASSUME NEW s \in Slug, Unload(s) PROVE RegistryInv' /\ StateInv' /\ CallInv'
  <2>1. slugs[s] \in Term \cup {NoTerm} /\ UNCHANGED <<slugs, slugOf, seq, showing, starts, process, stopped, foreign, pidfile, life>>
    BY <1>0, <1>5 DEF Unload, TypeOK
  <2>2. CallInv'
    BY <1>2, <1>5, <2>1 DEF Unload
  <2>. QED
    BY <1>1, <2>1, <2>2 DEF Running
<1>6. ASSUME NEW s \in Slug, Cleanup(s) PROVE RegistryInv' /\ StateInv' /\ CallInv'
  <2>1. slugs[s] \in Term \cup {NoTerm} /\ UNCHANGED <<slugs, slugOf, seq, showing, starts, process, stopped, foreign, pidfile, life>>
    BY <1>0, <1>6 DEF Cleanup, TypeOK
  <2>2. s \notin foreign
    BY <1>6, MaxBootsAssumption DEF Cleanup, AgentAlive, Inv, RegistryInv, NoTerm, Foreign
  <2>3. CallInv'
    BY <1>2, <1>6, <2>1, <2>2 DEF Cleanup
  <2>. QED
    BY <1>1, <2>1, <2>3 DEF Running
<1>7. ASSUME NEW s \in Slug, Adopt(s) PROVE RegistryInv' /\ StateInv' /\ CallInv'
  <2>1. slugs[s] \in Term \cup {NoTerm} /\ UNCHANGED <<slugs, slugOf, seq, showing, starts, process, stopped, foreign, pidfile, life>>
    BY <1>0, <1>7 DEF Adopt, TypeOK
  <2>2. CallInv'
    BY <1>2, <1>7, <2>1 DEF Adopt
  <2>. QED
    BY <1>1, <2>1, <2>2 DEF Running
<1>8. ASSUME NEW t \in Term, Retire(t) PROVE RegistryInv' /\ StateInv' /\ CallInv'
  <2>1. UNCHANGED <<slugs, slugOf, seq, showing, starts, process, stopped, foreign, pidfile>>
        /\ \A u \in Term : (Running(u)' => Running(u)) /\ (life'[u] # "none" => life[u] # "none")
    BY <1>0, <1>8 DEF Retire, Running, TypeOK
  <2>2. CASE UNCHANGED call
    BY <1>1, <2>1, <2>2 DEF Inv, CallInv, c
  <2>3. CASE slugs[slugOf[t]] = t /\ Enter("retire", slugOf[t], "stop", t)
    <3>1. slugOf[t] \in Slug
      BY <1>8 DEF Retire, Inv, StateInv
    <3>2. CallInv'
      BY <1>2, <2>1, <2>3, <3>1, Names
    <3>. QED
      BY <1>1, <2>1, <3>2
  <2>. QED
    BY <1>8, <2>2, <2>3 DEF Retire
<1>. QED
  BY <1>3, <1>4, <1>5, <1>6, <1>7, <1>8

\* How a step moves the call.
LEMMA CallMoves ==
    ASSUME Inv
    PROVE  /\ \A step : Goto("locked", step) =>
                 call'["startup"] = Idle /\ c' = [c EXCEPT !.pc = step]
           /\ \A t : RevealNext("locked", t) =>
                 call'["startup"] = Idle /\ c' = [c EXCEPT !.pc = "reveal", !.term = t]
           /\ Finish("locked") => call'["startup"] = Idle /\ c' = Idle
           /\ c \in Calls
  BY DEF Inv, TypeOK, CallInv, Goto, RevealNext, Finish, c, Actor

\* An idle call relies on nothing.
LEMMA IdleInv ==
    ASSUME call'["startup"] = Idle, c' = Idle
    PROVE  CallInv'
  BY DEF CallInv, Idle, Stopping, Booting

\* A call about to reveal relies on the session it reveals.
LEMMA RevealInv ==
    ASSUME Inv, NEW t \in Term \cup {NoTerm},
           call'["startup"] = Idle, c' = [c EXCEPT !.pc = "reveal", !.term = t],
           c.pc # "done", foreign' = foreign,
           t # NoTerm => /\ slugOf'[t] \in Slug /\ t <= seq'
                         /\ t \in stopped' \/ slugs'[slugOf'[t]] = t,
           c.fallback # NoTerm => /\ slugOf'[c.fallback] \in Slug
                                  /\ slugs'[slugOf'[c.fallback]] = c.fallback
    PROVE  CallInv'
<1>1. /\ c'.op = c.op /\ c'.pc = "reveal" /\ c'.slug = c.slug /\ c'.root = c.root
      /\ c'.term = t /\ c'.fallback = c.fallback
  BY CallMoves DEF Calls
<1>. QED
  BY <1>1 DEF Inv, CallInv, Stopping, Booting

\* A boot that failed hands the window to the fallback, or ends the call.
LEMMA FailedInv ==
    ASSUME Inv, Failed("locked"), c.pc # "done", foreign' = foreign, seq' = seq, slugOf' = slugOf,
           c.fallback # NoTerm => slugs'[slugOf[c.fallback]] = c.fallback
    PROVE  CallInv'
<1>1. CASE c.emptied
  <2>1. RevealNext("locked", c.fallback)
    BY <1>1 DEF Failed, c
  <2>2. c.fallback \in Term \cup {NoTerm}
    BY CallMoves DEF Calls
  <2>3. c.fallback # NoTerm => slugOf[c.fallback] \in Slug /\ c.fallback <= seq
    <3>1. c.fallback # NoTerm => slugOf[c.fallback] \in Slug /\ slugs[slugOf[c.fallback]] = c.fallback
      BY DEF Inv, CallInv
    <3>. QED
      BY <3>1 DEF Inv, RegistryInv
  <2>. QED
    BY <2>1, <2>2, <2>3, CallMoves, RevealInv
<1>2. CASE ~c.emptied
  BY <1>2, CallMoves, IdleInv DEF Failed, c
<1>. QED
  BY <1>1, <1>2

\* A step that leaves the registry as it is.
LEMMA UnchangedInv ==
    ASSUME Inv, UNCHANGED <<registry, stopped, process, life, pidfile, foreign, starts>>
    PROVE  RegistryInv' /\ StateInv'
  BY DEF Inv, RegistryInv, StateInv, Running, registry

\* stop() and forget(), and what comes between.
LEMMA RecycleInv ==
    ASSUME Inv, Stop("locked") \/ Reap("locked") \/ Forget("locked")
    PROVE  RegistryInv' /\ StateInv' /\ CallInv'
<1>. DEFINE t == c.term
<1>0. TypeOK /\ (\A s \in foreign : pidfile[s] = Foreign)
      /\ (\A u \in Term : Running(u) => u \in process) /\ (\A u \in process : u \notin stopped)
  BY DEF Inv, RegistryInv, StateInv
<1>c. /\ c \in Calls /\ c = call["locked"] /\ c.pc \in Stopping
      /\ t \in Term /\ c.slug \in Slug /\ c.root = c.slug /\ slugs[c.root] = t /\ slugOf[t] = c.slug
      /\ c.fallback = NoTerm
  BY CallMoves, Names DEF Inv, CallInv, RegistryInv, c, Stop, Reap, Forget, Stopping, Calls
<1>1. CASE Stop("locked")
  <2>1. \A u \in Term : (Running(u)' => Running(u) /\ u # t) /\ (life'[u] # "none" => life[u] # "none")
    BY <1>0, <1>1, <1>c DEF Stop, StopMark, Running, TypeOK, c
  <2>2. t \in stopped' /\ UNCHANGED <<slugs, slugOf, seq, showing, starts, foreign, pidfile>>
        /\ process' = process \ {t} /\ stopped' = stopped \cup {t}
    BY <1>1 DEF Stop, StopMark, registry, c
  <2>3. RegistryInv'
    BY <2>2 DEF Inv, RegistryInv
  <2>4. StateInv'
    BY <1>0, <2>1, <2>2 DEF Inv, StateInv
  <2>5. call'["startup"] = Idle
        /\ c' = [c EXCEPT !.pc = "reap", !.grip = Grip(t)]
    BY <1>0, <1>1 DEF Stop, Inv, CallInv, TypeOK, c, Actor
  <2>6. CallInv'
    <3>1. /\ c'.op = c.op /\ c'.pc = "reap" /\ c'.slug = c.slug /\ c'.root = c.root
          /\ c'.term = c.term /\ c'.fallback = c.fallback
      BY <1>c, <2>5 DEF Calls
    <3>. QED
      BY <1>c, <2>2, <2>5, <3>1 DEF Inv, CallInv, Stopping, Booting
  <2>. QED
    BY <2>3, <2>4, <2>6
<1>2. CASE Reap("locked")
  <2>1. \A u \in Term : (Running(u)' => Running(u)) /\ (life'[u] # "none" => life[u] # "none")
    BY <1>0, <1>2 DEF Reap, StopReap, Running, TypeOK
  <2>2. UNCHANGED <<slugs, slugOf, seq, showing, starts, foreign, process, stopped>>
    BY <1>2 DEF Reap, registry
  <2>3. \A s \in foreign' : pidfile'[s] = Foreign
    BY <1>0, <1>2, <1>c, <2>2, Names DEF Reap, StopReap, TypeOK, c
  <2>4. RegistryInv'
    BY <2>2, <2>3 DEF Inv, RegistryInv
  <2>5. StateInv'
    BY <1>0, <2>1, <2>2 DEF Inv, StateInv
  <2>6. call'["startup"] = Idle
        /\ c' = [c EXCEPT !.pc = "forget", !.grip = {}]
    BY <1>0, <1>2 DEF Reap, Inv, CallInv, TypeOK, c, Actor
  <2>7. CallInv'
    <3>1. /\ c'.op = c.op /\ c'.pc = "forget" /\ c'.slug = c.slug /\ c'.root = c.root
          /\ c'.term = c.term /\ c'.fallback = c.fallback
      BY <1>c, <2>6 DEF Calls
    <3>2. c.pc = "reap"
      BY <1>2 DEF Reap, c
    <3>. QED
      BY <1>c, <2>2, <2>6, <3>1, <3>2 DEF Inv, CallInv, Stopping, Booting
  <2>. QED
    BY <2>4, <2>5, <2>7
<1>3. CASE Forget("locked")
  <2>1. /\ UNCHANGED <<slugOf, seq, starts, foreign, process, stopped, pidfile, life>>
        /\ slugs' = [slugs EXCEPT ![c.slug] = NoTerm]
        /\ showing' = IF showing = t THEN NoTerm ELSE showing
        /\ t \in stopped
    BY <1>3, <1>c DEF Forget, Unregister, states, kernel, Inv, CallInv
  <2>2. RegistryInv'
    BY <1>0, <2>1 DEF Inv, RegistryInv, TypeOK
  <2>3. StateInv'
    BY <1>0, <1>c, <2>1, Names DEF Inv, StateInv, TypeOK, Running
  <2>. DEFINE shown == showing = t
              fb    == IF shown THEN LastAlive(Without(history, t)) ELSE NoTerm
              step  == AfterForget(c.op, shown)
              next  == [c EXCEPT !.pc = step, !.term = IF step = "reveal" THEN fb ELSE NoTerm,
                                 !.fallback = fb, !.emptied = shown]
  <2>4. call'["startup"] = Idle /\ c' = IF step = "done" THEN Idle ELSE next
    BY <1>0, <1>3 DEF Forget, Inv, CallInv, TypeOK, c, Actor
  <2>5. fb # NoTerm => fb \in Known /\ slugs'[slugOf[fb]] = fb
    BY WithoutType, LastAliveFacts DEF Inv, HistoryInv
  <2>6. fb # NoTerm => slugOf[fb] \in Slug /\ fb <= seq
    BY <2>5 DEF Known
  <2>7. CallInv'
    <3>. HIDE DEF fb
    <3>1. c.op \in {"show", "reload", "unload", "cleanup", "retire"}
      BY <1>c DEF Inv, CallInv
    <3>2. slugs'[c.root] = NoTerm
      BY <1>0, <1>c, <2>1 DEF TypeOK
    <3>3. CASE step = "done"
      BY <2>4, <3>3, IdleInv
    <3>4. CASE step # "done"
      <4>1. /\ c'.op = c.op /\ c'.pc = step /\ c'.slug = c.slug /\ c'.root = c.root
            /\ c'.term = (IF step = "reveal" THEN fb ELSE NoTerm) /\ c'.fallback = fb
        BY <1>c, <2>4, <3>4 DEF Calls
      <4>2. /\ step \in {"root", "check", "reveal", "next", "remove"}
            /\ step = "root" => c.op = "show"
            /\ step = "remove" => c.op = "cleanup"
        BY <3>1, <3>4 DEF AfterForget
      <4>. HIDE DEF step
      <4>3. c.op = "cleanup" => c.slug \notin foreign
        BY DEF Inv, CallInv
      <4>. QED
        BY <1>c, <2>1, <2>4, <2>5, <2>6, <3>1, <3>2, <4>1, <4>2, <4>3 DEF CallInv, Stopping, Booting
    <3>. QED
      BY <3>3, <3>4
  <2>. QED
    BY <2>2, <2>3, <2>7
<1>. QED
  BY <1>1, <1>2, <1>3

\* From the choice of a root to a state that answers for it.
LEMMA BootInv ==
    ASSUME Inv, NextInactive("locked") \/ Root("locked") \/ Check("locked")
                \/ Add("locked") \/ Serve("locked")
    PROVE  RegistryInv' /\ StateInv' /\ CallInv'
<1>. USE DEF states, kernel, disk
<1>c. c \in Calls /\ c = call["locked"] /\ TypeOK /\ CallInv
  BY CallMoves DEF c, Inv
<1>f. c.fallback # NoTerm => /\ slugOf[c.fallback] \in Slug /\ slugs[slugOf[c.fallback]] = c.fallback
                             /\ c.fallback <= seq /\ c.fallback \in Term
  BY <1>c DEF Inv, CallInv, RegistryInv, Calls
<1>1. CASE NextInactive("locked")
  <2>1. RegistryInv' /\ StateInv'
    BY <1>1, UnchangedInv DEF NextInactive
  <2>2. UNCHANGED <<slugs, slugOf, seq, stopped, foreign, starts, process, showing>> /\ c.pc = "next"
    BY <1>1, <1>c DEF NextInactive, registry
  <2>3. CASE \E t \in {c.fallback, NoTerm} : RevealNext("locked", t)
    <3>1. PICK t \in {c.fallback, NoTerm} : RevealNext("locked", t)
      BY <2>3
    <3>2. t \in Term \cup {NoTerm} /\ call'["startup"] = Idle /\ c' = [c EXCEPT !.pc = "reveal", !.term = t]
      BY <1>c, <3>1, CallMoves DEF Calls
    <3>. QED
      BY <1>f, <2>1, <2>2, <3>1, <3>2, RevealInv
  <2>4. CASE \E s \in Candidates(c.slug) : call' = [call EXCEPT !["locked"].pc = "check", !["locked"].root = s]
    <3>1. PICK s \in Slug : slugs[s] = NoTerm /\ call' = [call EXCEPT !["locked"].pc = "check", !["locked"].root = s]
      BY <1>c, <2>4 DEF Candidates, TypeOK
    <3>2. call'["startup"] = Idle /\ c' = [c EXCEPT !.pc = "check", !.root = s]
      BY <1>c, <3>1 DEF c, CallInv, TypeOK, Actor
    <3>3. /\ c'.op = c.op /\ c'.pc = "check" /\ c'.slug = c.slug /\ c'.root = s
          /\ c'.term = c.term /\ c'.fallback = c.fallback
      BY <1>c, <3>2 DEF Calls
    <3>. QED
      BY <1>c, <2>1, <2>2, <3>1, <3>2, <3>3 DEF CallInv, Stopping, Booting
  <2>. QED
    BY <1>1, <1>c, <2>1, <2>3, <2>4 DEF NextInactive
<1>2. CASE Root("locked") \/ Check("locked")
  <2>1. UNCHANGED <<registry, stopped, process, life, pidfile, foreign, starts>>
        /\ c.pc \in {"root", "check"} /\ c.pc # "done"
    BY <1>2, <1>c DEF Root, Check
  <2>2. RegistryInv' /\ StateInv'
    BY <2>1, UnchangedInv
  <2>3. CASE Failed("locked")
    BY <1>f, <2>1, <2>2, <2>3, FailedInv DEF registry
  <2>4. CASE Root("locked") /\ Goto("locked", "check")
    <3>1. call'["startup"] = Idle /\ c' = [c EXCEPT !.pc = "check"]
      BY <2>4, CallMoves
    <3>2. /\ c'.op = c.op /\ c'.pc = "check" /\ c'.slug = c.slug /\ c'.root = c.root
          /\ c'.term = c.term /\ c'.fallback = c.fallback
      BY <1>c, <3>1 DEF Calls
    <3>. QED
      BY <1>c, <2>1, <2>2, <3>1, <3>2 DEF CallInv, Stopping, Booting, registry
  <2>5. CASE Check("locked") /\ Goto("locked", "add") /\ ~AgentAlive(c.root)
    <3>1. call'["startup"] = Idle /\ c' = [c EXCEPT !.pc = "add"]
      BY <2>5, CallMoves
    <3>2. /\ c'.op = c.op /\ c'.pc = "add" /\ c'.slug = c.slug /\ c'.root = c.root
          /\ c'.term = c.term /\ c'.fallback = c.fallback
      BY <1>c, <3>1 DEF Calls
    <3>3. c.root \notin foreign
      BY <2>5, MaxBootsAssumption DEF AgentAlive, Inv, RegistryInv, NoTerm, Foreign
    <3>. QED
      BY <1>c, <2>1, <2>2, <3>1, <3>2, <3>3 DEF CallInv, Stopping, Booting, registry
  <2>. QED
    BY <1>2, <1>c, <2>2, <2>3, <2>4, <2>5 DEF Root, Check
<1>3. CASE Add("locked")
  <2>1. c.pc = "add" /\ UNCHANGED <<showing, history, stopped, process, life, pidfile, foreign, starts>>
    BY <1>3, <1>c DEF Add
  <2>2. CASE seq < MaxBoots
    <3>. DEFINE n == seq + 1
    <3>0. seq \in 0..MaxBoots /\ n \in Term /\ n # NoTerm /\ ~(n <= seq)
      BY <1>c, <2>2, MaxBootsAssumption DEF TypeOK, Term, NoTerm
    <3>1. /\ seq' = n /\ c.root \in Slug /\ slugs[c.root] = NoTerm /\ c.root \notin foreign
          /\ slugOf' = [slugOf EXCEPT ![n] = c.root]
          /\ slugs' = [slugs EXCEPT ![c.root] = n]
          /\ call' = [call EXCEPT !["locked"].pc = "serve", !["locked"].term = n]
      BY <1>3, <1>c, <2>1, <2>2 DEF Add, CallInv
    <3>. HIDE DEF n
    <3>2. \A t \in Term : t <= seq => t # n /\ slugOf'[t] = slugOf[t] /\ t <= n
      BY <1>c, <3>0, <3>1 DEF TypeOK, Term, n
    <3>3. \A s \in Slug : slugs[s] # NoTerm => s # c.root /\ slugs'[s] = slugs[s] /\ slugs[s] \in Term
      BY <1>c, <3>1 DEF TypeOK
    <3>4. slugOf'[n] = c.root /\ slugs'[c.root] = n
      BY <1>c, <3>0, <3>1 DEF TypeOK
    <3>5. RegistryInv'
      <4>1. \A s \in Slug : s # c.root => slugs'[s] = slugs[s]
        BY <1>c, <3>1 DEF TypeOK
      <4>2. n <= n
        BY <3>0 DEF n
      <4>. QED
        BY <1>c, <2>1, <3>1, <3>2, <3>3, <3>4, <4>1, <4>2 DEF Inv, RegistryInv
    <3>6. StateInv'
      <4>1. \A t \in Term : slugOf[t] \in Slug /\ slugs[slugOf[t]] = t => t <= seq
        BY <3>3, Names DEF Inv, RegistryInv
      <4>2. process \subseteq Term /\ starts \cup {showing} \subseteq Term \cup {NoTerm}
        BY <1>c DEF TypeOK
      <4>. QED
        BY <2>1, <3>1, <3>2, <3>3, <4>1, <4>2, Names DEF Inv, StateInv, Running
    <3>7. n \notin starts \cup process \cup {showing, c.fallback}
      <4>1. n \notin process
        BY <3>0, <3>1, Names DEF Inv, StateInv, RegistryInv
      <4>. QED
        BY <1>f, <3>0, <4>1 DEF Inv, StateInv
    <3>8. call'["startup"] = Idle /\ c' = [c EXCEPT !.pc = "serve", !.term = n]
      BY <1>c, <3>1 DEF c, CallInv, TypeOK, Actor
    <3>9. /\ c'.op = c.op /\ c'.pc = "serve" /\ c'.slug = c.slug /\ c'.root = c.root
          /\ c'.term = n /\ c'.fallback = c.fallback
      BY <1>c, <3>8 DEF Calls
    <3>10. c.fallback # NoTerm => slugOf'[c.fallback] \in Slug /\ slugs'[slugOf'[c.fallback]] = c.fallback
      BY <1>f, <3>2, <3>3
    <3>11. CallInv'
      BY <1>c, <2>1, <3>0, <3>1, <3>4, <3>7, <3>8, <3>9, <3>10 DEF CallInv, Stopping, Booting
    <3>. QED
      BY <3>5, <3>6, <3>11
  <2>3. CASE ~(seq < MaxBoots)
    <3>1. Failed("locked") /\ UNCHANGED registry
      BY <1>3, <2>1, <2>3 DEF Add, registry
    <3>. QED
      BY <1>f, <2>1, <3>1, UnchangedInv, FailedInv DEF registry
  <2>. QED
    BY <2>2, <2>3
<1>4. CASE Serve("locked")
  <2>1. RegistryInv' /\ StateInv'
    BY <1>4, UnchangedInv DEF Serve
  <2>2. c.pc = "serve" /\ UNCHANGED <<slugs, slugOf, seq, stopped, foreign, starts, process, showing>>
        /\ \E step \in {"record", "drop"} : Goto("locked", step)
    BY <1>4, <1>c DEF Serve, registry
  <2>3. PICK step \in {"record", "drop"} : call'["startup"] = Idle /\ c' = [c EXCEPT !.pc = step]
    BY <2>2, CallMoves
  <2>4. /\ c'.op = c.op /\ c'.pc = step /\ c'.slug = c.slug /\ c'.root = c.root
        /\ c'.term = c.term /\ c'.fallback = c.fallback
    BY <1>c, <2>3 DEF Calls
  <2>. QED
    BY <1>c, <2>1, <2>2, <2>3, <2>4 DEF CallInv, Stopping, Booting
<1>. QED
  BY <1>1, <1>2, <1>3, <1>4

\* From a served session, or a boot that failed, to what the window shows.
LEMMA RevealingInv ==
    ASSUME Inv, Record("locked") \/ Drop("locked") \/ Reveal("locked") \/ RemoveRoot("locked")
    PROVE  RegistryInv' /\ StateInv' /\ CallInv'
<1>. USE DEF states, kernel, disk
<1>c. c \in Calls /\ c = call["locked"] /\ TypeOK /\ CallInv
  BY CallMoves DEF c, Inv
<1>f. c.fallback # NoTerm => /\ slugOf[c.fallback] \in Slug /\ slugs[slugOf[c.fallback]] = c.fallback
                             /\ c.fallback <= seq /\ c.fallback \in Term
  BY <1>c DEF Inv, CallInv, RegistryInv, Calls
<1>1. CASE Record("locked")
  <2>1. RegistryInv' /\ StateInv'
    BY <1>1, UnchangedInv DEF Record
  <2>2. c.pc = "record" /\ UNCHANGED <<slugs, slugOf, seq, stopped, foreign, starts, process, showing>>
        /\ \E step \in {"drop", "reveal"} : Goto("locked", step)
    BY <1>1, <1>c DEF Record, registry
  <2>3. PICK step \in {"drop", "reveal"} : call'["startup"] = Idle /\ c' = [c EXCEPT !.pc = step]
    BY <2>2, CallMoves
  <2>4. /\ c'.op = c.op /\ c'.pc = step /\ c'.slug = c.slug /\ c'.root = c.root
        /\ c'.term = c.term /\ c'.fallback = c.fallback
    BY <1>c, <2>3 DEF Calls
  <2>5. slugOf[c.term] = c.root /\ c.term <= seq
    BY <1>c, <2>2 DEF Inv, RegistryInv, CallInv, Booting
  <2>. QED
    BY <1>c, <2>1, <2>2, <2>3, <2>4, <2>5 DEF CallInv, Stopping, Booting
<1>2. CASE Drop("locked")
  <2>1. /\ c.pc = "drop" /\ Failed("locked")
        /\ c.root \in Slug /\ slugs[c.root] = c.term /\ slugOf[c.term] = c.root
        /\ c.term # NoTerm /\ c.term \notin starts \cup process \cup {showing, c.fallback}
    BY <1>2, <1>c DEF Drop, CallInv, Booting, Inv, RegistryInv
  <2>2. /\ UNCHANGED <<slugOf, seq, starts, foreign, process, stopped, pidfile, life, showing>>
        /\ slugs' = [slugs EXCEPT ![c.root] = NoTerm]
    BY <1>2, <1>c, <2>1 DEF Drop, Unregister
  <2>3. RegistryInv'
    BY <1>c, <2>2 DEF Inv, RegistryInv, TypeOK
  <2>4. StateInv'
    BY <1>c, <2>1, <2>2 DEF Inv, StateInv, TypeOK, Running
  <2>5. CallInv'
    BY <1>c, <1>f, <2>1, <2>2, FailedInv DEF TypeOK
  <2>. QED
    BY <2>3, <2>4, <2>5
<1>3. CASE Reveal("locked")
  <2>1. /\ c.pc = "reveal" /\ showing' = c.term
        /\ UNCHANGED <<slugOf, seq, slugs, starts, foreign, process, stopped, pidfile, life>>
    BY <1>3, <1>c DEF Reveal
  <2>2. RegistryInv'
    BY <2>1 DEF Inv, RegistryInv
  <2>3. StateInv'
    BY <1>c, <2>1 DEF Inv, StateInv, CallInv, Running
  <2>4. CASE Finish("locked")
    BY <2>2, <2>3, <2>4, CallMoves, IdleInv
  <2>5. CASE Goto("locked", "remove") /\ c.op = "cleanup"
    <3>1. call'["startup"] = Idle /\ c' = [c EXCEPT !.pc = "remove"]
      BY <2>5, CallMoves
    <3>2. /\ c'.op = c.op /\ c'.pc = "remove" /\ c'.slug = c.slug /\ c'.root = c.root
          /\ c'.term = c.term /\ c'.fallback = c.fallback
      BY <1>c, <3>1 DEF Calls
    <3>. QED
      BY <1>c, <2>1, <2>2, <2>3, <2>5, <3>1, <3>2 DEF CallInv, Stopping, Booting
  <2>. QED
    BY <1>3, <1>c, <2>4, <2>5 DEF Reveal
<1>4. CASE RemoveRoot("locked")
  <2>1. /\ c.pc = "remove" /\ Finish("locked")
        /\ UNCHANGED <<slugOf, seq, slugs, showing, starts, foreign, process, stopped, life>>
        /\ \E v : pidfile' = [pidfile EXCEPT ![c.slug] = v]
    BY <1>4, <1>c DEF RemoveRoot, registry
  <2>2. c.slug \notin foreign
    BY <1>c, <2>1 DEF CallInv
  <2>3. RegistryInv'
    BY <1>c, <2>1, <2>2 DEF Inv, RegistryInv, TypeOK
  <2>4. StateInv'
    BY <2>1 DEF Inv, StateInv, Running
  <2>. QED
    BY <2>1, <2>3, <2>4, CallMoves, IdleInv
<1>. QED
  BY <1>1, <1>2, <1>3, <1>4

\* The history is of sessions that were added.
LEMMA HistoryKept == ASSUME Inv, Next PROVE HistoryInv'
<1>. USE DEF states, kernel, disk, registry
<1>0. TypeOK /\ history \in Seq(Known) /\ history \in Seq(Term)
  BY DEF Inv, HistoryInv, TypeOK
<1>1. \A a \in Actor : Step(a) => a = "locked" /\ CallInv
  BY OnlyLocked DEF Inv
<1>2. Known \subseteq Known'
  <2>1. CASE UNCHANGED <<seq, slugOf>>
    BY <2>1 DEF Known
  <2>2. CASE Add("locked") /\ seq < MaxBoots
    <3>1. seq \in 0..MaxBoots /\ seq' = seq + 1 /\ \E s : slugOf' = [slugOf EXCEPT ![seq + 1] = s]
      BY <1>0, <2>2 DEF Add, TypeOK
    <3>2. \A t \in Known : t <= seq' /\ slugOf'[t] = slugOf[t]
      BY <1>0, <3>1, MaxBootsAssumption DEF Known, TypeOK, Term
    <3>. QED
      BY <3>2 DEF Known
  <2>3. CASE Add("locked") /\ ~(seq < MaxBoots)
    BY <2>1, <2>3 DEF Add
  <2>4. CASE ~Add("locked")
    BY <1>1, <2>1, <2>4 DEF Next, Step, Show, Reload, Unload, Cleanup, CreateSession, Adopt, ForeignExits,
       Stop, Reap, Forget, Unregister, NextInactive, Root, Check, Serve, Record, Drop, Reveal, RemoveRoot,
       Retire, PageLookup, PageStart, WritePid, Exit, ChildExited, QuitStop, Poll, QuitBegin, QuitReap, QuitEnd
  <2>. QED
    BY <2>2, <2>3, <2>4
<1>3. \A h : h \in Seq(Known) => h \in Seq(Known')
  BY <1>2, SeqMonotonic
<1>4. CASE UNCHANGED history
  BY <1>0, <1>3, <1>4 DEF HistoryInv
<1>5. CASE Forget("locked") \/ Drop("locked")
  <2>1. history' = Without(history, c.term)
    BY <1>5 DEF Forget, Drop, Unregister, c
  <2>2. history' \in Seq(Known)
    BY <1>0, <2>1, WithoutType
  <2>. QED
    BY <1>3, <2>2 DEF HistoryInv
<1>6. CASE Reveal("locked") /\ c.term # NoTerm /\ history' = Append(Without(history, c.term), c.term)
  <2>1. c.term \in Known
    BY <1>6, CallMoves DEF Reveal, Inv, CallInv, Calls, Known, c
  <2>2. history' \in Seq(Known)
    BY <1>0, <1>6, <2>1, WithoutType, AppendProperties
  <2>. QED
    BY <1>3, <2>2 DEF HistoryInv
<1>7. CASE Next /\ ~(Forget("locked") \/ Drop("locked") \/ Reveal("locked"))
  <2>. QED
    BY <1>1, <1>4, <1>7 DEF Next, Step, Show, Reload, Unload, Cleanup, CreateSession, Adopt, ForeignExits,
       Stop, Reap, NextInactive, Root, Check, Add, Serve, Record, RemoveRoot,
       Retire, PageLookup, PageStart, WritePid, Exit, ChildExited, QuitStop, Poll, QuitBegin, QuitReap, QuitEnd
<1>. QED
  BY <1>4, <1>5, <1>6, <1>7 DEF Reveal, c

-----------------------------------------------------------------------------
(* The theorems.                                                            *)

LEMMA Inductive == Inv /\ [Next]_vars => Inv'
<1>. SUFFICES ASSUME Inv, [Next]_vars PROVE Inv'
  OBVIOUS
<1>1. CASE \E a \in Actor : Step(a)
  <2>1. Step("locked")
    BY <1>1, OnlyLocked
  <2>2. Next
    BY <1>1 DEF Next
  <2>3. /\ call["locked"].pc \in {"stop", "reap", "forget", "drop"} => call["locked"].term # NoTerm
        /\ call["locked"].pc = "forget" => call["locked"].op \in {"show", "reload", "unload", "cleanup", "retire"}
    BY DEF Inv, CallInv, Stopping, Booting, c
  <2>4. TypeOK'
    BY <2>1, <2>3, StepsType DEF Inv, Actor
  <2>5. RegistryInv' /\ StateInv' /\ CallInv'
    BY <2>1, RecycleInv, BootInv, RevealingInv DEF Step
  <2>. QED
    BY <2>2, <2>4, <2>5, HistoryKept DEF Inv
<1>2. CASE Next /\ ~\E a \in Actor : Step(a)
  <2>1. TypeOK'
    BY <1>2, OutsideType DEF Inv
  <2>2. RegistryInv' /\ StateInv' /\ CallInv'
    BY <1>2, EntryInv, OutsideInv, OthersInv DEF Next
  <2>. QED
    BY <1>2, <2>1, <2>2, HistoryKept DEF Inv
<1>3. CASE UNCHANGED vars
  <2>1. UNCHANGED <<call, c>>
    BY <1>3 DEF vars, c
  <2>2. RegistryInv' /\ StateInv'
    BY <1>3, UnchangedInv DEF vars, states, kernel, disk
  <2>3. TypeOK' /\ CallInv' /\ HistoryInv'
    BY <1>3, <2>1 DEF Inv, TypeOK, CallInv, HistoryInv, Known, vars, registry, states, kernel, disk
  <2>. QED
    BY <2>2, <2>3 DEF Inv
<1>. QED
  BY <1>1, <1>2, <1>3

LEMMA Invariance == Startup = NoSlug => (Spec => []Inv)
  BY InitInv, Inductive, PTL DEF Spec

\* Every variable keeps its type.
THEOREM TypeCorrect == Startup = NoSlug => (Spec => []TypeOK)
<1>1. Inv => TypeOK
  BY DEF Inv
<1>. QED
  BY <1>1, Invariance, PTL

\* No two supervisors run on one session directory, nor one beside a supervisor
\* that an earlier workbench left running there, when the workbench is not started
\* on a session: showMu is then enough.
THEOREM OneSupervisorEach == Startup = NoSlug => (Spec => []OneSupervisor)
<1>1. Inv => OneSupervisor
  BY Names DEF Inv, RegistryInv, StateInv, OneSupervisor
<1>. QED
  BY <1>1, Invariance, PTL

-----------------------------------------------------------------------------
(* Listeners.                                                               *)

\* A listener that is bound and not yet recorded, or taken for closing, is in the
\* hands of who will close it; one that is recorded belongs to a state that runs.
ListenerInv ==
    \A t \in Term :
        /\ listener[t] = "held" => t \notin stopped
        /\ listener[t] = "bound" => c.term = t /\ c.pc = "record"
        /\ listener[t] = "closing" => \/ quit.term = t /\ "control" \in quit.grip
                                      \/ c.term = t /\ c.pc = "reap" /\ "control" \in c.grip

\* A step that leaves listeners, and whose caller has none in hand, changes nothing.
LEMMA ListenerKept ==
    ASSUME ListenerInv, UNCHANGED <<listener, stopped, quit.term, quit.grip>>,
           UNCHANGED call \/ c.pc \notin {"record", "reap"}
    PROVE  ListenerInv'
  BY DEF ListenerInv, c

\* showMu's holder stops a state, waits for it and serves the next.
LEMMA StepListener ==
    ASSUME Inv, ListenerInv, Step("locked")
    PROVE  ListenerInv'
<1>. USE DEF registry, states, kernel, disk
<1>0. TypeOK /\ call["locked"] = c /\ "locked" \in Actor /\ c \in Calls
  BY DEF Inv, TypeOK, c, Actor
<1>1. CASE Stop("locked")
  <2>1. c.pc = "stop" /\ c.term \in Term
    BY <1>0, <1>1, Names DEF Stop, Inv, CallInv, Stopping, Calls
  <2>2. c'.term = c.term /\ c'.pc = "reap" /\ c'.grip = Grip(c.term)
    BY <1>0, <1>1 DEF Stop, c, TypeOK, Calls
  <2>. QED
    BY <1>0, <1>1, <2>1, <2>2 DEF Stop, StopMark, Grip, ListenerInv, TypeOK, c
<1>2. CASE Reap("locked")
  <2>1. c.pc = "reap" /\ c.term \in Term
    BY <1>0, <1>2, Names DEF Reap, Inv, CallInv, Stopping, Calls
  <2>. QED
    BY <1>0, <1>2, <2>1 DEF Reap, StopReap, ListenerInv, TypeOK, c
<1>3. CASE Serve("locked")
  <2>1. c.pc = "serve" /\ c.term \in Term
    BY <1>0, <1>3, Names DEF Serve, Inv, CallInv, Booting, Calls
  <2>2. c'.term = c.term /\ c'.pc \in {"record", "drop"}
        /\ (listener' # listener => c'.pc = "record" /\ listener' = [listener EXCEPT ![c.term] = "bound"])
    BY <1>0, <1>3 DEF Serve, Goto, c, TypeOK, Calls
  <2>. QED
    BY <1>0, <1>3, <2>1, <2>2 DEF Serve, ListenerInv, TypeOK
<1>4. CASE Record("locked")
  <2>1. c.pc = "record" /\ c.term \in Term
    BY <1>0, <1>4, Names DEF Record, Inv, CallInv, Booting, Calls
  <2>. QED
    BY <1>0, <1>4, <2>1 DEF Record, ListenerInv, TypeOK, c
<1>5. CASE \/ Forget("locked") \/ NextInactive("locked") \/ Root("locked") \/ Check("locked")
           \/ Add("locked") \/ Drop("locked") \/ Reveal("locked") \/ RemoveRoot("locked")
  <2>1. UNCHANGED <<listener, stopped>> /\ c.pc \notin {"record", "reap"}
    BY <1>0, <1>5 DEF Forget, NextInactive, Root, Check, Add, Drop, Reveal, RemoveRoot
  <2>2. quit' \in {quit, [quit EXCEPT !.phase = "done"]}
    BY <1>5 DEF Forget, NextInactive, Root, Check, Add, Drop, Reveal, RemoveRoot, Failed
  <2>3. UNCHANGED <<quit.term, quit.grip>>
    BY <1>0, <2>2 DEF TypeOK
  <2>. QED
    BY <2>1, <2>3, ListenerKept
<1>. QED
  BY <1>1, <1>2, <1>3, <1>4, <1>5 DEF Step

\* The quit handler stops what it found, next to whoever holds showMu.
LEMMA OutsideListener ==
    ASSUME Inv, ListenerInv, Next, ~\E a \in Actor : Step(a)
    PROVE  ListenerInv'
<1>. USE DEF registry, states, kernel, disk
<1>0. TypeOK /\ call["locked"] = c
  BY DEF Inv, c
<1>1. CASE \E t \in Term : QuitStop(t)
  <2>1. PICK t \in Term : QuitStop(t)
    BY <1>1
  <2>2. quit'.term = t /\ quit'.grip = Grip(t) /\ c' = c /\ quit.term = NoTerm
    BY <1>0, <2>1 DEF QuitStop, TypeOK, c
  <2>. QED
    BY <1>0, <2>1, <2>2, Names DEF QuitStop, StopMark, Grip, ListenerInv, TypeOK
<1>2. CASE QuitReap
  <2>1. c' = c /\ quit.term \in Term
    BY <1>0, <1>2 DEF QuitReap, TypeOK, c
  <2>. QED
    BY <1>0, <1>2, <2>1 DEF QuitReap, StopReap, ListenerInv, TypeOK
<1>3. CASE \/ \E s \in Slug : Show(s) \/ Reload(s) \/ Unload(s) \/ Cleanup(s) \/ Adopt(s)
           \/ \E t \in Term : Retire(t)
  <2>1. UNCHANGED <<listener, stopped, quit>> /\ call["locked"] = Idle
    BY <1>3 DEF Show, Reload, Unload, Cleanup, Adopt, Retire, Free
  <2>. QED
    BY <1>0, <2>1, ListenerKept DEF Idle
<1>4. CASE \/ Poll \/ QuitBegin \/ QuitEnd \/ \E s \in Slug : CreateSession(s) \/ ForeignExits(s)
           \/ \E t \in Term : PageLookup(t) \/ PageStart(t) \/ WritePid(t) \/ Exit(t) \/ ChildExited(t)
  <2>1. UNCHANGED <<listener, stopped, call>>
        /\ quit' \in {quit, [quit EXCEPT !.phase = "done"], [quit EXCEPT !.phase = "stopping", !.left = terms]}
    BY <1>4 DEF Poll, QuitBegin, QuitEnd, CreateSession, ForeignExits, PageLookup, PageStart, WritePid,
                Exit, ChildExited
  <2>2. UNCHANGED <<quit.term, quit.grip>>
    BY <1>0, <2>1 DEF TypeOK
  <2>. QED
    BY <2>1, <2>2, ListenerKept
<1>. QED
  BY <1>1, <1>2, <1>3, <1>4 DEF Next

LEMMA ListenerInductive == Inv /\ ListenerInv /\ [Next]_vars => ListenerInv'
<1>. SUFFICES ASSUME Inv, ListenerInv, [Next]_vars PROVE ListenerInv'
  OBVIOUS
<1>1. CASE \E a \in Actor : Step(a)
  BY <1>1, OnlyLocked, StepListener
<1>2. CASE Next /\ ~\E a \in Actor : Step(a)
  BY <1>2, OutsideListener
<1>3. CASE UNCHANGED vars
  BY <1>3, ListenerKept DEF vars, states
<1>. QED
  BY <1>1, <1>2, <1>3

\* No listener is left open: whatever the quit handler and showMu's holder do to a
\* session at the same time, one that is stopped has its listener closed, or somebody
\* is on the way to closing it (sessionState.stop and serve).
THEOREM ListenersAreClosed == Startup = NoSlug => (Spec => []ListenersClosed)
<1>1. Init => ListenerInv
  BY DEF Init, ListenerInv
<1>2. Inv /\ ListenerInv => ListenersClosed
  BY DEF Inv, TypeOK, ListenerInv, ListenersClosed, c, Actor
<1>. QED
  BY <1>1, <1>2, ListenerInductive, Invariance, PTL DEF Spec

-----------------------------------------------------------------------------
(* The registry implements SessionSlots.  A supervisor takes a slot when the  *)
(* page starts it, and gives it up when it exits or stop() signals it; every  *)
(* other step of the registry leaves the slots as they are.                  *)

\* A supervisor that was started belongs to a state that holds it or was stopped.
Started == \A t \in Term : life[t] # "none" => t \in process \cup stopped

LEMMA StartedInit == Init => Started
  BY DEF Init, Started

LEMMA StartedInductive == Inv /\ Started /\ [Next]_vars => Started'
<1>. SUFFICES ASSUME Inv, Started, [Next]_vars PROVE Started'
  OBVIOUS
<1>. USE DEF registry, states, kernel, disk, Started
<1>0. TypeOK
  BY DEF Inv
<1>1. ASSUME NEW t, StopMark(t) PROVE Started'
  BY <1>0, <1>1 DEF StopMark, TypeOK
<1>2. ASSUME NEW t, NEW grip, StopReap(t, grip), UNCHANGED <<process, stopped>> PROVE Started'
  BY <1>0, <1>2 DEF StopReap, TypeOK
<1>3. CASE \E a \in Actor : Step(a)
  <2>1. Step("locked")
    BY <1>3, OnlyLocked
  <2>2. CASE Stop("locked")
    BY <1>1, <2>2 DEF Stop
  <2>3. CASE Reap("locked")
    BY <1>2, <2>3 DEF Reap
  <2>4. CASE UNCHANGED <<life, process, stopped>>
    BY <2>4
  <2>. QED
    BY <2>1, <2>2, <2>3, <2>4
       DEF Step, Forget, NextInactive, Root, Check, Add, Serve, Record, Drop, Reveal, RemoveRoot
<1>4. ASSUME NEW t \in Term, Retire(t) \/ PageLookup(t) \/ PageStart(t) \/ WritePid(t) \/ ChildExited(t)
      PROVE Started'
  BY <1>0, <1>4 DEF Retire, PageLookup, PageStart, WritePid, ChildExited, TypeOK
<1>5. ASSUME NEW t \in Term, Exit(t) PROVE Started'
  BY <1>0, <1>5 DEF Exit, Running, TypeOK
<1>6. ASSUME NEW t \in Term, QuitStop(t) PROVE Started'
  BY <1>1, <1>6 DEF QuitStop
<1>7. CASE QuitReap
  BY <1>2, <1>7 DEF QuitReap
<1>8. CASE UNCHANGED <<life, process, stopped>>
  BY <1>8
<1>. QED
  BY <1>3, <1>4, <1>5, <1>6, <1>7, <1>8 DEF Next, vars, Poll, QuitBegin, QuitEnd,
     Show, Reload, Unload, Cleanup, CreateSession, Adopt, ForeignExits

-----------------------------------------------------------------------------
(* Who holds a slot.                                                        *)

\* What Owner comes to, with one supervisor to a session.
OwnerIs ==
    \A s \in Slug :
        /\ s \in foreign => Owner[s] = Foreign
        /\ \A t \in Term : Running(t) /\ slugOf[t] = s => Owner[s] = t
        /\ s \notin foreign /\ (\A t \in Term : Running(t) => slugOf[t] # s) => Owner[s] = NoTerm

LEMMA OwnerFacts == Inv => OneSupervisor /\ OwnerIs
<1>. SUFFICES ASSUME Inv PROVE OneSupervisor /\ OwnerIs
  OBVIOUS
<1>1. OneSupervisor
  BY Names DEF Inv, RegistryInv, StateInv, OneSupervisor
<1>2. ASSUME NEW s \in Slug, NEW t \in Term, Running(t), slugOf[t] = s PROVE Owner[s] = t
  <2>1. s \notin foreign /\ \A u \in Term : Running(u) /\ slugOf[u] = s <=> u = t
    BY <1>1, <1>2 DEF OneSupervisor
  <2>2. \E u \in Term : Running(u) /\ slugOf[u] = s
    BY <1>2
  <2>3. (CHOOSE u \in Term : Running(u) /\ slugOf[u] = s) = t
    BY <2>1, <2>2
  <2>. QED
    BY <2>1, <2>2, <2>3 DEF Owner
<1>. QED
  BY <1>1, <1>2 DEF OwnerIs, Owner

LEMMA OwnerNext == Inv' => OneSupervisor' /\ OwnerIs'
  BY OwnerFacts, PTL

\* A step that starts and ends no supervisor leaves the slots alone.
LEMMA Same ==
    ASSUME Inv, Inv', foreign' = foreign,
           \A t \in Term : /\ Running(t)' <=> Running(t)
                           /\ Running(t) => slugOf'[t] = slugOf[t]
                           /\ life'[t] # "none" <=> life[t] # "none"
    PROVE  UNCHANGED <<Owner, Spent>>
<1>1. Spent' = Spent
  BY DEF Spent
<1>2. ASSUME NEW s \in Slug PROVE Owner'[s] = Owner[s]
  <2>1. CASE s \in foreign
    BY <2>1, OwnerFacts, OwnerNext DEF OwnerIs
  <2>2. CASE \E t \in Term : Running(t) /\ slugOf[t] = s
    BY <2>2, OwnerFacts, OwnerNext DEF OwnerIs
  <2>3. CASE s \notin foreign /\ \A t \in Term : Running(t) => slugOf[t] # s
    BY <2>3, OwnerFacts, OwnerNext DEF OwnerIs
  <2>. QED
    BY <2>1, <2>2, <2>3
<1>. QED
  BY <1>1, <1>2 DEF Owner

\* A step that ends one supervisor gives its slot up.
LEMMA Gone ==
    ASSUME Inv, Inv', UNCHANGED <<foreign, slugOf>>, NEW t \in Term, Running(t), ~Running(t)',
           life'[t] # "none",
           \A u \in Term \ {t} : (Running(u)' <=> Running(u)) /\ (life'[u] # "none" <=> life[u] # "none")
    PROVE  Slots!Release(slugOf[t])
<1>. DEFINE s == slugOf[t]
<1>1. s \in Slug /\ Owner[s] = t /\ t # NoTerm /\ t # Foreign
  BY OwnerFacts, Names DEF OwnerIs, Inv, StateInv, Running
<1>2. \A u \in Term : Running(u) /\ slugOf[u] = s => u = t
  BY OwnerFacts DEF OneSupervisor
<1>3. s \notin foreign
  BY OwnerFacts DEF OneSupervisor
<1>4. Owner'[s] = NoTerm
  <2>1. \A u \in Term : Running(u)' => slugOf'[u] # s
    BY <1>2
  <2>. QED
    BY <1>1, <1>3, <2>1, OwnerNext DEF OwnerIs
<1>5. ASSUME NEW r \in Slug, r # s PROVE Owner'[r] = Owner[r]
  <2>1. CASE r \in foreign
    BY <2>1, OwnerFacts, OwnerNext DEF OwnerIs
  <2>2. CASE \E u \in Term : Running(u) /\ slugOf[u] = r
    BY <1>5, <2>2, OwnerFacts, OwnerNext DEF OwnerIs
  <2>3. CASE r \notin foreign /\ \A u \in Term : Running(u) => slugOf[u] # r
    <3>1. \A u \in Term : Running(u)' => slugOf'[u] # r
      BY <2>3
    <3>. QED
      BY <2>3, <3>1, OwnerFacts, OwnerNext DEF OwnerIs
  <2>. QED
    BY <2>1, <2>2, <2>3
<1>6. Owner' = [Owner EXCEPT ![s] = NoTerm]
  <2>. HIDE DEF s
  <2>. QED
    BY <1>1, <1>4, <1>5 DEF Owner
<1>7. Spent' = Spent \cup ({Owner[s]} \ {Foreign})
  <2>1. \A u \in Term : u \in Spent' <=> u \in Spent \/ u = t
    BY DEF Spent
  <2>. QED
    BY <1>1, <2>1 DEF Spent
<1>. QED
  BY <1>1, <1>6, <1>7 DEF Slots!Release

\* The page starts a supervisor: it takes the slot of its session.
LEMMA Came ==
    ASSUME Inv, Inv', Started, NEW t \in Term, PageStart(t), t \notin process, t \notin stopped,
           life' = [life EXCEPT ![t] = "forked"], process' = process \cup {t}
    PROVE  Slots!Take(slugOf[t], t)
<1>. DEFINE s == slugOf[t]
<1>0. TypeOK /\ UNCHANGED <<foreign, slugOf, slugs>>
  BY DEF Inv, PageStart, registry
<1>1. life[t] = "none" /\ life'[t] = "forked" /\ \A u \in Term \ {t} : life'[u] = life[u]
  BY <1>0 DEF Started, TypeOK
<1>2. s \in Slug /\ slugs[s] = t /\ t # NoTerm /\ t # Foreign
  BY <1>0, Names DEF Inv, StateInv, PageStart
<1>3. s \notin foreign
  BY <1>2 DEF Inv, RegistryInv
<1>4. ~Running(t) /\ Running(t)' /\ \A u \in Term \ {t} : Running(u)' <=> Running(u)
  BY <1>1 DEF Running
<1>5. \A u \in Term : Running(u) => slugOf[u] # s
  BY <1>2, <1>4 DEF Inv, StateInv
<1>6. Owner[s] = NoTerm /\ Owner'[s] = t
  BY <1>0, <1>2, <1>3, <1>4, <1>5, OwnerFacts, OwnerNext DEF OwnerIs
<1>7. ASSUME NEW r \in Slug, r # s PROVE Owner'[r] = Owner[r] /\ Owner[r] # t
  <2>1. CASE r \in foreign
    BY <1>0, <1>2, <2>1, OwnerFacts, OwnerNext DEF OwnerIs
  <2>2. CASE \E u \in Term : Running(u) /\ slugOf[u] = r
    BY <1>0, <1>4, <2>2, OwnerFacts, OwnerNext DEF OwnerIs
  <2>3. CASE r \notin foreign /\ \A u \in Term : Running(u) => slugOf[u] # r
    <3>1. \A u \in Term : Running(u)' => slugOf'[u] # r
      BY <1>0, <1>4, <1>7, <2>3
    <3>. QED
      BY <1>0, <1>2, <2>3, <3>1, OwnerFacts, OwnerNext DEF OwnerIs
  <2>. QED
    BY <2>1, <2>2, <2>3
<1>8. Owner' = [Owner EXCEPT ![s] = t]
  BY <1>2, <1>6, <1>7 DEF Owner
<1>9. Spent' = Spent /\ t \notin Spent
  BY <1>1, <1>4 DEF Spent
<1>. QED
  BY <1>2, <1>6, <1>7, <1>8, <1>9 DEF Slots!Take

\* A supervisor an earlier workbench left behind goes: so does its hold.
LEMMA ForeignGone ==
    ASSUME Inv, Inv', NEW s \in Slug, ForeignExits(s)
    PROVE  Slots!Release(s)
<1>1. s \in foreign /\ foreign' = foreign \ {s} /\ UNCHANGED <<slugOf, life>>
  BY DEF ForeignExits, registry
<1>2. \A t \in Term : Running(t)' <=> Running(t)
  BY <1>1 DEF Running
<1>3. Owner[s] = Foreign /\ Foreign # NoTerm
  BY <1>1, OwnerFacts, MaxBootsAssumption DEF OwnerIs, Foreign, NoTerm
<1>4. Owner'[s] = NoTerm
  BY <1>1, <1>2, OwnerFacts, OwnerNext DEF OwnerIs, OneSupervisor
<1>5. ASSUME NEW r \in Slug, r # s PROVE Owner'[r] = Owner[r]
  <2>1. CASE r \in foreign
    BY <1>1, <1>5, <2>1, OwnerFacts, OwnerNext DEF OwnerIs
  <2>2. CASE \E u \in Term : Running(u) /\ slugOf[u] = r
    BY <1>1, <1>2, <2>2, OwnerFacts, OwnerNext DEF OwnerIs
  <2>3. CASE r \notin foreign /\ \A u \in Term : Running(u) => slugOf[u] # r
    <3>1. \A u \in Term : Running(u)' => slugOf'[u] # r
      BY <1>1, <1>2, <2>3
    <3>. QED
      BY <1>1, <2>3, <3>1, OwnerFacts, OwnerNext DEF OwnerIs
  <2>. QED
    BY <2>1, <2>2, <2>3
<1>6. Owner' = [Owner EXCEPT ![s] = NoTerm]
  BY <1>4, <1>5 DEF Owner
<1>7. Spent' = Spent
  BY <1>1, <1>2 DEF Spent
<1>. QED
  BY <1>3, <1>6, <1>7 DEF Slots!Release

-----------------------------------------------------------------------------
(* Every step.                                                              *)

\* stop() ends the supervisor it finds running, and no other.
LEMMA StopsOne ==
    ASSUME Inv, Inv', NEW t \in Term, StopMark(t), UNCHANGED <<foreign, slugOf>>
    PROVE  [Slots!Next]_<<Owner, Spent>>
<1>0. TypeOK
  BY DEF Inv
<1>1. CASE t \in process /\ Running(t)
  <2>1. life' = [life EXCEPT ![t] = "signalled"]
    BY <1>1 DEF StopMark
  <2>2. /\ ~Running(t)' /\ life'[t] # "none"
        /\ \A u \in Term \ {t} : (Running(u)' <=> Running(u)) /\ (life'[u] # "none" <=> life[u] # "none")
    BY <1>0, <2>1 DEF TypeOK, Running
  <2>3. Slots!Release(slugOf[t]) /\ slugOf[t] \in Slug
    BY <1>1, <2>2, Gone DEF Inv, StateInv
  <2>. QED
    BY <2>3 DEF Slots!Next
<1>2. CASE ~(t \in process /\ Running(t))
  <2>1. life' = life
    BY <1>0, <1>2 DEF StopMark, TypeOK
  <2>. QED
    BY <2>1, Same DEF Running
<1>. QED
  BY <1>1, <1>2

LEMMA StepSimulates ==
    Inv /\ Inv' /\ Started /\ [Next]_vars => [Slots!Next]_<<Owner, Spent>>
<1>. SUFFICES ASSUME Inv, Inv', Started, [Next]_vars PROVE [Slots!Next]_<<Owner, Spent>>
  OBVIOUS
<1>. USE DEF registry, states, kernel, disk
<1>0. TypeOK
  BY DEF Inv
<1>1. CASE UNCHANGED <<life, slugOf, foreign>>
  BY <1>1, Same DEF Running
<1>2. ASSUME NEW t \in Term, NEW v, life' = [life EXCEPT ![t] = v],
             ~Running(t), life[t] # "none", v \notin {"none", "forked", "up"}, UNCHANGED <<slugOf, foreign>>
      PROVE  UNCHANGED <<Owner, Spent>>
  BY <1>0, <1>2, Same DEF Running, TypeOK
<1>3. CASE \E a \in Actor : Step(a)
  <2>1. Step("locked")
    BY <1>3, OnlyLocked
  <2>2. CASE Stop("locked")
    <3>1. c.term \in Term
      BY <2>2, CallMoves DEF Stop, Inv, CallInv, Stopping, Calls, c
    <3>. QED
      BY <2>2, <3>1, StopsOne DEF Stop, c
  <2>3. CASE Reap("locked")
    <3>1. PICK grip : StopReap(c.term, grip)
      BY <2>3 DEF Reap, c
    <3>2. c.term \in Term
      BY <2>3, CallMoves DEF Reap, Inv, CallInv, Stopping, Calls, c
    <3>3. \A t \in Term : (Running(t)' <=> Running(t)) /\ (life'[t] # "none" <=> life[t] # "none")
      BY <1>0, <3>1, <3>2 DEF StopReap, TypeOK, Running
    <3>. QED
      BY <2>3, <3>3, Same DEF Reap
  <2>4. CASE Add("locked")
    <3>1. \A t \in Term : Running(t) => slugOf'[t] = slugOf[t]
      <4>1. \A t \in Term : Running(t) => t <= seq
        BY DEF Inv, StateInv, Running
      <4>2. slugOf' = slugOf \/ \E s : slugOf' = [slugOf EXCEPT ![seq + 1] = s]
        BY <2>4 DEF Add
      <4>3. \A t \in Term : t <= seq => t # seq + 1
        BY <1>0, MaxBootsAssumption DEF TypeOK, Term
      <4>. QED
        BY <1>0, <4>1, <4>2, <4>3 DEF TypeOK
    <3>2. life' = life /\ foreign' = foreign
      BY <2>4 DEF Add
    <3>. QED
      BY <3>1, <3>2, Same DEF Running
  <2>. QED
    BY <1>1, <2>1, <2>2, <2>3, <2>4
       DEF Step, Forget, Unregister, NextInactive, Root, Check, Serve, Record, Drop, Reveal, RemoveRoot
<1>4. ASSUME NEW t \in Term, PageStart(t) PROVE [Slots!Next]_<<Owner, Spent>>
  <2>1. CASE UNCHANGED life
    BY <1>1, <1>4, <2>1 DEF PageStart
  <2>2. CASE t \notin stopped \cup process /\ process' = process \cup {t} /\ life' = [life EXCEPT ![t] = "forked"]
    <3>1. Slots!Take(slugOf[t], t)
      BY <1>4, <2>2, Came
    <3>2. slugOf[t] \in Slug
      BY <1>0, <1>4, Names DEF PageStart, Inv, StateInv
    <3>. QED
      BY <3>1, <3>2 DEF Slots!Next
  <2>. QED
    BY <1>4, <2>1, <2>2 DEF PageStart
<1>5. ASSUME NEW t \in Term, Exit(t) PROVE [Slots!Next]_<<Owner, Spent>>
  <2>1. Running(t) /\ UNCHANGED <<foreign, slugOf>> /\ \E v \in {"clean", "failed"} : life' = [life EXCEPT ![t] = v]
    BY <1>5 DEF Exit
  <2>2. /\ ~Running(t)' /\ life'[t] # "none"
        /\ \A u \in Term \ {t} : (Running(u)' <=> Running(u)) /\ (life'[u] # "none" <=> life[u] # "none")
    BY <1>0, <2>1 DEF TypeOK, Running
  <2>3. Slots!Release(slugOf[t]) /\ slugOf[t] \in Slug
    BY <2>1, <2>2, Gone DEF Inv, StateInv, Running
  <2>. QED
    BY <2>3 DEF Slots!Next
<1>6. ASSUME NEW t \in Term, WritePid(t) PROVE UNCHANGED <<Owner, Spent>>
  <2>1. \A u \in Term : (Running(u)' <=> Running(u)) /\ (life'[u] # "none" <=> life[u] # "none")
    BY <1>0, <1>6 DEF WritePid, Running, TypeOK
  <2>. QED
    BY <1>6, <2>1, Same DEF WritePid
<1>7. ASSUME NEW t \in Term, Retire(t) \/ ChildExited(t) PROVE UNCHANGED <<Owner, Spent>>
  <2>1. PICK v \in {"ended", "retiring"} : life' = [life EXCEPT ![t] = v]
    BY <1>7 DEF Retire, ChildExited
  <2>. QED
    BY <1>2, <1>7, <2>1 DEF Retire, ChildExited, Running
<1>8. ASSUME NEW t \in Term, QuitStop(t) PROVE [Slots!Next]_<<Owner, Spent>>
  BY <1>8, StopsOne DEF QuitStop
<1>9. CASE QuitReap
  <2>1. quit.term \in Term /\ StopReap(quit.term, quit.grip)
    BY <1>0, <1>9 DEF QuitReap, TypeOK
  <2>2. \A t \in Term : (Running(t)' <=> Running(t)) /\ (life'[t] # "none" <=> life[t] # "none")
    BY <1>0, <2>1 DEF StopReap, TypeOK, Running
  <2>. QED
    BY <1>9, <2>2, Same DEF QuitReap
<1>10. ASSUME NEW s \in Slug, ForeignExits(s) PROVE [Slots!Next]_<<Owner, Spent>>
  BY <1>10, ForeignGone DEF Slots!Next
<1>11. CASE UNCHANGED vars
  BY <1>1, <1>11 DEF vars
<1>12. ASSUME NEW s \in Slug, Show(s) \/ Reload(s) \/ Unload(s) \/ Cleanup(s) \/ CreateSession(s) \/ Adopt(s)
       PROVE  UNCHANGED <<life, slugOf, foreign>>
  BY <1>12 DEF Show, Reload, Unload, Cleanup, CreateSession, Adopt
<1>13. ASSUME \/ Poll \/ QuitBegin \/ QuitEnd
              \/ \E t \in Term : PageLookup(t)
       PROVE  UNCHANGED <<life, slugOf, foreign>>
  BY <1>13 DEF Poll, QuitBegin, QuitEnd, PageLookup
<1>. QED
  BY <1>1, <1>3, <1>4, <1>5, <1>6, <1>7, <1>8, <1>9, <1>10, <1>11, <1>12, <1>13 DEF Next

LEMMA InitSimulates == Startup = NoSlug /\ Init => Slots!Init
<1>. SUFFICES ASSUME Startup = NoSlug, Init PROVE Slots!Init
  OBVIOUS
<1>1. \A t \in Term : ~Running(t) /\ life[t] = "none"
  BY DEF Init, Running
<1>. QED
  BY <1>1 DEF Slots!Init, Owner, Spent

\* The supervisors the registry runs hold their sessions' slots one at a time,
\* give a slot up only by ending, and never come back to one.
THEOREM Implements == Startup = NoSlug => (Spec => ImplementsSlots)
<1>1. Startup = NoSlug /\ Spec => [](Inv /\ Started)
  <2>1. Inv /\ Started /\ [Next]_vars => (Inv /\ Started)'
    BY Inductive, StartedInductive
  <2>2. Startup = NoSlug /\ Init => Inv /\ Started
    BY InitInv, StartedInit
  <2>. QED
    BY <2>1, <2>2, PTL DEF Spec
<1>. QED
  BY <1>1, InitSimulates, StepSimulates, PTL DEF Spec, ImplementsSlots, Slots!Spec
-----------------------------------------------------------------------------
(* The window.                                                              *)

\* What has been on screen.
Seen == {history[i] : i \in DOMAIN history}

Registered(t) == slugs[slugOf[t]] = t

\* A session being booted, or about to be revealed.
Coming(t) == c.term = t /\ c.pc \in Booting \cup {"reveal"}

\* A supervisor that runs has its directory.
HousedInv == \A t \in Term : Running(t) => slugOf[t] \in dirs

\* The window is on a registered session, and so is the one about to be revealed.
ShownInv ==
    /\ \A s \in Slug : slugs[s] # NoTerm => slugs[s] \in terms
    /\ showing # NoTerm => Registered(showing)
    /\ c.pc = "reveal" /\ c.term # NoTerm => Registered(c.term)

\* Nobody answers for a session that is being cleaned up once it is forgotten, and
\* what is booted in its place is another one.
CleanInv ==
    /\ c.op = "cleanup" /\ c.pc \notin Stopping \cup {"done"} =>
          /\ slugs[c.slug] = NoTerm
          /\ c.pc \in {"check", "add"} \cup Booting => c.root # c.slug
    /\ c.pc = "root" => c.op = "show"
    /\ c.pc = "next" => c.emptied

\* Every registered session has been on screen or is on its way there, and an empty
\* window is one nobody is left for, or one that is about to be handed back.
HandInv ==
    /\ \A s \in Slug : slugs[s] # NoTerm => slugs[s] \in Seen \/ Coming(slugs[s])
    /\ showing # NoTerm => showing \in Seen
    /\ c.emptied /\ c.pc # "remove" => showing = NoTerm
    /\ c.pc = "reveal" /\ c.term = NoTerm => c.emptied /\ c.fallback = NoTerm
    /\ showing = NoTerm =>
          \/ \A s \in Slug : Alive(slugs[s]) => Coming(slugs[s])
          \/ c.emptied /\ c.fallback # NoTerm /\ c.pc \notin {"done", "remove"}

WindowInv == HousedInv /\ ShownInv /\ CleanInv /\ HandInv

\* without() takes nothing but the one session away.
LEMMA WithoutKeeps ==
    ASSUME NEW S, NEW h \in Seq(S), NEW t, NEW k \in DOMAIN h, h[k] # t
    PROVE  \E j \in DOMAIN Without(h, t) : Without(h, t)[j] = h[k]
<1>. DEFINE at == {i \in DOMAIN h : h[i] = t}
            i  == CHOOSE i \in at : TRUE
            f  == SubSeq(h, 1, i - 1)
            g  == SubSeq(h, i + 1, Len(h))
<1>1. CASE at = {}
  BY <1>1 DEF Without
<1>2. CASE at # {}
  <2>1. i \in 1..Len(h) /\ h[i] = t
    BY <1>2
  <2>2. Without(h, t) = f \o g
    BY <1>2 DEF Without
  <2>. HIDE DEF i
  <2>3. /\ Len(h) \in Nat /\ k \in 1..Len(h) /\ k # i
        /\ i \in Int /\ k \in Int /\ 1 <= i /\ i <= Len(h) /\ k <= Len(h)
    BY <2>1
  <2>4. f \in Seq(S) /\ Len(f) = i - 1 /\ \A j \in 1..(i - 1) : f[j] = h[j]
    BY <2>1, <2>3, SubSeqProperties
  <2>5. g \in Seq(S) /\ Len(g) = Len(h) - i /\ \A j \in 1..(Len(h) - i) : g[j] = h[i + j]
    BY <2>1, <2>3, SubSeqProperties
  <2>6. /\ f \o g \in Seq(S) /\ Len(f \o g) = Len(f) + Len(g)
        /\ \A j \in 1..Len(f) + Len(g) : (f \o g)[j] = IF j <= Len(f) THEN f[j] ELSE g[j - Len(f)]
    BY <2>4, <2>5, ConcatProperties
  <2>. HIDE DEF f, g
  <2>7. DOMAIN (f \o g) = 1..(Len(h) - 1)
    BY <2>1, <2>3, <2>4, <2>5, <2>6
  <2>8. CASE k < i
    <3>1. k \in 1..(Len(h) - 1) /\ (f \o g)[k] = h[k]
      BY <2>1, <2>3, <2>4, <2>5, <2>6, <2>8
    <3>. QED
      BY <2>2, <2>7, <3>1
  <2>9. CASE k > i
    <3>1. k - 1 \in 1..(Len(h) - 1) /\ (f \o g)[k - 1] = g[k - 1 - (i - 1)]
      BY <2>1, <2>3, <2>4, <2>5, <2>6, <2>9
    <3>2. k - 1 - (i - 1) = k - i /\ k - i \in 1..(Len(h) - i) /\ i + (k - i) = k
      BY <2>3, <2>9
    <3>3. (f \o g)[k - 1] = h[k]
      BY <2>5, <3>1, <3>2
    <3>. QED
      BY <2>2, <2>7, <3>1, <3>3
  <2>. QED
    BY <2>1, <2>3, <2>8, <2>9
<1>. QED
  BY <1>1, <1>2

\* Among finitely many places one is the last.
LEMMA Earliest ==
    ASSUME NEW U, U \subseteq Nat, U # {}
    PROVE  \E u \in U : \A v \in U : u <= v
<1>1. \E u \in U : \A v \in U : ~ (<<v, u>> \in OpToRel(<, Nat))
  BY Zenon, NatLessThanWellFounded, WFMin
<1>2. PICK u \in U : \A v \in U : ~ (<<v, u>> \in OpToRel(<, Nat))
  BY Zenon, <1>1
<1>3. \A v \in U : ~ (v < u)
  BY <1>2 DEF OpToRel
<1>4. u \in Int /\ \A v \in U : v \in Int
  OBVIOUS
<1>5. \A v \in U : u <= v
  BY <1>3, <1>4
<1>. QED
  BY <1>5

LEMMA Latest ==
    ASSUME NEW n \in Nat, NEW T, T \subseteq 1..n, T # {}
    PROVE  \E x \in T : \A y \in T : y <= x
<1>. DEFINE U == {n - x : x \in T}
<1>1. \A x \in T : x \in Int /\ 1 <= x /\ x <= n
  OBVIOUS
<1>2. \A x \in T : n - x \in Nat
  BY <1>1
<1>3. U \subseteq Nat /\ U # {}
  BY <1>2
<1>4. PICK u \in U : \A v \in U : u <= v
  BY <1>3, Earliest
<1>5. PICK x \in T : u = n - x
  BY <1>4
<1>6. \A y \in T : n - y \in U
  OBVIOUS
<1>7. \A y \in T : n - x <= n - y
  BY <1>4, <1>5, <1>6
<1>. HIDE DEF U
<1>8. \A y \in T : y <= x
  BY <1>1, <1>7
<1>. QED
  BY <1>8

\* forget() falls back on nothing only when no registered session of the history lives.
LEMMA NobodyLeft ==
    ASSUME NEW h \in Seq(Term), LastAlive(h) = NoTerm, NEW k \in DOMAIN h,
           slugs'[slugOf[h[k]]] = h[k]
    PROVE  ~Alive(h[k])
<1>. DEFINE live == {i \in DOMAIN h : slugs'[slugOf[h[i]]] = h[i] /\ Alive(h[i])}
            last == {i \in live : \A j \in live : j <= i}
            i    == CHOOSE i \in last : TRUE
<1>1. LastAlive(h) = IF last = {} THEN NoTerm ELSE h[i]
  BY DEF LastAlive
<1>2. last = {}
  <2>1. SUFFICES ASSUME last # {} PROVE FALSE
    OBVIOUS
  <2>2. i \in last
    BY <2>1
  <2>3. h[i] \in Term
    BY <2>2
  <2>. QED
    BY <1>1, <2>1, <2>3, Names
<1>3. live = {}
  <2>1. SUFFICES ASSUME live # {} PROVE FALSE
    OBVIOUS
  <2>2. Len(h) \in Nat /\ live \subseteq 1..Len(h)
    OBVIOUS
  <2>. HIDE DEF live
  <2>3. PICK x \in live : \A y \in live : y <= x
    BY <2>1, <2>2, Latest
  <2>. QED
    BY <1>2, <2>3
<1>. QED
  BY <1>3

\* A state that was stopped, or whose supervisor exited, never lives again; and one
\* that runs was started in a directory that was there.
LEMMA Fades ==
    ASSUME Inv, Next
    PROVE  /\ stopped \subseteq stopped'
           /\ \A t \in Term : t \in process /\ t \notin stopped' /\ Exited(t)
                              => t \in process' /\ Exited(t)'
           /\ \A t \in Term : Running(t)' => Running(t) \/ (slugOf[t] \in dirs /\ dirs' = dirs /\ slugOf' = slugOf)
<1>. USE DEF registry, states, kernel, disk, Running, Exited
<1>0. TypeOK /\ (\A t \in Term : Running(t) => t \in process)
  BY DEF Inv, StateInv
<1>1. CASE UNCHANGED <<stopped, process, life>>
  BY <1>1
<1>2. ASSUME NEW t \in Term, StopMark(t), UNCHANGED <<slugOf, dirs>>
      PROVE  /\ stopped \subseteq stopped'
             /\ \A u \in Term : u \in process /\ u \notin stopped' /\ Exited(u)
                                => u \in process' /\ Exited(u)'
             /\ \A u \in Term : Running(u)' => Running(u)
  BY <1>0, <1>2 DEF StopMark, TypeOK
<1>3. ASSUME NEW t, NEW grip, StopReap(t, grip), UNCHANGED <<stopped, process>>
      PROVE  /\ stopped \subseteq stopped'
             /\ \A u \in Term : u \in process /\ u \notin stopped' /\ Exited(u)
                                => u \in process' /\ Exited(u)'
             /\ \A u \in Term : Running(u)' => Running(u)
  BY <1>0, <1>3 DEF StopReap, TypeOK
<1>4. ASSUME Stop("locked") \/ Reap("locked")
      PROVE  /\ stopped \subseteq stopped'
             /\ \A u \in Term : u \in process /\ u \notin stopped' /\ Exited(u)
                                => u \in process' /\ Exited(u)'
             /\ \A u \in Term : Running(u)' => Running(u)
  <2>1. c \in Calls
    BY <1>0 DEF TypeOK, c, Actor
  <2>2. c.pc \in Stopping
    BY <1>4 DEF c, Stop, Reap, Stopping
  <2>3. c.term \in Term
    BY <2>1, <2>2 DEF Inv, CallInv, Calls
  <2>. QED
    BY <1>2, <1>3, <1>4, <2>3 DEF Stop, Reap, c
<1>5. CASE \E t \in Term : QuitStop(t)
  BY <1>2, <1>5 DEF QuitStop
<1>6. CASE QuitReap
  BY <1>3, <1>6 DEF QuitReap
<1>7. CASE \E t \in Term : Retire(t) \/ WritePid(t) \/ Exit(t) \/ ChildExited(t)
  BY <1>0, <1>7 DEF Retire, WritePid, Exit, ChildExited, TypeOK
<1>8. CASE \E t \in Term : PageStart(t)
  BY <1>0, <1>8 DEF PageStart, TypeOK
<1>9. CASE Step("locked") /\ ~(Stop("locked") \/ Reap("locked"))
  BY <1>1, <1>9 DEF Step, Forget, NextInactive, Root, Check, Add, Serve, Record, Drop, Reveal, RemoveRoot
<1>10. CASE Poll \/ QuitBegin \/ QuitEnd \/ \E t \in Term : PageLookup(t)
  BY <1>1, <1>10 DEF Poll, QuitBegin, QuitEnd, PageLookup
<1>11. CASE \E s \in Slug : Show(s) \/ Reload(s) \/ Unload(s) \/ Cleanup(s)
                            \/ CreateSession(s) \/ Adopt(s) \/ ForeignExits(s)
  BY <1>1, <1>11 DEF Show, Reload, Unload, Cleanup, CreateSession, Adopt, ForeignExits
<1>. QED
  BY <1>4, <1>5, <1>6, <1>7, <1>8, <1>9, <1>10, <1>11, OnlyLocked DEF Next, Step

LEMMA AliveFades ==
    ASSUME Inv, Next, NEW s \in Slug, slugs'[s] = slugs[s], Alive(slugs[s])'
    PROVE  Alive(slugs[s])
<1>1. slugs[s] \in Term \cup {NoTerm}
  BY DEF Inv, TypeOK
<1>. QED
  BY <1>1, Fades DEF Alive

\* A directory is taken away only when nobody answers for its session.
LEMMA HousedKept == ASSUME Inv, WindowInv, Next PROVE HousedInv'
<1>. USE DEF registry, states, kernel, disk
<1>0. TypeOK /\ call["locked"] = c
  BY DEF Inv, c
<1>1. CASE RemoveRoot("locked")
  <2>1. /\ c.pc = "remove" /\ dirs \ {c.slug} \subseteq dirs'
        /\ UNCHANGED <<life, slugOf>>
    BY <1>0, <1>1 DEF RemoveRoot
  <2>2. slugs[c.slug] = NoTerm
    BY <2>1 DEF WindowInv, CleanInv, Inv, CallInv, Stopping
  <2>3. \A t \in Term : Running(t) => slugOf[t] \in dirs /\ slugs[slugOf[t]] = t
    BY DEF WindowInv, HousedInv, Inv, StateInv
  <2>4. \A t \in Term : Running(t) => slugOf[t] \in dirs'
    BY <2>1, <2>2, <2>3, Names
  <2>. QED
    BY <2>1, <2>4 DEF HousedInv, Running
<1>2. CASE Add("locked")
  <2>1. UNCHANGED <<life, dirs>> /\ seq \in 0..MaxBoots
        /\ (slugOf' = slugOf \/ \E s : slugOf' = [slugOf EXCEPT ![seq + 1] = s])
    BY <1>0, <1>2 DEF Add, TypeOK
  <2>2. \A t \in Term : Running(t) => t <= seq
    BY DEF Inv, StateInv, Running
  <2>3. \A t \in Term : Running(t) => slugOf'[t] = slugOf[t]
    BY <1>0, <2>1, <2>2, MaxBootsAssumption DEF TypeOK, Term
  <2>. QED
    BY <2>1, <2>3 DEF WindowInv, HousedInv, Running
<1>3. CASE ~RemoveRoot("locked") /\ ~Add("locked")
  <2>1. CASE Step("locked")
    <3>1. dirs' = dirs /\ slugOf' = slugOf
      BY <1>3, <2>1 DEF Step, Stop, Reap, Forget, Unregister, NextInactive, Root, Check, Serve, Record, Drop, Reveal
    <3>. QED
      BY <3>1, Fades DEF WindowInv, HousedInv
  <2>2. CASE ~\E a \in Actor : Step(a)
    <3>1. dirs \subseteq dirs' /\ slugOf' = slugOf
      <4>1. ASSUME NEW s \in Slug, Show(s) \/ Reload(s) \/ Unload(s) \/ Cleanup(s) \/ CreateSession(s)
                                  \/ Adopt(s) \/ ForeignExits(s)
            PROVE  dirs \subseteq dirs' /\ slugOf' = slugOf
        BY <4>1 DEF Show, Reload, Unload, Cleanup, CreateSession, Adopt, ForeignExits
      <4>2. ASSUME NEW t \in Term, Retire(t) \/ PageLookup(t) \/ PageStart(t) \/ WritePid(t)
                                  \/ Exit(t) \/ ChildExited(t) \/ QuitStop(t)
            PROVE  dirs \subseteq dirs' /\ slugOf' = slugOf
        BY <4>2 DEF Retire, PageLookup, PageStart, WritePid, Exit, ChildExited, QuitStop
      <4>3. ASSUME Poll \/ QuitBegin \/ QuitReap \/ QuitEnd PROVE dirs \subseteq dirs' /\ slugOf' = slugOf
        BY <4>3 DEF Poll, QuitBegin, QuitReap, QuitEnd
      <4>. QED
        BY <2>2, <4>1, <4>2, <4>3 DEF Next
    <3>. QED
      BY <3>1, Fades DEF WindowInv, HousedInv
  <2>. QED
    BY <2>1, <2>2, OnlyLocked
<1>. QED
  BY <1>1, <1>2, <1>3

\* What goes on without showMu leaves the window where it is.
LEMMA QuietWindow ==
    ASSUME Inv, WindowInv, Next, UNCHANGED <<registry, call>>
    PROVE  ShownInv' /\ CleanInv' /\ HandInv'
<1>1. UNCHANGED <<slugs, slugOf, terms, showing, history, c, Seen>> /\ \A t : Coming(t)' = Coming(t)
  BY DEF registry, c, Seen, Coming
<1>2. \A s \in Slug : slugs[s] \in Term \cup {NoTerm}
  BY DEF Inv, TypeOK
<1>3. ShownInv'
  BY <1>1 DEF WindowInv, ShownInv, Registered
<1>4. CleanInv'
  BY <1>1 DEF WindowInv, CleanInv
<1>5. HandInv'
  <2>1. \A s \in Slug : Alive(slugs[s])' => Alive(slugs[s])
    BY <1>1, AliveFades
  <2>. QED
    BY <1>1, <2>1 DEF WindowInv, HandInv
<1>. QED
  BY <1>3, <1>4, <1>5

\* So does an operation that begins.
LEMMA EntryWindow ==
    ASSUME Inv, WindowInv, Next, UNCHANGED registry, c = Idle,
           NEW op, NEW s \in Slug, NEW step, NEW t, Enter(op, s, step, t),
           step \notin Booting \cup {"done", "next"}, step = "root" => op = "show",
           op = "cleanup" => step \in {"stop", "remove"},
           step = "remove" => slugs[s] = NoTerm,
           step = "reveal" => t # NoTerm /\ slugs[s] = t
    PROVE  ShownInv' /\ CleanInv' /\ HandInv'
<1>0. TypeOK /\ UNCHANGED <<slugs, slugOf, terms, showing, history, Seen>>
  BY DEF Inv, registry, Seen
<1>1. c' = [Idle EXCEPT !.op = op, !.pc = step, !.slug = s, !.root = s, !.term = t]
  BY <1>0 DEF TypeOK, Enter, c, Actor
<1>2. /\ c'.op = op /\ c'.pc = step /\ c'.slug = s /\ c'.root = s /\ c'.term = t
      /\ c'.fallback = NoTerm /\ c'.emptied = FALSE
      /\ c.pc = "done" /\ c.emptied = FALSE
  BY <1>1 DEF Idle
<1>3. \A u : ~Coming(u)
  BY <1>2 DEF Coming, Booting
<1>4. ShownInv'
  <2>1. step = "reveal" => Registered(t)
    BY DEF Inv, RegistryInv, Registered
  <2>. QED
    BY <1>0, <1>2, <2>1 DEF WindowInv, ShownInv, Registered
<1>5. CleanInv'
  BY <1>0, <1>2 DEF CleanInv, Stopping, Booting
<1>6. HandInv'
  <2>1. \A u \in Slug : Alive(slugs[u])' => Alive(slugs[u])
    BY <1>0, AliveFades
  <2>2. \A u \in Slug : slugs[u] # NoTerm => slugs[u] \in Seen
    BY <1>3 DEF WindowInv, HandInv
  <2>3. showing = NoTerm => \A u \in Slug : ~Alive(slugs[u])
    BY <1>2, <1>3 DEF WindowInv, HandInv
  <2>4. showing # NoTerm => showing \in Seen
    BY DEF WindowInv, HandInv
  <2>. QED
    BY <1>0, <1>2, <2>1, <2>2, <2>3, <2>4 DEF HandInv
<1>. QED
  BY <1>4, <1>5, <1>6

\* And a step of an operation that leaves the registry alone, as long as what was
\* coming still is.
LEMMA MoveWindow ==
    ASSUME Inv, WindowInv, Next, UNCHANGED registry,
           c'.op = c.op, c'.slug = c.slug, c'.emptied = c.emptied, c'.fallback = c.fallback,
           c.pc # "remove", c'.pc \notin {"done", "remove", "root", "next"},
           \A t : Coming(t) => Coming(t)',
           c'.pc = "reveal" /\ c'.term = NoTerm => c.emptied /\ c.fallback = NoTerm,
           c'.pc = "reveal" /\ c'.term # NoTerm => Registered(c'.term),
           c.op = "cleanup" /\ c'.pc \notin Stopping =>
               /\ c.pc \notin Stopping \cup {"done"}
               /\ c'.pc \in {"check", "add"} \cup Booting => c'.root # c.slug
    PROVE  ShownInv' /\ CleanInv' /\ HandInv'
<1>0. TypeOK /\ UNCHANGED <<slugs, slugOf, terms, showing, history, Seen>>
  BY DEF Inv, registry, Seen
<1>1. ShownInv'
  BY <1>0 DEF WindowInv, ShownInv, Registered
<1>2. CleanInv'
  BY <1>0 DEF WindowInv, CleanInv
<1>3. HandInv'
  <2>1. \A u \in Slug : Alive(slugs[u])' => Alive(slugs[u])
    BY <1>0, AliveFades
  <2>. QED
    BY <1>0, <2>1 DEF WindowInv, HandInv
<1>. QED
  BY <1>1, <1>2, <1>3

\* A boot that failed hands the window back, if it was taken away.
LEMMA FailedWindow ==
    ASSUME Inv, WindowInv, Next, Failed("locked"), c.pc \notin Stopping \cup {"done", "remove"},
           UNCHANGED <<slugOf, showing>>,
           \A s \in Slug : slugs'[s] # NoTerm =>
               /\ slugs'[s] = slugs[s] /\ slugs'[s] \in terms' /\ ~Coming(slugs[s])
               /\ slugs'[s] \in Seen',
           slugs' \in [Slug -> Term \cup {NoTerm}],
           c.op = "cleanup" => slugs'[c.slug] = NoTerm,
           showing # NoTerm => slugs'[slugOf[showing]] = showing /\ showing \in Seen',
           c.fallback # NoTerm => slugs'[slugOf[c.fallback]] = c.fallback
    PROVE  ShownInv' /\ CleanInv' /\ HandInv'
<1>1. \A s \in Slug : Alive(slugs[s])' => Alive(slugs[s]) /\ ~Coming(slugs[s])
  <2>. SUFFICES ASSUME NEW s \in Slug, Alive(slugs[s])' PROVE Alive(slugs[s]) /\ ~Coming(slugs[s])
    OBVIOUS
  <2>1. slugs'[s] # NoTerm
    BY DEF Alive
  <2>. QED
    BY <2>1, AliveFades
<1>3. CASE c.emptied
  <2>0. RevealNext("locked", c.fallback)
    BY <1>3 DEF Failed, c
  <2>1. c' = [c EXCEPT !.pc = "reveal", !.term = c.fallback] /\ c \in Calls
    BY Zenon, <2>0, CallMoves
  <2>2. /\ c'.op = c.op /\ c'.pc = "reveal" /\ c'.slug = c.slug /\ c'.term = c.fallback
        /\ c'.fallback = c.fallback /\ c'.emptied = c.emptied
    BY <2>1 DEF Calls
  <2>3. ShownInv'
    BY <2>2 DEF ShownInv, Registered
  <2>4. CleanInv'
    BY <2>2 DEF CleanInv, Booting
  <2>5. HandInv'
    BY <1>1, <1>3, <2>2 DEF WindowInv, HandInv
  <2>. QED
    BY <2>3, <2>4, <2>5
<1>4. CASE ~c.emptied
  <2>0. Finish("locked")
    BY <1>4 DEF Failed, c
  <2>1. c' = Idle
    BY Zenon, <2>0, CallMoves
  <2>2. c'.pc = "done" /\ c'.emptied = FALSE
    BY <2>1 DEF Idle
  <2>3. ShownInv'
    BY <2>2 DEF ShownInv, Registered
  <2>4. CleanInv'
    BY <2>2 DEF CleanInv
  <2>5. HandInv'
    BY <1>1, <1>4, <2>2 DEF WindowInv, HandInv
  <2>. QED
    BY <2>3, <2>4, <2>5
<1>. QED
  BY <1>3, <1>4

\* stop(), and what it waits for.
LEMMA StopWindow ==
    ASSUME Inv, WindowInv, Next, Stop("locked") \/ Reap("locked")
    PROVE  ShownInv' /\ CleanInv' /\ HandInv'
<1>0. call["locked"] = c /\ c \in Calls /\ TypeOK
  BY DEF Inv, TypeOK, c, Actor
<1>1. PICK step, g : /\ step \in {"reap", "forget"}
                     /\ call' = [call EXCEPT !["locked"].pc = step, !["locked"].grip = g]
  BY DEF Stop, Reap
<1>2. c' = [c EXCEPT !.pc = step, !.grip = g]
  BY <1>0, <1>1 DEF c, TypeOK, Actor
<1>3. /\ c'.op = c.op /\ c'.slug = c.slug /\ c'.emptied = c.emptied /\ c'.fallback = c.fallback
      /\ c'.pc \in {"reap", "forget"}
  BY <1>0, <1>1, <1>2 DEF Calls
<1>4. UNCHANGED registry /\ c.pc \in {"stop", "reap"}
  BY <1>0 DEF Stop, Reap
<1>5. \A t : ~Coming(t)
  BY <1>4 DEF Coming, Booting
<1>. QED
  BY <1>3, <1>4, <1>5, MoveWindow DEF Stopping

\* forget() falls back on a session that still runs, if there is one.
LEMMA ForgetWindow ==
    ASSUME Inv, WindowInv, Next, Forget("locked")
    PROVE  ShownInv' /\ CleanInv' /\ HandInv'
<1>. DEFINE t     == c.term
            rest  == Without(history, t)
            shown == showing = t
            fb    == IF shown THEN LastAlive(rest) ELSE NoTerm
            step  == AfterForget(c.op, shown)
            next  == [c EXCEPT !.pc = step, !.term = IF step = "reveal" THEN fb ELSE NoTerm,
                               !.fallback = fb, !.emptied = shown]
<1>0. /\ TypeOK /\ c \in Calls /\ c = call["locked"] /\ c.pc = "forget"
      /\ c.op \in {"show", "reload", "unload", "cleanup", "retire"}
      /\ t \in Term /\ c.slug \in Slug /\ slugs[c.slug] = t /\ slugOf[t] = c.slug
  <2>1. c \in Calls /\ c = call["locked"] /\ TypeOK /\ c.pc = "forget"
    BY DEF Inv, TypeOK, c, Actor, Forget
  <2>. QED
    BY <2>1 DEF Inv, CallInv, RegistryInv, Stopping, Calls
<1>1. /\ UNCHANGED <<slugOf, stopped, process, life>>
      /\ slugs' = [slugs EXCEPT ![c.slug] = NoTerm] /\ terms' = terms \ {t} /\ history' = rest
      /\ showing' = IF showing = t THEN NoTerm ELSE showing
  BY <1>0 DEF Forget, Unregister, states, kernel
<1>2. c' = IF step = "done" THEN Idle ELSE next
  BY <1>0 DEF Forget, TypeOK, c, Actor
<1>3. \A s \in Slug : slugs'[s] # NoTerm =>
        /\ slugs'[s] = slugs[s] /\ slugs[s] # t /\ slugs[s] \in Term /\ slugOf[slugs[s]] = s
  BY <1>0, <1>1 DEF Inv, RegistryInv, TypeOK
<1>4. history \in Seq(Term) /\ rest \in Seq(Term)
  BY <1>0, WithoutType DEF TypeOK
<1>5. \A u : u \in Seen /\ u # t => u \in Seen'
  <2>. SUFFICES ASSUME NEW k \in DOMAIN history, history[k] # t PROVE history[k] \in Seen'
    BY DEF Seen
  <2>1. \E j \in DOMAIN rest : rest[j] = history[k]
    BY <1>4, WithoutKeeps
  <2>. HIDE DEF rest
  <2>. QED
    BY <1>1, <2>1 DEF Seen
<1>6. \A s \in Slug : slugs'[s] # NoTerm => slugs[s] \in Seen'
  <2>1. \A u : ~Coming(u)
    BY <1>0 DEF Coming, Booting
  <2>. QED
    BY <1>3, <1>5, <2>1 DEF WindowInv, HandInv
<1>s. showing' # NoTerm => showing' \in Seen'
  BY <1>1, <1>5 DEF WindowInv, HandInv
<1>7. fb = NoTerm /\ shown => \A s \in Slug : slugs'[s] # NoTerm => ~Alive(slugs[s])
  <2>. SUFFICES ASSUME LastAlive(rest) = NoTerm, NEW s \in Slug, slugs'[s] # NoTerm PROVE ~Alive(slugs[s])
    OBVIOUS
  <2>. HIDE DEF rest
  <2>1. PICK k \in DOMAIN rest : rest[k] = slugs[s]
    BY <1>1, <1>6 DEF Seen
  <2>2. slugs'[slugOf[rest[k]]] = rest[k]
    BY <1>3, <2>1
  <2>. QED
    BY <1>4, <2>1, <2>2, NobodyLeft
<1>8. \A s \in Slug : Alive(slugs[s])' => slugs'[s] # NoTerm /\ Alive(slugs[s])
  <2>. SUFFICES ASSUME NEW s \in Slug, Alive(slugs[s])' PROVE slugs'[s] # NoTerm /\ Alive(slugs[s])
    OBVIOUS
  <2>1. slugs'[s] # NoTerm
    BY DEF Alive
  <2>. QED
    BY <1>3, <2>1, AliveFades
<1>9. fb # NoTerm => slugs'[slugOf'[fb]] = fb
  BY <1>1, <1>4, LastAliveFacts
<1>10. step \in {"done", "root", "check", "reveal", "next", "remove"}
       /\ (step = "reveal" => shown) /\ (step = "done" => ~shown) /\ (step = "remove" => ~shown)
       /\ (c.op = "cleanup" => step \in {"next", "remove"})
       /\ (step = "root" => c.op = "show") /\ (step = "next" => shown)
  BY <1>0 DEF AfterForget
<1>. HIDE DEF fb, step, rest
<1>11. CASE step = "done"
  <2>1. c'.pc = "done" /\ c'.emptied = FALSE
    BY <1>2, <1>11 DEF Idle
  <2>2. ShownInv'
    BY <1>0, <1>1, <1>3, <2>1, Names DEF WindowInv, ShownInv, Registered, TypeOK, Inv, StateInv
  <2>3. CleanInv'
    BY <2>1 DEF CleanInv
  <2>4. HandInv'
    <3>1. showing = NoTerm => \A s \in Slug : ~Alive(slugs[s])
      <4>1. \A u : ~Coming(u)
        BY <1>0 DEF Coming, Booting
      <4>2. c.fallback = NoTerm
        BY <1>0 DEF Inv, CallInv, Stopping
      <4>. QED
        BY <4>1, <4>2 DEF WindowInv, HandInv
    <3>. QED
      BY <1>s, <1>1, <1>3, <1>6, <1>8, <1>10, <1>11, <2>1, <3>1 DEF HandInv
  <2>. QED
    BY <2>2, <2>3, <2>4
<1>12. CASE step # "done"
  <2>1. /\ c'.op = c.op /\ c'.pc = step /\ c'.slug = c.slug /\ c'.root = c.root
        /\ c'.term = (IF step = "reveal" THEN fb ELSE NoTerm) /\ c'.fallback = fb
        /\ c'.emptied = shown
    BY <1>0, <1>2, <1>12 DEF Calls
  <2>2. ShownInv'
    BY <1>0, <1>1, <1>3, <1>9, <2>1, Names DEF WindowInv, ShownInv, Registered, TypeOK, Inv, StateInv
  <2>3. CleanInv'
    BY <1>0, <1>1, <1>10, <2>1 DEF CleanInv, Booting, TypeOK
  <2>4. HandInv'
    <3>1. showing = NoTerm => \A s \in Slug : ~Alive(slugs[s])
      <4>1. \A u : ~Coming(u)
        BY <1>0 DEF Coming, Booting
      <4>2. c.fallback = NoTerm
        BY <1>0 DEF Inv, CallInv, Stopping
      <4>. QED
        BY <4>1, <4>2 DEF WindowInv, HandInv
    <3>2. /\ \A s \in Slug : slugs'[s] # NoTerm => slugs'[s] \in Seen'
          /\ c'.emptied /\ c'.pc # "remove" => showing' = NoTerm
          /\ c'.pc = "reveal" /\ c'.term = NoTerm => c'.emptied /\ c'.fallback = NoTerm
      BY <1>1, <1>3, <1>6, <1>10, <2>1
    <3>3. showing' = NoTerm => \/ \A s \in Slug : ~Alive(slugs[s])'
                               \/ c'.emptied /\ c'.fallback # NoTerm /\ c'.pc \notin {"done", "remove"}
      BY <1>1, <1>7, <1>8, <1>10, <1>12, <2>1, <3>1
    <3>. QED
      BY <1>s, <2>1, <1>10, <3>2, <3>3 DEF HandInv
  <2>. QED
    BY <2>2, <2>3, <2>4
<1>. QED
  BY <1>11, <1>12

\* From the choice of a root to a state that answers for it, the registry as it is.
LEMMA BootWindow ==
    ASSUME Inv, WindowInv, Next,
           NextInactive("locked") \/ Root("locked") \/ Check("locked") \/ Serve("locked") \/ Record("locked")
           \/ (Add("locked") /\ UNCHANGED <<slugs, terms, seq, slugOf>>)
    PROVE  ShownInv' /\ CleanInv' /\ HandInv'
<1>0. c \in Calls /\ c = call["locked"] /\ TypeOK
  BY DEF Inv, TypeOK, c, Actor
<1>1. UNCHANGED <<slugs, terms, slugOf, showing, history, seq>> /\ UNCHANGED registry
  BY DEF NextInactive, Root, Check, Serve, Record, Add, registry
<1>f. c.fallback # NoTerm => Registered(c.fallback)
  BY DEF Inv, CallInv, Registered
<1>2. ASSUME Failed("locked"), c.pc \in {"root", "check", "add"} PROVE ShownInv' /\ CleanInv' /\ HandInv'
  <2>1. \A u : ~Coming(u)
    BY <1>2 DEF Coming, Booting
  <2>2. c.pc \notin Stopping \cup {"done", "remove"}
    BY <1>2 DEF Stopping
  <2>3. Seen' = Seen /\ slugs' \in [Slug -> Term \cup {NoTerm}]
    BY <1>0, <1>1 DEF Seen, TypeOK
  <2>5. \A s \in Slug : slugs'[s] # NoTerm =>
          slugs'[s] = slugs[s] /\ slugs'[s] \in terms' /\ ~Coming(slugs[s]) /\ slugs'[s] \in Seen'
    BY <1>1, <2>1, <2>3 DEF WindowInv, ShownInv, HandInv
  <2>6. showing # NoTerm => slugs'[slugOf[showing]] = showing /\ showing \in Seen'
    BY <1>1, <2>3 DEF WindowInv, ShownInv, HandInv, Registered
  <2>7. c.fallback # NoTerm => slugs'[slugOf[c.fallback]] = c.fallback
    BY <1>1, <1>f DEF Registered
  <2>4. c.op = "cleanup" => slugs'[c.slug] = NoTerm
    BY <1>1, <2>2 DEF WindowInv, CleanInv
  <2>. QED
    BY <1>1, <1>2, <2>2, <2>3, <2>4, <2>5, <2>6, <2>7, FailedWindow
<1>3. ASSUME NEW step, Goto("locked", step), c.pc \in {"root", "check", "serve", "record"},
             step \in {"check", "add", "record", "drop", "reveal"},
             c.pc = "root" => c.op = "show",
             c.pc \in {"serve", "record"} => step \in {"record", "drop", "reveal"},
             step = "reveal" => c.pc = "record"
      PROVE  ShownInv' /\ CleanInv' /\ HandInv'
  <2>1. c' = [c EXCEPT !.pc = step]
    BY Zenon, <1>3, CallMoves
  <2>2. /\ c'.op = c.op /\ c'.slug = c.slug /\ c'.emptied = c.emptied /\ c'.fallback = c.fallback
        /\ c'.pc = step /\ c'.term = c.term /\ c'.root = c.root
    BY <1>0, <2>1 DEF Calls
  <2>3. \A u : Coming(u) => Coming(u)'
    BY <1>3, <2>2 DEF Coming, Booting
  <2>4. step = "reveal" => c.term # NoTerm /\ Registered(c.term)
    BY <1>3 DEF Inv, CallInv, Booting, RegistryInv, Registered
  <2>5. c.op = "cleanup" => c.root # c.slug
    BY <1>3 DEF WindowInv, CleanInv, Stopping, Booting
  <2>. QED
    BY <1>1, <1>3, <2>2, <2>3, <2>4, <2>5, MoveWindow DEF Stopping
<1>4. CASE NextInactive("locked")
  <2>1. c.pc = "next" /\ \A u : ~Coming(u)
    BY <1>0, <1>4 DEF NextInactive, Coming, Booting
  <2>2. CASE RevealNext("locked", c.fallback)
    <3>1. c' = [c EXCEPT !.pc = "reveal", !.term = c.fallback]
      BY Zenon, <2>2, CallMoves
    <3>2. /\ c'.op = c.op /\ c'.slug = c.slug /\ c'.emptied = c.emptied /\ c'.fallback = c.fallback
          /\ c'.pc = "reveal" /\ c'.term = c.fallback
      BY <1>0, <3>1 DEF Calls
    <3>3. c.emptied
      BY <2>1 DEF WindowInv, CleanInv
    <3>. QED
      BY <1>1, <1>f, <2>1, <3>2, <3>3, MoveWindow DEF Stopping, Booting
  <2>3. CASE \E s \in Candidates(c.slug) : call' = [call EXCEPT !["locked"].pc = "check", !["locked"].root = s]
    <3>1. PICK s \in Candidates(c.slug) : call' = [call EXCEPT !["locked"].pc = "check", !["locked"].root = s]
      BY <2>3
    <3>2. c' = [c EXCEPT !.pc = "check", !.root = s]
      BY <1>0, <3>1 DEF c, TypeOK, Actor
    <3>3. /\ c'.op = c.op /\ c'.slug = c.slug /\ c'.emptied = c.emptied /\ c'.fallback = c.fallback
          /\ c'.pc = "check" /\ c'.root = s /\ s # c.slug
      BY <1>0, <3>1, <3>2 DEF Calls, Candidates
    <3>. QED
      BY <1>1, <2>1, <3>3, MoveWindow DEF Stopping
  <2>. QED
    BY <1>0, <1>4, <2>2, <2>3 DEF NextInactive
<1>5. CASE Root("locked")
  <2>1. c.pc = "root" /\ (Failed("locked") \/ Goto("locked", "check"))
    BY <1>0, <1>5 DEF Root
  <2>2. c.op = "show"
    BY <2>1 DEF WindowInv, CleanInv
  <2>. QED
    BY <1>2, <1>3, <2>1, <2>2
<1>6. CASE Check("locked")
  <2>1. c.pc = "check" /\ (Failed("locked") \/ Goto("locked", "add"))
    BY <1>0, <1>6 DEF Check
  <2>. QED
    BY <1>2, <1>3, <2>1
<1>7. CASE Serve("locked")
  <2>1. c.pc = "serve" /\ (Goto("locked", "record") \/ Goto("locked", "drop"))
    BY <1>0, <1>7 DEF Serve
  <2>. QED
    BY <1>3, <2>1
<1>8. CASE Record("locked")
  <2>1. c.pc = "record" /\ (Goto("locked", "reveal") \/ Goto("locked", "drop"))
    BY <1>0, <1>8 DEF Record
  <2>. QED
    BY <1>3, <2>1
<1>9. CASE Add("locked") /\ UNCHANGED <<slugs, terms, seq, slugOf>>
  <2>1. c.pc = "add" /\ Failed("locked")
    <3>1. seq \in Nat
      BY <1>0 DEF TypeOK
    <3>. QED
      BY <1>0, <1>9, <3>1 DEF Add
  <2>. QED
    BY <1>2, <2>1
<1>. QED
  BY <1>4, <1>5, <1>6, <1>7, <1>8, <1>9

\* A new state answers for its session, and is not shown yet.
LEMMA AddWindow ==
    ASSUME Inv, WindowInv, Next, Add("locked"), seq < MaxBoots
    PROVE  ShownInv' /\ CleanInv' /\ HandInv'
<1>. DEFINE s == c.root
            t == seq + 1
<1>0. /\ c \in Calls /\ c = call["locked"] /\ TypeOK /\ c.pc = "add"
      /\ s \in Slug /\ slugs[s] = NoTerm /\ seq \in Nat /\ t \in Term /\ t # NoTerm
  <2>1. c \in Calls /\ c = call["locked"] /\ TypeOK /\ c.pc = "add"
    BY DEF Inv, TypeOK, c, Actor, Add
  <2>2. seq \in Nat /\ t \in Term
    BY <2>1, MaxBootsAssumption DEF TypeOK, Term
  <2>3. t # NoTerm
    BY <2>2, Names
  <2>. QED
    BY <2>1, <2>2, <2>3 DEF Inv, CallInv
<1>1. /\ slugOf' = [slugOf EXCEPT ![t] = s] /\ slugs' = [slugs EXCEPT ![s] = t]
      /\ terms' = terms \cup {t} /\ UNCHANGED <<showing, history>>
      /\ call' = [call EXCEPT !["locked"].pc = "serve", !["locked"].term = t]
  BY <1>0 DEF Add
<1>2. c' = [c EXCEPT !.pc = "serve", !.term = t]
  BY <1>0, <1>1 DEF c, TypeOK, Actor
<1>3. /\ c'.op = c.op /\ c'.pc = "serve" /\ c'.slug = c.slug /\ c'.root = s /\ c'.term = t
      /\ c'.fallback = c.fallback /\ c'.emptied = c.emptied
  BY <1>0, <1>2 DEF Calls
<1>4. \A u : ~Coming(u)
  BY <1>0 DEF Coming, Booting
<1>5. \A u \in Slug \ {s} : slugs'[u] = slugs[u]
  BY <1>0, <1>1 DEF TypeOK
<1>6. slugs'[s] = t /\ \A u \in Slug : u = s => Coming(slugs[u])'
  BY <1>0, <1>1, <1>3 DEF TypeOK, Coming, Booting
<1>7. ShownInv'
  <2>1. showing # NoTerm => /\ showing # t /\ slugOf[showing] \in Slug
                            /\ slugs[slugOf[showing]] = showing /\ showing \in Term
    BY <1>0 DEF Inv, StateInv, TypeOK, WindowInv, ShownInv, Registered
  <2>2. showing # NoTerm => slugOf'[showing] = slugOf[showing] /\ slugs'[slugOf[showing]] = showing
    BY <1>0, <1>1, <1>5, <2>1 DEF TypeOK
  <2>3. \A u \in Slug : slugs'[u] # NoTerm => slugs'[u] \in terms'
    BY <1>1, <1>5, <1>6 DEF WindowInv, ShownInv
  <2>. QED
    BY <1>1, <1>3, <2>2, <2>3 DEF ShownInv, Registered
<1>8. CleanInv'
  <2>1. c.op = "cleanup" => slugs[c.slug] = NoTerm /\ s # c.slug /\ c.slug \in Slug
    BY <1>0 DEF WindowInv, CleanInv, Stopping, Inv, CallInv
  <2>. QED
    BY <1>3, <1>5, <2>1 DEF CleanInv
<1>9. HandInv'
  <2>1. Seen' = Seen
    BY <1>1 DEF Seen
  <2>2. \A u \in Slug : slugs'[u] # NoTerm => slugs'[u] \in Seen' \/ Coming(slugs[u])'
    BY <1>4, <1>5, <1>6, <2>1 DEF WindowInv, HandInv
  <2>3. \A u \in Slug : Alive(slugs[u])' => Coming(slugs[u])' \/ Alive(slugs[u])
    BY <1>5, <1>6, AliveFades
  <2>. QED
    BY <1>0, <1>1, <1>3, <1>4, <2>1, <2>2, <2>3 DEF WindowInv, HandInv
<1>. QED
  BY <1>7, <1>8, <1>9

\* A boot that failed is forgotten, and was never shown.
LEMMA DropWindow ==
    ASSUME Inv, WindowInv, Next, Drop("locked")
    PROVE  ShownInv' /\ CleanInv' /\ HandInv'
<1>. DEFINE t == c.term
<1>0. /\ c \in Calls /\ c = call["locked"] /\ TypeOK /\ c.pc = "drop" /\ Failed("locked")
      /\ c.root \in Slug /\ slugs[c.root] = t /\ slugOf[t] = c.root /\ t \in Term
      /\ t # showing /\ t # c.fallback
  <2>1. c \in Calls /\ c = call["locked"] /\ TypeOK /\ c.pc = "drop" /\ Failed("locked")
    BY DEF Inv, TypeOK, c, Actor, Drop
  <2>. QED
    BY <2>1 DEF Inv, CallInv, RegistryInv, Booting, Calls
<1>1. /\ slugs' = [slugs EXCEPT ![c.root] = NoTerm] /\ terms' = terms \ {t}
      /\ history' = Without(history, t) /\ UNCHANGED <<showing, slugOf>>
  BY <1>0 DEF Drop, Unregister
<1>2. \A s \in Slug : slugs'[s] # NoTerm =>
        slugs'[s] = slugs[s] /\ slugs'[s] # t /\ slugs'[s] \in terms' /\ ~Coming(slugs[s])
  BY <1>0, <1>1 DEF TypeOK, Inv, RegistryInv, WindowInv, ShownInv, Coming
<1>3. \A s \in Slug : slugs[s] # NoTerm /\ slugs[s] # t => slugs[s] \in Seen
  BY DEF WindowInv, HandInv, Coming
<1>4. \A u : u \in Seen /\ u # t => u \in Seen'
  <2>. SUFFICES ASSUME NEW k \in DOMAIN history, history[k] # t PROVE history[k] \in Seen'
    BY DEF Seen
  <2>1. history \in Seq(Term)
    BY <1>0 DEF TypeOK
  <2>2. \E j \in DOMAIN Without(history, t) : Without(history, t)[j] = history[k]
    BY <2>1, WithoutKeeps
  <2>. QED
    BY <1>1, <2>2 DEF Seen
<1>5. \A s \in Slug : slugs'[s] # NoTerm =>
        /\ slugs'[s] = slugs[s] /\ slugs'[s] \in terms' /\ ~Coming(slugs[s]) /\ slugs'[s] \in Seen'
  BY <1>2, <1>3, <1>4
<1>6. slugs' \in [Slug -> Term \cup {NoTerm}]
  BY <1>0, <1>1 DEF TypeOK
<1>7. c.op = "cleanup" => slugs'[c.slug] = NoTerm
  BY <1>0, <1>2 DEF WindowInv, CleanInv, Stopping, Inv, CallInv
<1>8. showing # NoTerm => slugs'[slugOf[showing]] = showing /\ showing \in Seen'
  BY <1>0, <1>1, <1>4 DEF WindowInv, ShownInv, HandInv, Registered, Inv, StateInv, TypeOK
<1>9. c.fallback # NoTerm => slugs'[slugOf[c.fallback]] = c.fallback
  BY <1>0, <1>1 DEF Inv, CallInv, TypeOK
<1>. QED
  BY <1>0, <1>1, <1>5, <1>6, <1>7, <1>8, <1>9, FailedWindow DEF Stopping

\* What is revealed is registered; nothing is revealed when nobody is left.
LEMMA RevealWindow ==
    ASSUME Inv, WindowInv, Next, Reveal("locked")
    PROVE  ShownInv' /\ CleanInv' /\ HandInv'
<1>. DEFINE t == c.term
<1>0. c \in Calls /\ c = call["locked"] /\ TypeOK /\ c.pc = "reveal" /\ t \in Term \cup {NoTerm}
  BY DEF Inv, TypeOK, c, Actor, Reveal, Calls
<1>1. /\ UNCHANGED <<slugs, terms, slugOf>> /\ showing' = t
      /\ history' = IF t \in {showing, NoTerm} THEN history ELSE Append(Without(history, t), t)
      /\ \/ c.op = "cleanup" /\ Goto("locked", "remove")
         \/ c.op # "cleanup" /\ Finish("locked")
  BY <1>0 DEF Reveal
<1>2. \/ c.op = "cleanup" /\ c' = [c EXCEPT !.pc = "remove"]
      \/ c.op # "cleanup" /\ c' = Idle
  BY Zenon, <1>1, CallMoves
<1>3. /\ c'.pc \in {"done", "remove"}
      /\ c'.pc = "remove" => c'.op = c.op /\ c'.slug = c.slug /\ c.op = "cleanup"
      /\ c'.pc = "done" => c'.emptied = FALSE
  BY <1>0, <1>2 DEF Calls, Idle
<1>4. \A s \in Slug : slugs[s] # NoTerm => slugs[s] \in Seen \/ slugs[s] = t
  BY DEF WindowInv, HandInv, Coming
<1>5. Seen \subseteq Seen' /\ (t # NoTerm /\ t # showing => t \in Seen')
  <2>1. CASE t \in {showing, NoTerm}
    BY <1>1, <2>1 DEF Seen
  <2>2. CASE t \notin {showing, NoTerm}
    <3>. DEFINE rest == Without(history, t)
    <3>1. rest \in Seq(Term) /\ history \in Seq(Term) /\ t \in Term
      BY <1>0, <2>2, WithoutType DEF TypeOK
    <3>2. \A k \in DOMAIN history : history[k] # t => \E j \in DOMAIN rest : rest[j] = history[k]
      BY <3>1, WithoutKeeps
    <3>. HIDE DEF rest
    <3>3. history' = Append(rest, t)
      BY <1>1, <2>2 DEF rest
    <3>4. /\ Len(rest) \in Nat /\ DOMAIN rest = 1..Len(rest)
          /\ DOMAIN history' = 1..(Len(rest) + 1) /\ history'[Len(rest) + 1] = t
          /\ \A j \in 1..Len(rest) : history'[j] = rest[j]
      BY <3>1, <3>3, AppendProperties
    <3>5. t \in Seen'
      <4>1. Len(rest) + 1 \in DOMAIN history'
        BY <3>4
      <4>. QED
        BY <3>4, <4>1 DEF Seen
    <3>6. \A j \in DOMAIN rest : rest[j] \in Seen'
      <4>1. \A j \in DOMAIN rest : j \in DOMAIN history' /\ history'[j] = rest[j]
        BY <3>4
      <4>. QED
        BY <4>1 DEF Seen
    <3>7. \A k \in DOMAIN history : history[k] \in Seen'
      BY <3>2, <3>5, <3>6
    <3>. QED
      BY <3>5, <3>7 DEF Seen
  <2>. QED
    BY <2>1, <2>2
<1>6. \A s \in Slug : slugs'[s] # NoTerm => slugs'[s] \in Seen'
  BY <1>1, <1>4, <1>5 DEF WindowInv, HandInv
<1>7. ShownInv'
  BY <1>0, <1>1, <1>3 DEF WindowInv, ShownInv, Registered
<1>8. CleanInv'
  BY <1>0, <1>1, <1>3 DEF WindowInv, CleanInv, Stopping, Booting
<1>9. HandInv'
  <2>1. t = NoTerm => showing = NoTerm /\ \A s \in Slug : ~Alive(slugs[s])
    <3>1. t = NoTerm => c.emptied /\ c.fallback = NoTerm /\ showing = NoTerm
      BY <1>0 DEF WindowInv, HandInv
    <3>2. t = NoTerm => \A s \in Slug : Alive(slugs[s]) => ~Coming(slugs[s])
      BY DEF Coming, Alive
    <3>. QED
      BY <3>1, <3>2 DEF WindowInv, HandInv
  <2>2. \A s \in Slug : Alive(slugs[s])' => Alive(slugs[s])
    BY <1>1, AliveFades
  <2>3. showing' # NoTerm => showing' \in Seen'
    BY <1>1, <1>5 DEF WindowInv, HandInv
  <2>. QED
    BY <1>1, <1>3, <1>6, <2>1, <2>2, <2>3 DEF HandInv
<1>. QED
  BY <1>7, <1>8, <1>9

\* Removing the directory touches nobody.
LEMMA RemoveWindow ==
    ASSUME Inv, WindowInv, Next, RemoveRoot("locked")
    PROVE  ShownInv' /\ CleanInv' /\ HandInv'
<1>0. c.pc = "remove" /\ Finish("locked") /\ UNCHANGED <<slugs, terms, slugOf, showing, history>>
  BY DEF RemoveRoot, registry, c
<1>1. c' = Idle
  BY Zenon, <1>0, CallMoves
<1>2. c'.pc = "done" /\ c'.emptied = FALSE
  BY <1>1 DEF Idle
<1>3. Seen' = Seen /\ \A u : ~Coming(u)
  BY <1>0 DEF Seen, Coming, Booting
<1>4. ShownInv' /\ CleanInv'
  BY <1>0, <1>2 DEF WindowInv, ShownInv, CleanInv, Registered
<1>5. HandInv'
  <2>1. \A s \in Slug : Alive(slugs[s])' => Alive(slugs[s])
    BY <1>0, AliveFades
  <2>. QED
    BY <1>0, <1>2, <1>3, <2>1 DEF WindowInv, HandInv
<1>. QED
  BY <1>4, <1>5

LEMMA WindowInductive == Inv /\ WindowInv /\ [Next]_vars => WindowInv'
<1>. SUFFICES ASSUME Inv, WindowInv, [Next]_vars PROVE WindowInv'
  OBVIOUS
<1>1. CASE UNCHANGED vars
  <2>1. UNCHANGED <<slugs, slugOf, terms, showing, history, c, Seen, life, dirs, stopped, process>>
    BY <1>1 DEF vars, registry, states, kernel, disk, c, Seen
  <2>. QED
    BY <2>1 DEF WindowInv, HousedInv, ShownInv, CleanInv, HandInv, Registered, Coming, Alive, Exited, Running
<1>2. ASSUME Next, \E a \in Actor : Step(a) PROVE ShownInv' /\ CleanInv' /\ HandInv'
  <2>1. Step("locked")
    BY <1>2, OnlyLocked
  <2>2. CASE Add("locked") /\ ~(seq < MaxBoots)
    <3>1. UNCHANGED <<slugs, terms, seq, slugOf>>
      BY <2>2 DEF Add
    <3>. QED
      BY <1>2, <2>2, <3>1, BootWindow
  <2>. QED
    BY <1>2, <2>1, <2>2, StopWindow, ForgetWindow, BootWindow, AddWindow, DropWindow, RevealWindow, RemoveWindow
       DEF Step
<1>3. ASSUME Next, ~\E a \in Actor : Step(a) PROVE ShownInv' /\ CleanInv' /\ HandInv'
  <2>1. CASE UNCHANGED <<registry, call>>
    BY <1>3, <2>1, QuietWindow
  <2>2. ASSUME NEW s \in Slug, Show(s) \/ Reload(s) \/ Unload(s) \/ Cleanup(s) \/ Adopt(s)
        PROVE  ShownInv' /\ CleanInv' /\ HandInv'
    <3>1. c = Idle /\ UNCHANGED registry
      BY <2>2 DEF Show, Reload, Unload, Cleanup, Adopt, Free, c
    <3>2. Alive(slugs[s]) => slugs[s] # NoTerm
      BY DEF Alive
    <3>3. CASE Show(s)
      <4>1. PICK step : /\ Enter("show", s, step, slugs[s])
                        /\ step \in {"reveal", "stop", "root"} /\ (step = "reveal" => slugs[s] # NoTerm)
        BY <3>2, <3>3 DEF Show
      <4>. QED
        BY <1>3, <3>1, <4>1, EntryWindow DEF Booting
    <3>4. CASE Reload(s)
      <4>1. PICK step : Enter("reload", s, step, slugs[s]) /\ step \in {"stop", "check"}
        BY <3>4 DEF Reload
      <4>. QED
        BY <1>3, <3>1, <4>1, EntryWindow DEF Booting
    <3>5. CASE Unload(s)
      <4>1. Enter("unload", s, "stop", slugs[s])
        BY <3>5 DEF Unload
      <4>. QED
        BY <1>3, <3>1, <4>1, EntryWindow DEF Booting
    <3>6. CASE Cleanup(s)
      <4>1. PICK step : /\ Enter("cleanup", s, step, slugs[s])
                        /\ step \in {"stop", "remove"} /\ (step = "remove" => slugs[s] = NoTerm)
        BY <3>6 DEF Cleanup
      <4>. QED
        BY <1>3, <3>1, <4>1, EntryWindow DEF Booting
    <3>7. CASE Adopt(s)
      <4>1. PICK step : /\ Enter("adopt", s, step, slugs[s])
                        /\ step \in {"reveal", "check"} /\ (step = "reveal" => slugs[s] # NoTerm)
        BY <3>7 DEF Adopt
      <4>. QED
        BY <1>3, <3>1, <4>1, EntryWindow DEF Booting
    <3>. QED
      BY <2>2, <3>3, <3>4, <3>5, <3>6, <3>7
  <2>3. ASSUME NEW t \in Term, Retire(t) PROVE ShownInv' /\ CleanInv' /\ HandInv'
    <3>1. c = Idle /\ UNCHANGED registry
      BY <2>3 DEF Retire, Free, c
    <3>2. CASE UNCHANGED call
      BY <1>3, <3>1, <3>2, QuietWindow
    <3>3. CASE Enter("retire", slugOf[t], "stop", t) /\ slugs[slugOf[t]] = t
      <4>1. life[t] # "none"
        BY <2>3 DEF Retire
      <4>2. slugOf[t] \in Slug
        BY <4>1 DEF Inv, StateInv
      <4>. QED
        BY <1>3, <3>1, <3>3, <4>2, EntryWindow DEF Booting
    <3>. QED
      BY <2>3, <3>2, <3>3 DEF Retire
  <2>4. ASSUME NEW s \in Slug, CreateSession(s) \/ ForeignExits(s) PROVE UNCHANGED <<registry, call>>
    BY <2>4 DEF CreateSession, ForeignExits
  <2>5. ASSUME NEW t \in Term, PageLookup(t) \/ PageStart(t) \/ WritePid(t) \/ Exit(t) \/ ChildExited(t) \/ QuitStop(t)
        PROVE  UNCHANGED <<registry, call>>
    BY <2>5 DEF PageLookup, PageStart, WritePid, Exit, ChildExited, QuitStop
  <2>6. ASSUME Poll \/ QuitBegin \/ QuitReap \/ QuitEnd PROVE UNCHANGED <<registry, call>>
    BY <2>6 DEF Poll, QuitBegin, QuitReap, QuitEnd
  <2>. QED
    BY <1>3, <2>1, <2>2, <2>3, <2>4, <2>5, <2>6 DEF Next
<1>4. Next => HousedInv'
  BY HousedKept
<1>. QED
  BY <1>1, <1>2, <1>3, <1>4 DEF WindowInv

\* No supervisor works in a directory that cleanup removed, the window is on a session
\* that answers for itself, and it is empty between operations only when no session
\* is left alive: whatever took one off the screen gave the window to the next.
THEOREM TheWindowIsSound == Startup = NoSlug => (Spec => []WindowIsSound)
<1>1. Startup = NoSlug /\ Init => WindowInv
  <2>. SUFFICES ASSUME Startup = NoSlug, Init PROVE WindowInv
    OBVIOUS
  <2>1. c = Idle /\ c.pc = "done" /\ c.emptied = FALSE
    BY DEF Init, c, Actor, Idle
  <2>2. /\ slugs = [s \in Slug |-> NoTerm] /\ showing = NoTerm
        /\ \A t \in Term : ~Running(t)
    BY DEF Init, Running
  <2>. QED
    BY <2>1, <2>2 DEF WindowInv, HousedInv, ShownInv, CleanInv, HandInv, Alive, Registered
<1>2. Inv /\ WindowInv => WindowIsSound
  <2>. SUFFICES ASSUME Inv, WindowInv PROVE WindowIsSound
    OBVIOUS
  <2>1. NoSupervisorOnRemovedRoot
    BY DEF WindowInv, HousedInv, NoSupervisorOnRemovedRoot
  <2>2. ShownIsRegistered
    <3>1. showing # NoTerm => slugOf[showing] \in Slug /\ slugs[slugOf[showing]] = showing
      BY DEF WindowInv, ShownInv, Registered, Inv, StateInv
    <3>. QED
      BY <3>1 DEF WindowInv, ShownInv, ShownIsRegistered
  <2>3. WindowHandedBack
    <3>1. call["locked"] = Idle => c.pc = "done" /\ c.emptied = FALSE
      BY DEF c, Idle
    <3>. QED
      BY <3>1 DEF WindowInv, HandInv, WindowHandedBack, Coming, Booting
  <2>. QED
    BY <2>1, <2>2, <2>3 DEF WindowIsSound
<1>. QED
  BY <1>1, <1>2, WindowInductive, Invariance, PTL DEF Spec
=============================================================================
