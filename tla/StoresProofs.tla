---------------------------- MODULE StoresProofs ----------------------------
(***************************************************************************)
(* What is on disk stays true, for any writers, roots, models, profiles and   *)
(* files, and any number of changes and crashes:                             *)
(*   - the runner in the terminal is one that was launched from the manifest  *)
(*     as it is, once every change has been signalled;                       *)
(*   - wherever a move of a session's thoughts stops, a scan can find them,   *)
(*     and the session is never linked to another's;                         *)
(*   - the vault files a vector under the header it was asked for under, and  *)
(*     that header is the model that made it unless Ollama was given another   *)
(*     meanwhile; it files no text under a later stamp, of files whose texts    *)
(*     bear different ones; it builds once at a time, and warms each root.    *)
(*                                                                         *)
(* Each part has an inductive invariant of its own (the vault has two, the    *)
(* second about the models behind the headers, resting on the first), and the  *)
(* joint one says that the part under check keeps its.                       *)
(***************************************************************************)
EXTENDS MCStores, Sequences, FiniteSetTheorems, TLAPS

-----------------------------------------------------------------------------
(* The supervisor.  Each file it has read and that has changed since is owed   *)
(* a signal: one waits in the channel, or a writer is still on its way to      *)
(* sending it, and the supervisor listens.                                   *)

\* Somebody who will signal the supervisor, once past the steps in done.
Coming(done) == relaunch \/ \E w \in Writer : writing[w].at \notin {"idle"} \cup done

Owed ==
    /\ pc \in Looping => listening
    /\ pc \in Looping \ {"stamp", "stopping"} => stamped = mode \/ Coming({})
    /\ pc \in Looping \ {"stamp", "handoff", "stopping"} => ~handoff \/ Coming({"mark"})
    /\ pc = "running" => opened = mode \/ Coming({})
    /\ pc \in {"launch", "running"} => ~notice \/ Coming({"mark", "queue"})

SupervisorInv == TypeOK /\ Owed

Places == [at : {"idle", "mark", "queue", "signal"}, queues : BOOLEAN]

LEMMA IdlePlace == Idle \in Places
  BY DEF Idle, Places

LEMMA TypeInit == Init => TypeOK
<1>. SUFFICES ASSUME Init PROVE TypeOK
  OBVIOUS
<1>1. writing \in [Writer -> Places]
  BY IdlePlace DEF Init
<1>2. ops \in Id /\ era \in 0..ops /\ starts \in 0..MaxStarts
  BY BoundsAssumption DEF Init, Id
<1>3. prompt \in {"none", "disk", "hand", "launched"}
  BY PromptAssumption DEF Init
<1>. QED
  BY <1>1, <1>2, <1>3, Zenon DEF Init, TypeOK, Modes, Looping, Places

\* A writer's step moves that writer.
LEMMA WriterMoves ==
    ASSUME TypeOK, NEW w \in Writer,
           \/ \E m \in Modes, queues \in BOOLEAN : Change(w, m, queues)
           \/ Mark(w) \/ QueueNotice(w) \/ Signal(w)
    PROVE  /\ writing' \in [Writer -> Places]
           /\ \A v \in Writer \ {w} : writing'[v] = writing[v]
<1>0. writing \in [Writer -> Places]
  BY DEF TypeOK, Places
<1>1. PICK p : writing' = [writing EXCEPT ![w] = p] /\ p \in Places
  <2>1. ASSUME NEW m \in Modes, NEW queues \in BOOLEAN, Change(w, m, queues)
        PROVE  \E p \in Places : writing' = [writing EXCEPT ![w] = p]
    <3>1. PICK at \in {"mark", "queue"} : writing' = [writing EXCEPT ![w] = [at |-> at, queues |-> queues]]
      BY <2>1, Zenon DEF Change
    <3>2. [at |-> at, queues |-> queues] \in Places
      BY DEF Places
    <3>. QED
      BY <3>1, <3>2
  <2>2. ASSUME NEW at \in {"queue", "signal"}, writing' = [writing EXCEPT ![w].at = at]
        PROVE  \E p \in Places : writing' = [writing EXCEPT ![w] = p]
    <3>1. [writing[w] EXCEPT !.at = at] \in Places
      BY <1>0 DEF Places
    <3>. QED
      BY <2>2, <3>1
  <2>. QED
    BY <2>1, <2>2, IdlePlace DEF Mark, QueueNotice, Signal
<1>. QED
  BY <1>0, <1>1

LEMMA TypeStep == TypeOK /\ [Next]_vars => TypeOK'
<1>. SUFFICES ASSUME TypeOK, [Next]_vars PROVE TypeOK'
  OBVIOUS
<1>. USE DEF disk, writers, assets, locals, signals, runner
<1>0. era \in 0..ops /\ ops \in 0..MaxOps /\ MaxOps \in Nat
  BY BoundsAssumption DEF TypeOK, Id
<1>1. ASSUME NEW w \in Writer, NEW m \in Modes, NEW queues \in BOOLEAN, Change(w, m, queues) PROVE TypeOK'
  <2>0. ops' = ops + 1 /\ ops < MaxOps /\ era' \in {era, era + 1}
    BY <1>1, Zenon DEF Change
  <2>1. ops' \in Id /\ era' \in 0..ops'
    BY <1>0, <2>0 DEF Id
  <2>2. \A x : x \in 0..era => x \in 0..era'
    BY <1>0, <2>0
  <2>3. writing' \in [Writer -> Places]
    BY <1>1, WriterMoves
  <2>. QED
    BY <1>1, <2>1, <2>2, <2>3 DEF Change, TypeOK, Places
<1>2. ASSUME NEW w \in Writer, Mark(w) \/ QueueNotice(w) \/ Signal(w) PROVE TypeOK'
  <2>1. writing' \in [Writer -> Places]
    BY <1>2, WriterMoves
  <2>2. mode' = mode /\ era' = era /\ prompt' = prompt /\ ops' = ops
    BY <1>2 DEF Mark, QueueNotice, Signal
  <2>. QED
    BY <1>2, <2>1, <2>2 DEF Mark, QueueNotice, Signal, TypeOK, Places
<1>3. ASSUME NEW r \in BOOLEAN, Start(r) PROVE TypeOK'
  <2>1. starts' \in 0..MaxStarts
    BY <1>3, BoundsAssumption DEF Start, TypeOK
  <2>. QED
    BY <1>3, <2>1, Zenon DEF Start, TypeOK
<1>4. CASE TakePrompt \/ Listen \/ Stamp \/ TakeHandoff \/ TakeNotice \/ Signalled \/ Stopped
  <2>1. resume' \in BOOLEAN
    BY <1>4, Zenon DEF TakePrompt, Listen, Stamp, TakeHandoff, TakeNotice, Signalled, Stopped, TypeOK
  <2>2. pc' \in Looping \cup {"listen"}
    BY <1>4 DEF TakePrompt, Listen, Stamp, TakeHandoff, TakeNotice, Signalled, Stopped, Looping
  <2>3. prompt' \in {"none", "disk", "hand", "launched"}
    BY <1>4 DEF TakePrompt, Listen, Stamp, TakeHandoff, TakeNotice, Signalled, Stopped, TypeOK
  <2>. QED
    BY <1>4, <2>1, <2>2, <2>3, Zenon DEF TakePrompt, Listen, Stamp, TakeHandoff, TakeNotice, Signalled, Stopped, TypeOK
<1>5. CASE Launch
  <2>1. era \in 0..era
    BY <1>0
  <2>. QED
    BY <1>5, <2>1 DEF Launch, Fresh, TypeOK, Looping
<1>6. CASE Ends \/ RunnerFails
  BY <1>6 DEF Ends, RunnerFails, FallBack, Gone, TypeOK, Looping
<1>7. CASE Settle
  BY <1>7 DEF Settle, TypeOK
<1>8. CASE UNCHANGED vars
  BY <1>8 DEF vars, TypeOK
<1>. QED
  BY <1>1, <1>2, <1>3, <1>4, <1>5, <1>6, <1>7, <1>8 DEF Next, Loop

LEMMA OwedInit == Init => Owed
  BY DEF Init, Owed, Looping

LEMMA OwedStep == SupervisorInv /\ [Next]_vars => Owed'
<1>. SUFFICES ASSUME TypeOK, Owed, [Next]_vars PROVE Owed'
  BY DEF SupervisorInv
<1>. USE DEF Owed, Looping, Coming, disk, writers, assets, locals, signals, runner
<1>0. writing \in [Writer -> [at : {"idle", "mark", "queue", "signal"}, queues : BOOLEAN]]
  BY DEF TypeOK
<1>1. ASSUME NEW w \in Writer, NEW m \in Modes, NEW queues \in BOOLEAN, Change(w, m, queues) PROVE Owed'
  <2>1. writing'[w].at \in {"mark", "queue"} /\ \A v \in Writer \ {w} : writing'[v] = writing[v]
    BY <1>0, <1>1, WriterMoves DEF Change
  <2>2. writing[w].at = "idle" /\ UNCHANGED <<handoff, notice, pc, stamped, opened, listening, relaunch>>
    BY <1>1 DEF Change, Idle
  <2>. QED
    BY <2>1, <2>2
<1>2. ASSUME NEW w \in Writer, Mark(w) PROVE Owed'
  <2>1. writing'[w].at = "queue" /\ \A v \in Writer \ {w} : writing'[v] = writing[v]
    BY <1>0, <1>2 DEF Mark
  <2>2. writing[w].at = "mark" /\ UNCHANGED <<mode, notice, pc, stamped, opened, listening, relaunch>>
    BY <1>2 DEF Mark
  <2>. QED
    BY <2>1, <2>2
<1>3. ASSUME NEW w \in Writer, QueueNotice(w) PROVE Owed'
  <2>1. writing'[w].at = "signal" /\ \A v \in Writer \ {w} : writing'[v] = writing[v]
    BY <1>0, <1>3 DEF QueueNotice
  <2>2. writing[w].at = "queue" /\ UNCHANGED <<mode, handoff, pc, stamped, opened, listening, relaunch>>
    BY <1>3 DEF QueueNotice
  <2>. QED
    BY <2>1, <2>2
<1>4. ASSUME NEW w \in Writer, Signal(w) PROVE Owed'
  <2>1. relaunch' = listening /\ UNCHANGED <<mode, handoff, notice, pc, stamped, opened, listening>>
    BY <1>4 DEF Signal
  <2>. QED
    BY <2>1
<1>5. ASSUME NEW r \in BOOLEAN, Start(r) PROVE Owed'
  BY <1>5 DEF Start
<1>6. CASE TakePrompt \/ Listen \/ Stamp \/ TakeHandoff \/ TakeNotice \/ Launch \/ Signalled \/ Stopped
  BY <1>6 DEF TakePrompt, Listen, Stamp, TakeHandoff, TakeNotice, Launch, Signalled, Stopped
<1>7. CASE Ends \/ RunnerFails
  BY <1>7 DEF Ends, RunnerFails, FallBack, Gone
<1>8. CASE Settle
  BY <1>8 DEF Settle
<1>9. CASE UNCHANGED vars
  BY <1>9 DEF vars
<1>. QED
  BY <1>1, <1>2, <1>3, <1>4, <1>5, <1>6, <1>7, <1>8, <1>9 DEF Next, Loop


LEMMA SupervisorStep == SupervisorInv /\ [Next]_vars => SupervisorInv'
  BY TypeStep, OwedStep DEF SupervisorInv

LEMMA SupervisorInit == Init => SupervisorInv
  BY TypeInit, OwedInit DEF SupervisorInv

LEMMA SupervisorShows == SupervisorInv => RunnerIsCurrent
  BY DEF SupervisorInv, Owed, Coming, RunnerIsCurrent, Quiescent, Looping, Idle

-----------------------------------------------------------------------------
(* The placement of a session's thoughts.  Only the session's own folder ever  *)
(* carries its marker, and a move under way has marked it before it leaves     *)
(* the place the link points at.                                             *)

\* The variables of Placement, by their names there.
cfg == v1
away == v2
folder == v3
mark == v4
link == v5
recorded == v6
op == v7
crashes == v8
USE DEF cfg, away, folder, mark, link, recorded, op, crashes

\* The marker is trusted: what carries it is the session's own folder.
MarkedIsHome == \A r \in Root : mark[r] = "ours" => Placement!Home(r)

\* Where a move is at each of its steps.
Under ==
    /\ op.pc \in {"mark", "rename"} => link = op.from /\ op.from # op.to
    /\ op.pc = "rename" => mark[op.from] = "ours"
    /\ op.pc = "swap" => mark[op.to] = "ours"
    /\ op.pc \in {"record", "unmark"} => link = op.to

PlacementInv == Placement!TypeOK /\ Placement!NeverLost /\ Placement!NeverAdopts /\ MarkedIsHome /\ Under

Ops == [pc : {"idle", "mark", "rename", "swap", "record", "unmark"}, from : Root, to : Root]

\* A place is a record of the type its fields have.
LEMMA OpField ==
    ASSUME NEW o \in Ops
    PROVE  /\ o.from \in Root /\ o.to \in Root
           /\ o.pc \in {"idle", "mark", "rename", "swap", "record", "unmark"}
           /\ \A p \in {"idle", "mark", "rename", "swap", "record", "unmark"} :
                 /\ [o EXCEPT !.pc = p] \in Ops
                 /\ [o EXCEPT !.pc = p].pc = p
                 /\ [o EXCEPT !.pc = p].from = o.from
                 /\ [o EXCEPT !.pc = p].to = o.to
  BY DEF Ops

LEMMA PlacementInit == Placement!Init => PlacementInv
<1>. SUFFICES ASSUME Placement!Init PROVE PlacementInv
  OBVIOUS
<1>1. Placement!TypeOK
  BY DEF Placement!Init, Placement!TypeOK, Placement!Marks
<1>2. Placement!NeverLost /\ Placement!NeverAdopts
  BY DEF Placement!Init, Placement!NeverLost, Placement!NeverAdopts, Placement!Home
<1>3. MarkedIsHome
  BY DEF Placement!Init, MarkedIsHome, Placement!Marks
<1>4. Under
  BY DEF Placement!Init, Under
<1>. QED
  BY <1>1, <1>2, <1>3, <1>4 DEF PlacementInv

-----------------------------------------------------------------------------
(* One lemma for the steps that only decide, and one for each that writes.    *)

\* A scan or a move begins, or gives up.
LEMMA Decides ==
    ASSUME PlacementInv, UNCHANGED <<folder, mark, link, recorded, cfg, away, crashes>>,
           \/ Placement!ScanPlaced \/ Placement!ScanStranded \/ Placement!Move \/ Placement!Refused
    PROVE  PlacementInv'
<1>1. op \in Ops
  BY DEF PlacementInv, Placement!TypeOK, Ops
<1>2. op' \in Ops
  <2>1. CASE Placement!Refused
    BY <2>1, <1>1, OpField DEF Placement!Refused
  <2>2. CASE Placement!ScanPlaced \/ Placement!ScanStranded \/ Placement!Move
    <3>1. link \in Root /\ cfg.routed \in Root /\ Placement!Reached \subseteq Root
      BY DEF PlacementInv, Placement!TypeOK, Placement!Configs, Placement!Reached
    <3>. QED
      BY <2>2, <3>1 DEF Placement!ScanPlaced, Placement!ScanStranded, Placement!Move, Placement!Goes, Ops
  <2>. QED
    BY <2>1, <2>2
<1>3. Placement!TypeOK'
  BY <1>2 DEF PlacementInv, Placement!TypeOK, Ops, Placement!Home
<1>4. Placement!NeverLost' /\ Placement!NeverAdopts' /\ MarkedIsHome'
  BY DEF PlacementInv, Placement!NeverLost, Placement!NeverAdopts, MarkedIsHome, Placement!Home
<1>5. Under'
  <2>1. CASE Placement!ScanPlaced
    BY <2>1 DEF Placement!ScanPlaced, Placement!Goes, Under
  <2>2. CASE Placement!ScanStranded
    BY <2>2 DEF Placement!ScanStranded, Placement!Reached, Placement!Goes, Under
  <2>3. CASE Placement!Move
    BY <2>3 DEF Placement!Move, Placement!Placed, Placement!Movable, Placement!Goes, Under
  <2>4. CASE Placement!Refused
    <3>1. op'.pc = "idle"
      BY <2>4, <1>1, OpField DEF Placement!Refused
    <3>. QED
      BY <3>1 DEF Under
  <2>. QED
    BY <2>1, <2>2, <2>3, <2>4
<1>. QED
  BY <1>3, <1>4, <1>5 DEF PlacementInv

LEMMA WriteMarkKeeps == PlacementInv /\ Placement!WriteMark => PlacementInv'
<1>. SUFFICES ASSUME PlacementInv, Placement!WriteMark PROVE PlacementInv'
  OBVIOUS
<1>1. op \in Ops /\ mark \in [Root -> Placement!Marks] /\ link = op.from
  BY DEF PlacementInv, Placement!TypeOK, Ops, Under, Placement!WriteMark
<1>2. op' \in Ops /\ op'.pc = "rename" /\ op'.from = op.from /\ op'.to = op.to
  BY <1>1, OpField DEF Placement!WriteMark
<1>3. op.from \in Root
  BY <1>1, OpField
<1>4. Placement!Home(op.from)
  BY <1>1, <1>3 DEF PlacementInv, Placement!TypeOK, Placement!NeverAdopts, Placement!WriteMark, Placement!There, Placement!Home
<1>5. /\ mark' \in [Root -> Placement!Marks]
      /\ mark'[op.from] = "ours"
      /\ \A r \in Root \ {op.from} : mark'[r] = mark[r]
  BY <1>1, <1>3 DEF Placement!WriteMark, Placement!Marks
<1>6. Placement!TypeOK'
  BY <1>2, <1>5 DEF PlacementInv, Placement!TypeOK, Ops, Placement!WriteMark, Placement!Home, Placement!env
<1>7. Placement!NeverLost' /\ Placement!NeverAdopts' /\ MarkedIsHome'
  BY <1>4, <1>5 DEF PlacementInv, Placement!NeverLost, Placement!NeverAdopts, MarkedIsHome, Placement!WriteMark, Placement!Home
<1>8. Under'
  BY <1>1, <1>2, <1>5 DEF PlacementInv, Under, Placement!WriteMark
<1>. QED
  BY <1>6, <1>7, <1>8 DEF PlacementInv

LEMMA RenameKeeps == PlacementInv /\ Placement!Rename => PlacementInv'
<1>. SUFFICES ASSUME PlacementInv, Placement!Rename PROVE PlacementInv'
  OBVIOUS
<1>1. op \in Ops /\ mark \in [Root -> Placement!Marks] /\ folder \in [Root -> {"none", "own", "other"}]
  BY DEF PlacementInv, Placement!TypeOK, Ops
<1>2. /\ op.from # op.to /\ mark[op.from] = "ours" /\ link = op.from
      /\ folder[op.to] = "none"
  BY DEF PlacementInv, Under, Placement!Rename, Placement!There
<1>3. op' \in Ops /\ op'.pc = "swap" /\ op'.from = op.from /\ op'.to = op.to
  BY <1>1, OpField DEF Placement!Rename
<1>4. op.from \in Root /\ op.to \in Root
  BY <1>1, OpField
<1>5. Placement!Home(op.from)
  BY <1>2, <1>4 DEF PlacementInv, MarkedIsHome
<1>6. /\ mark' \in [Root -> Placement!Marks]
      /\ mark'[op.from] = "none" /\ mark'[op.to] = "ours"
      /\ \A r \in Root \ {op.from, op.to} : mark'[r] = mark[r]
  BY <1>1, <1>2, <1>4 DEF Placement!Rename, Placement!Marks
<1>7. /\ folder' \in [Root -> {"none", "own", "other"}]
      /\ folder'[op.from] = "none" /\ folder'[op.to] = "own"
      /\ \A r \in Root \ {op.from, op.to} : folder'[r] = folder[r]
  BY <1>1, <1>2, <1>4, <1>5 DEF Placement!Rename, Placement!Home
<1>8. \A r \in Root : Placement!Home(r)' <=> r = op.to
  BY <1>4, <1>5, <1>7, <1>2 DEF PlacementInv, Placement!TypeOK, Placement!Home
<1>9. Placement!TypeOK'
  <2>1. (\A r \in Root, s \in Root : Placement!Home(r) /\ Placement!Home(s) => r = s)' /\ (\E r \in Root : Placement!Home(r))'
    BY <1>4, <1>8
  <2>. QED
    BY <2>1, <1>3, <1>6, <1>7 DEF PlacementInv, Placement!TypeOK, Ops, Placement!Rename, Placement!env
<1>10. Placement!NeverLost' /\ MarkedIsHome'
  <2>1. Placement!NeverLost'
    BY <1>8, <1>6 DEF Placement!NeverLost
  <2>2. ASSUME NEW r \in Root, mark'[r] = "ours" PROVE r = op.to
    BY <2>2, <1>2, <1>4, <1>5, <1>6 DEF PlacementInv, Placement!TypeOK, MarkedIsHome
  <2>. QED
    BY <2>1, <2>2, <1>8 DEF MarkedIsHome
<1>11. Placement!NeverAdopts'
  BY <1>2, <1>4, <1>7 DEF Placement!NeverAdopts, Placement!Rename
<1>12. Under'
  BY <1>3, <1>6 DEF Under
<1>. QED
  BY <1>9, <1>10, <1>11, <1>12 DEF PlacementInv

LEMMA SwapKeeps == PlacementInv /\ Placement!Swap => PlacementInv'
<1>. SUFFICES ASSUME PlacementInv, Placement!Swap PROVE PlacementInv'
  OBVIOUS
<1>1. op \in Ops
  BY DEF PlacementInv, Placement!TypeOK, Ops
<1>2. op' \in Ops /\ op'.pc = "record" /\ op'.to = op.to /\ op.to \in Root
  BY <1>1, OpField DEF Placement!Swap
<1>3. Placement!Home(op.to)
  BY <1>2 DEF PlacementInv, Under, MarkedIsHome, Placement!Swap
<1>4. Placement!TypeOK'
  BY <1>2 DEF PlacementInv, Placement!TypeOK, Ops, Placement!Swap, Placement!Home, Placement!env
<1>5. Placement!NeverLost' /\ Placement!NeverAdopts' /\ MarkedIsHome'
  BY <1>2, <1>3 DEF PlacementInv, Placement!TypeOK, Placement!NeverLost, Placement!NeverAdopts, MarkedIsHome, Placement!Swap, Placement!Home
<1>6. Under'
  BY <1>2 DEF Under, Placement!Swap
<1>. QED
  BY <1>4, <1>5, <1>6 DEF PlacementInv

LEMMA RecordKeeps == PlacementInv /\ Placement!Record => PlacementInv'
<1>. SUFFICES ASSUME PlacementInv, Placement!Record PROVE PlacementInv'
  OBVIOUS
<1>1. op \in Ops
  BY DEF PlacementInv, Placement!TypeOK, Ops
<1>2. op' \in Ops /\ op'.pc = "unmark" /\ op'.to = op.to /\ op.to \in Root
  BY <1>1, OpField DEF Placement!Record
<1>3. Placement!TypeOK'
  BY <1>2 DEF PlacementInv, Placement!TypeOK, Ops, Placement!Record, Placement!Home, Placement!env
<1>4. Placement!NeverLost' /\ Placement!NeverAdopts' /\ MarkedIsHome'
  BY DEF PlacementInv, Placement!NeverLost, Placement!NeverAdopts, MarkedIsHome, Placement!Record, Placement!Home
<1>5. Under'
  BY <1>2 DEF PlacementInv, Under, Placement!Record
<1>. QED
  BY <1>3, <1>4, <1>5 DEF PlacementInv

\* Taking a marker off where the link points loses nothing.
LEMMA Unmarks ==
    ASSUME PlacementInv, UNCHANGED <<folder, link, recorded, Placement!env>>, op' \in Ops, crashes' \in Nat,
           op'.pc = "idle",
           mark' = mark \/ mark' = [mark EXCEPT ![link] = "none"]
    PROVE  PlacementInv'
<1>1. mark \in [Root -> Placement!Marks] /\ link \in Root
  BY DEF PlacementInv, Placement!TypeOK
<1>2. mark' \in [Root -> Placement!Marks]
  BY <1>1 DEF Placement!Marks
<1>3. \A r \in Root \ {link} : mark'[r] = mark[r]
  BY <1>1
<1>4. mark'[link] = "ours" => mark[link] = "ours"
  BY <1>1
<1>5. Placement!TypeOK'
  BY <1>2 DEF PlacementInv, Placement!TypeOK, Ops, Placement!Home, Placement!env
<1>6. Placement!NeverLost' /\ Placement!NeverAdopts' /\ MarkedIsHome'
  BY <1>1, <1>3, <1>4 DEF PlacementInv, Placement!NeverLost, Placement!NeverAdopts, MarkedIsHome, Placement!Home
<1>7. Under'
  BY DEF Under
<1>. QED
  BY <1>5, <1>6, <1>7 DEF PlacementInv

LEMMA UnmarkKeeps == PlacementInv /\ (Placement!Unmark \/ Placement!ScanClears \/ Placement!Abandon) => PlacementInv'
<1>1. ASSUME PlacementInv, Placement!Unmark PROVE PlacementInv'
  <2>1. op \in Ops
    BY <1>1 DEF PlacementInv, Placement!TypeOK, Ops
  <2>2. op' = [op EXCEPT !.pc = "idle"] /\ UNCHANGED crashes
    BY <1>1 DEF Placement!Unmark
  <2>3. op' \in Ops /\ op'.pc = "idle"
    BY <2>1, <2>2 DEF Ops
  <2>4. link = op.to /\ crashes \in Nat
    BY <1>1 DEF PlacementInv, Placement!TypeOK, Under, Placement!Unmark
  <2>. QED
    BY <1>1, <2>2, <2>3, <2>4, Unmarks DEF Placement!Unmark
<1>2. ASSUME PlacementInv, Placement!ScanClears PROVE PlacementInv'
  <2>1. op \in Ops /\ crashes \in Nat
    BY <1>2 DEF PlacementInv, Placement!TypeOK, Ops
  <2>. QED
    BY <1>2, <2>1, Unmarks DEF Placement!ScanClears
<1>3. ASSUME PlacementInv, Placement!Abandon PROVE PlacementInv'
  <2>1. op \in Ops /\ crashes \in Nat
    BY <1>3 DEF PlacementInv, Placement!TypeOK, Ops
  <2>2. op' \in Ops /\ op'.pc = "idle"
    BY <1>3, <2>1, OpField DEF Placement!Abandon
  <2>3. crashes' \in Nat
    BY <1>3, <2>1 DEF Placement!Abandon
  <2>4. op.pc = "mark" => link = op.from
    BY <1>3 DEF PlacementInv, Under
  <2>. QED
    BY <1>3, <2>2, <2>3, <2>4, Unmarks DEF Placement!Abandon
<1>. QED
  BY <1>1, <1>2, <1>3

LEMMA DeliveryKeeps ==
    ASSUME PlacementInv, NEW r \in Root, Placement!Delivered(r) \/ Placement!Withdrawn(r)
    PROVE  PlacementInv'
<1>1. /\ mark \in [Root -> Placement!Marks] /\ folder \in [Root -> {"none", "own", "other"}]
      /\ UNCHANGED <<link, recorded, cfg, away, op, crashes>>
  BY DEF PlacementInv, Placement!TypeOK, Placement!Delivered, Placement!Withdrawn, Placement!env
<1>3. /\ mark' \in [Root -> Placement!Marks] /\ mark'[r] # "ours"
      /\ \A s \in Root \ {r} : mark'[s] = mark[s]
  BY <1>1 DEF Placement!Delivered, Placement!Withdrawn, Placement!Marks
<1>4. /\ folder' \in [Root -> {"none", "own", "other"}] /\ folder'[r] # "own"
      /\ r = link => folder'[r] # "other"
      /\ \A s \in Root \ {r} : folder'[s] = folder[s]
  BY <1>1 DEF Placement!Delivered, Placement!Withdrawn
<1>5. ~Placement!Home(r) /\ mark[r] # "ours"
  BY DEF PlacementInv, MarkedIsHome, Placement!Delivered, Placement!Withdrawn, Placement!Home
<1>6. \A s \in Root : Placement!Home(s)' <=> Placement!Home(s)
  BY <1>4, <1>5 DEF Placement!Home
<1>7. \A s \in Root : mark'[s] = "ours" <=> mark[s] = "ours"
  BY <1>3, <1>5
<1>8. Placement!TypeOK'
  <2>1. (\A s \in Root, t \in Root : Placement!Home(s) /\ Placement!Home(t) => s = t)' /\ (\E s \in Root : Placement!Home(s))'
    BY <1>6 DEF PlacementInv, Placement!TypeOK
  <2>. QED
    BY <2>1, <1>1, <1>3, <1>4 DEF PlacementInv, Placement!TypeOK
<1>9. Placement!NeverLost' /\ MarkedIsHome'
  BY <1>1, <1>6, <1>7 DEF PlacementInv, Placement!NeverLost, MarkedIsHome
<1>10. Placement!NeverAdopts'
  BY <1>1, <1>4 DEF PlacementInv, Placement!TypeOK, Placement!NeverAdopts
<1>11. Under'
  <2>1. op.from \in Root /\ op.to \in Root
    BY OpField DEF PlacementInv, Placement!TypeOK, Ops
  <2>. QED
    BY <2>1, <1>1, <1>7 DEF PlacementInv, Under
<1>. QED
  BY <1>8, <1>9, <1>10, <1>11 DEF PlacementInv

\* The roots change under a move: nothing it relies on does.
LEMMA SurroundingsKeep ==
    ASSUME PlacementInv, Placement!Reroute \/ \E r \in Root : Placement!Mounts(r)
    PROVE  PlacementInv'
<1>1. UNCHANGED <<folder, mark, link, recorded, op, crashes>>
  BY DEF Placement!Reroute, Placement!Mounts, Placement!disk
<1>2. cfg' \in Placement!Configs /\ away' \subseteq Root
  BY DEF PlacementInv, Placement!TypeOK, Placement!Reroute, Placement!Mounts
<1>3. Placement!TypeOK'
  BY <1>1, <1>2 DEF PlacementInv, Placement!TypeOK, Placement!Home
<1>. QED
  BY <1>1, <1>3 DEF PlacementInv, Placement!NeverLost, Placement!NeverAdopts, MarkedIsHome, Under, Placement!Home

LEMMA PlacementStep == PlacementInv /\ [Placement!Next]_(Placement!vars) => PlacementInv'
<1>. SUFFICES ASSUME PlacementInv, [Placement!Next]_(Placement!vars) PROVE PlacementInv'
  OBVIOUS
<1>1. CASE Placement!ScanPlaced \/ Placement!ScanStranded \/ Placement!Move \/ Placement!Refused
  BY <1>1, Decides DEF Placement!ScanPlaced, Placement!ScanStranded, Placement!Move, Placement!Refused, Placement!disk, Placement!env
<1>2. CASE Placement!Step
  BY <1>2, WriteMarkKeeps, RenameKeeps, SwapKeeps, RecordKeeps, UnmarkKeeps DEF Placement!Step
<1>3. CASE Placement!ScanClears \/ Placement!Abandon
  BY <1>3, UnmarkKeeps
<1>4. CASE \E r \in Root : Placement!Delivered(r) \/ Placement!Withdrawn(r)
  BY <1>4, DeliveryKeeps
<1>5. CASE Placement!Reroute \/ \E r \in Root : Placement!Mounts(r)
  BY <1>5, SurroundingsKeep
<1>6. CASE UNCHANGED Placement!vars
  BY <1>6 DEF Placement!vars, PlacementInv, Placement!TypeOK, Placement!NeverLost, Placement!NeverAdopts, MarkedIsHome, Under, Placement!Home
<1>. QED
  BY <1>1, <1>2, <1>3, <1>4, <1>5, <1>6 DEF Placement!Next, Placement!Scan


-----------------------------------------------------------------------------
(* The services of the vault's roots.  Each profile's service is one made for  *)
(* it, so that no other profile's can be dropped in its place, and nothing is  *)
(* warmed before the first warm up.                                          *)

\* The variables of VaultSet, by their names there.
made == v1
services == v2
stops == v3
warm == v4
cancelled == v5
warming == v6
embedding == v7
held == v8
USE DEF made, services, stops, warm, cancelled, warming, embedding, held

ItsOwn == \A i \in Profile : services[i] # 0 => made[services[i]].id = i

ColdBefore == ~warm => \A i \in Profile : stops[i] = 0

VaultSetInv ==
    VaultSet!VaultSetTypeOK /\ VaultSet!WarmedIfConfigured /\ ItsOwn /\ ColdBefore

Services == [id : Profile, path : Path]

LEMMA VaultSetInit == VaultSet!Init => VaultSetInv
<1>. SUFFICES ASSUME VaultSet!Init PROVE VaultSetInv
  OBVIOUS
<1>1. made \in Seq(Services) /\ Len(made) = 0
  BY DEF VaultSet!Init
<1>2. VaultSet!VaultSetTypeOK
  <2>1. 0 \in 0..Len(made)
    BY <1>1
  <2>. QED
    BY <1>1, <2>1, Zenon DEF VaultSet!Init, VaultSet!VaultSetTypeOK, VaultSet!Made, Services
<1>. QED
  BY <1>2 DEF VaultSet!Init, VaultSetInv, VaultSet!WarmedIfConfigured, VaultSet!Current, ItsOwn, ColdBefore

LEMMA SameCardinality ==
    \A S : /\ VaultSet!IsFiniteSet(S) <=> IsFiniteSet(S)
           /\ VaultSet!Cardinality(S) = Cardinality(S)
<1>. SUFFICES ASSUME NEW S
              PROVE  /\ VaultSet!IsFiniteSet(S) <=> IsFiniteSet(S)
                     /\ VaultSet!Cardinality(S) = Cardinality(S)
  OBVIOUS
<1>1. VaultSet!IsFiniteSet(S) <=> IsFiniteSet(S)
  BY DEF VaultSet!IsFiniteSet, IsFiniteSet
<1>2. VaultSet!Cardinality(S) = Cardinality(S)
  BY Zenon DEF VaultSet!Cardinality, Cardinality
<1>. QED
  BY <1>1, <1>2

LEMMA IntervalCount ==
    ASSUME NEW m \in Nat, NEW c \in Nat
    PROVE  IsFiniteSet((m + 1)..(m + c)) /\ Cardinality((m + 1)..(m + c)) = c
<1>. DEFINE a == m + 1
            b == m + c
<1>1. a \in Int /\ b \in Int /\ (a > b => c = 0) /\ (a <= b => b - a + 1 = c)
  OBVIOUS
<1>. HIDE DEF a, b
<1>2. IsFiniteSet(a..b) /\ Cardinality(a..b) = IF a > b THEN 0 ELSE b - a + 1
  BY <1>1, FS_Interval
<1>3. IsFiniteSet(a..b) /\ Cardinality(a..b) = c
  BY <1>1, <1>2
<1>. QED
  BY <1>3 DEF a, b

\* The profiles whose root needs a service of its own.
Unserved(p) == {i \in Profile : p[i] # VaultSet!NoRoot /\ ~VaultSet!Kept(p, i)}

\* Their services are numbered one each, and all the numbers are used.
LEMMA NumbersAreUsed ==
    ASSUME made \in Seq(Services), NEW p, NEW fresh \in VaultSet!Added(p)
    PROVE  /\ Cardinality(Unserved(p)) \in Nat /\ DOMAIN fresh = Unserved(p)
           /\ fresh \in [Unserved(p) -> (Len(made) + 1)..(Len(made) + Cardinality(Unserved(p)))]
           /\ \A i, j \in Unserved(p) : fresh[i] = fresh[j] => i = j
           /\ \A n \in (Len(made) + 1)..(Len(made) + Cardinality(Unserved(p))) :
                 \E i \in Unserved(p) : fresh[i] = n
<1>. DEFINE F == Unserved(p)
            C == Cardinality(F)
            N == (Len(made) + 1)..(Len(made) + C)
<1>1. IsFiniteSet(F) /\ C \in Nat
  <2>1. IsFiniteSet(Profile) /\ F \in SUBSET Profile
    BY PartsAssumption, SameCardinality DEF VaultSet!VaultSetAssumption, Unserved
  <2>. QED
    BY <2>1, FS_Subset, FS_CardinalityType
<1>2. fresh \in [F -> N] /\ \A i, j \in F : fresh[i] = fresh[j] => i = j
  BY SameCardinality DEF VaultSet!Added, Unserved
<1>3. Len(made) \in Nat
  OBVIOUS
<1>4. IsFiniteSet(N) /\ Cardinality(N) = C
  BY <1>1, <1>3, IntervalCount
<1>5. fresh \in Injection(F, N)
  BY <1>2 DEF Injection, IsInjective
<1>6. fresh \in Surjection(F, N)
  BY <1>4, <1>5, FS_Injection
<1>. QED
  BY <1>1, <1>2, <1>6 DEF Surjection

LEMMA WarmKeeps == VaultSetInv /\ VaultSet!Warm => VaultSetInv'
<1>. SUFFICES ASSUME VaultSetInv, VaultSet!Warm PROVE VaultSetInv'
  OBVIOUS
<1>. DEFINE cold == {i \in Profile : services[i] # 0 /\ stops[i] = 0}
<1>1. /\ warm' = TRUE /\ UNCHANGED <<made, services, cancelled, embedding, held>>
      /\ stops' = [i \in Profile |-> IF i \in cold THEN services[i] ELSE stops[i]]
      /\ warming' = warming \cup {services[i] : i \in cold}
  BY DEF VaultSet!Warm, VaultSet!Warmed
<1>2. services \in [Profile -> 0..Len(made)] /\ Len(made) \in Nat
  BY DEF VaultSetInv, VaultSet!VaultSetTypeOK
<1>3. \A i \in Profile : stops'[i] = services[i]
  BY <1>1 DEF VaultSetInv, ColdBefore, VaultSet!Warm
<1>4. {services[i] : i \in cold} \subseteq 1..Len(made)
  BY <1>2
<1>5. stops' \in [Profile -> 0..Len(made)]
  BY <1>1, <1>2, <1>3
<1>6. VaultSet!VaultSetTypeOK'
  BY <1>1, <1>4, <1>5 DEF VaultSetInv, VaultSet!VaultSetTypeOK, VaultSet!Made
<1>. QED
  BY <1>1, <1>3, <1>6
  DEF VaultSetInv, VaultSet!WarmedIfConfigured, VaultSet!Current, ItsOwn, ColdBefore

\* The roots a configuration keeps keep their services, each warm, and the ones it
\* adds get services nothing of which was cancelled.
LEMMA ConfigureKeeps ==
    ASSUME VaultSetInv, NEW p \in [Profile -> Path \cup {VaultSet!NoRoot}], VaultSet!Configure(p)
    PROVE  VaultSetInv'
<1>1. PICK fresh \in VaultSet!Added(p) :
        LET next == [i \in Profile |-> IF VaultSet!Kept(p, i) THEN services[i]
                                  ELSE IF p[i] = VaultSet!NoRoot THEN 0 ELSE fresh[i]]
            left == [i \in Profile |-> IF i \in VaultSet!Dropped(p) THEN 0 ELSE stops[i]]
            C == VaultSet!Cardinality(DOMAIN fresh)
        IN /\ made' = [n \in 1..(Len(made) + C) |->
                         IF n \in VaultSet!Made THEN made[n]
                         ELSE LET i == CHOOSE i \in DOMAIN fresh : fresh[i] = n
                              IN [id |-> i, path |-> p[i]]]
           /\ services' = next
           /\ cancelled' = cancelled \cup {stops[i] : i \in VaultSet!Dropped(p)}
           /\ IF warm THEN VaultSet!Warmed(next, left) ELSE stops' = left /\ UNCHANGED warming
           /\ UNCHANGED <<warm, embedding, held>>
  BY DEF VaultSet!Configure
<1>. DEFINE F == Unserved(p)
            C == Cardinality(F)
            L == Len(made)
            next == [i \in Profile |-> IF VaultSet!Kept(p, i) THEN services[i]
                                  ELSE IF p[i] = VaultSet!NoRoot THEN 0 ELSE fresh[i]]
            left == [i \in Profile |-> IF i \in VaultSet!Dropped(p) THEN 0 ELSE stops[i]]
<1>2. /\ made \in Seq(Services) /\ L \in Nat
      /\ services \in [Profile -> 0..L] /\ stops \in [Profile -> 0..L]
      /\ cancelled \subseteq 1..L /\ warming \subseteq 1..L /\ warm \in BOOLEAN
  BY DEF VaultSetInv, VaultSet!VaultSetTypeOK, VaultSet!Made, Services
<1>3. /\ C \in Nat /\ DOMAIN fresh = F /\ fresh \in [F -> (L + 1)..(L + C)]
      /\ \A i, j \in F : fresh[i] = fresh[j] => i = j
      /\ \A n \in (L + 1)..(L + C) : \E i \in F : fresh[i] = n
  BY <1>2, NumbersAreUsed
<1>. HIDE DEF C
<1>. USE DEF Unserved
<1>4. /\ made' = [n \in 1..(L + C) |-> IF n \in 1..L THEN made[n]
                    ELSE LET i == CHOOSE i \in F : fresh[i] = n IN [id |-> i, path |-> p[i]]]
      /\ services' = next
      /\ cancelled' = cancelled \cup {stops[i] : i \in VaultSet!Dropped(p)}
      /\ IF warm THEN VaultSet!Warmed(next, left) ELSE stops' = left /\ UNCHANGED warming
      /\ UNCHANGED <<warm, embedding, held>>
  BY <1>1, <1>3, SameCardinality DEF VaultSet!Made, C
<1>5. \A n \in 1..(L + C) : made'[n] \in Services /\ (n \in 1..L => made'[n] = made[n])
  <2>. SUFFICES ASSUME NEW n \in 1..(L + C)
                PROVE  made'[n] \in Services /\ (n \in 1..L => made'[n] = made[n])
    OBVIOUS
  <2>1. CASE n \in 1..L
    BY <2>1, <1>2, <1>4
  <2>2. CASE n \notin 1..L
    <3>1. n \in (L + 1)..(L + C)
      BY <2>2, <1>2, <1>3
    <3>. DEFINE i == CHOOSE i \in F : fresh[i] = n
    <3>2. i \in F
      BY <3>1, <1>3
    <3>3. made'[n] = [id |-> i, path |-> p[i]]
      BY <2>2, <1>4
    <3>. HIDE DEF i
    <3>. QED
      BY <2>2, <3>2, <3>3 DEF Services
  <2>. QED
    BY <2>1, <2>2
<1>6. made' \in Seq(Services) /\ Len(made') = L + C
  <2>1. L + C \in Nat
    BY <1>2, <1>3
  <2>. DEFINE N == L + C
  <2>. HIDE DEF N
  <2>2. made' \in [1..N -> Services]
    BY <1>4, <1>5 DEF N
  <2>3. made' \in Seq(Services) /\ Len(made') = N
    BY <2>1, <2>2 DEF N
  <2>. QED
    BY <2>3 DEF N
<1>7. \A i \in F : fresh[i] \in (L + 1)..(L + C) /\ made'[fresh[i]].id = i
  <2>. SUFFICES ASSUME NEW i \in F PROVE fresh[i] \in (L + 1)..(L + C) /\ made'[fresh[i]].id = i
    OBVIOUS
  <2>1. fresh[i] \in (L + 1)..(L + C) /\ fresh[i] \in 1..(L + C) /\ fresh[i] \notin 1..L
    BY <1>2, <1>3
  <2>2. (CHOOSE j \in F : fresh[j] = fresh[i]) = i
    BY <1>3
  <2>. QED
    BY <1>4, <2>1, <2>2
<1>8. \A i \in Profile : VaultSet!Kept(p, i) =>
         /\ services[i] \in 1..L /\ made[services[i]].id = i
         /\ made'[services[i]] = made[services[i]]
  BY <1>2, <1>3, <1>5 DEF VaultSet!Kept, VaultSetInv, ItsOwn
<1>9. services' \in [Profile -> 0..(L + C)] /\ ItsOwn'
  <2>1. \A i \in Profile : next[i] \in 0..(L + C) /\ (next[i] # 0 => made'[next[i]].id = i)
    BY <1>2, <1>3, <1>7, <1>8
  <2>. HIDE DEF next
  <2>2. services' \in [Profile -> 0..(L + C)]
    BY <1>4, <2>1 DEF next
  <2>. QED
    BY <1>4, <2>1, <2>2 DEF ItsOwn
<1>10. /\ stops' \in [Profile -> 0..(L + C)] /\ warming' \subseteq 1..(L + C)
       /\ warm' => \A i \in Profile : stops'[i] = services'[i]
       /\ ColdBefore'
  <2>1. \A i \in Profile : left[i] \in 0..L
    BY <1>2
  <2>2. CASE warm
    <3>. DEFINE cold == {i \in Profile : next[i] # 0 /\ left[i] = 0}
    <3>1. /\ stops' = [i \in Profile |-> IF i \in cold THEN next[i] ELSE left[i]]
          /\ warming' = warming \cup {next[i] : i \in cold}
      BY <2>2, <1>4 DEF VaultSet!Warmed
    <3>2. \A i \in Profile : stops'[i] = next[i]
      <4>. SUFFICES ASSUME NEW i \in Profile PROVE stops'[i] = next[i]
        OBVIOUS
      <4>0. stops[i] = services[i]
        BY <2>2 DEF VaultSetInv, VaultSet!WarmedIfConfigured
      <4>1. CASE VaultSet!Kept(p, i)
        <5>1. left[i] = stops[i] /\ next[i] = services[i]
          BY <4>1 DEF VaultSet!Dropped
        <5>. QED
          BY <5>1, <4>0, <3>1
      <4>2. CASE ~VaultSet!Kept(p, i)
        <5>1. left[i] = 0
          BY <4>2 DEF VaultSet!Dropped
        <5>. QED
          BY <5>1, <3>1
      <4>. QED
        BY <4>1, <4>2
    <3>3. \A i \in Profile : next[i] \in 0..(L + C)
      BY <1>4, <1>9
    <3>. HIDE DEF next, left
    <3>4. stops' \in [Profile -> 0..(L + C)]
      BY <3>1, <3>2, <3>3
    <3>5. warming' \subseteq 1..(L + C)
      BY <3>1, <3>3, <1>2, <1>3
    <3>. QED
      BY <2>2, <3>2, <3>4, <3>5, <1>4 DEF ColdBefore
  <2>3. CASE ~warm
    <3>1. stops' = left /\ warming' = warming /\ warm' = warm
      BY <2>3, <1>4
    <3>2. \A i \in Profile : left[i] = 0
      BY <2>3 DEF VaultSetInv, ColdBefore
    <3>3. left \in [Profile -> 0..(L + C)]
      <4>1. 0 \in 0..(L + C)
        BY <1>2, <1>3
      <4>. QED
        BY <3>2, <4>1
    <3>4. warming \subseteq 1..(L + C)
      BY <1>2, <1>3
    <3>. HIDE DEF left
    <3>. QED
      BY <2>3, <3>1, <3>2, <3>3, <3>4 DEF ColdBefore
  <2>. QED
    BY <2>2, <2>3, <1>2
<1>11. cancelled' \subseteq 1..L /\ cancelled' \cap VaultSet!Current' = {}
  <2>1. \A j \in VaultSet!Dropped(p) : stops[j] \in 1..L
    BY <1>2 DEF VaultSet!Dropped
  <2>2. cancelled' \subseteq 1..L
    BY <2>1, <1>2, <1>4
  <2>3. ASSUME NEW i \in Profile, next[i] # 0, next[i] \in cancelled' PROVE FALSE
    <3>1. CASE VaultSet!Kept(p, i)
      <4>1. next[i] = services[i] /\ services[i] # 0
        BY <3>1, <2>3
      <4>2. services[i] \notin cancelled
        BY <4>1 DEF VaultSetInv, VaultSet!WarmedIfConfigured, VaultSet!Current
      <4>3. PICK j \in VaultSet!Dropped(p) : stops[j] = services[i]
        BY <4>1, <4>2, <2>3, <1>4
      <4>4. j \in Profile /\ stops[j] # 0 /\ ~VaultSet!Kept(p, j)
        BY DEF VaultSet!Dropped
      <4>5. stops[j] = services[j]
        BY <4>4 DEF VaultSetInv, ColdBefore, VaultSet!WarmedIfConfigured
      <4>6. j = i
        BY <4>1, <4>3, <4>4, <4>5 DEF VaultSetInv, ItsOwn
      <4>. QED
        BY <3>1, <4>4, <4>6
    <3>2. CASE ~VaultSet!Kept(p, i)
      <4>1. next[i] \in (L + 1)..(L + C)
        BY <3>2, <2>3, <1>3
      <4>. QED
        BY <4>1, <2>2, <2>3, <1>2, <1>3
    <3>. QED
      BY <3>1, <3>2
  <2>. QED
    BY <2>2, <2>3, <1>4 DEF VaultSet!Current
<1>12. VaultSet!VaultSetTypeOK'
  <2>1. 1..L \subseteq 1..(L + C)
    BY <1>2, <1>3
  <2>2. /\ embedding' \subseteq [service : 1..(L + C), by : {"warm", "search"}]
        /\ held' \subseteq 1..(L + C) /\ cancelled' \subseteq 1..(L + C) /\ warm' \in BOOLEAN
    <3>1. embedding \subseteq [service : 1..L, by : {"warm", "search"}] /\ held \subseteq 1..L
      BY DEF VaultSetInv, VaultSet!VaultSetTypeOK, VaultSet!Made
    <3>. QED
      BY <2>1, <3>1, <1>2, <1>4, <1>11
  <2>. QED
    BY <1>6, <1>9, <1>10, <2>2 DEF VaultSet!VaultSetTypeOK, VaultSet!Made, Services
<1>. QED
  BY <1>9, <1>10, <1>11, <1>12 DEF VaultSetInv, VaultSet!WarmedIfConfigured

LEMMA VaultSetStep == VaultSetInv /\ [VaultSet!Next]_(VaultSet!vaultSetVars) => VaultSetInv'
<1>. SUFFICES ASSUME VaultSetInv, [VaultSet!Next]_(VaultSet!vaultSetVars) PROVE VaultSetInv'
  OBVIOUS
<1>. USE DEF VaultSetInv, VaultSet!VaultSetTypeOK, VaultSet!Made, VaultSet!WarmedIfConfigured,
             VaultSet!Current, ItsOwn, ColdBefore
<1>1. CASE VaultSet!Warm
  BY <1>1, WarmKeeps
<1>2. ASSUME NEW p \in [Profile -> Path \cup {VaultSet!NoRoot}], VaultSet!Configure(p) PROVE VaultSetInv'
  BY <1>2, ConfigureKeeps
<1>3. ASSUME NEW i \in Profile, VaultSet!Hand(i) PROVE VaultSetInv'
  <2>1. services[i] \in 1..Len(made)
    BY <1>3 DEF VaultSet!Hand
  <2>. QED
    BY <1>3, <2>1 DEF VaultSet!Hand
<1>4. ASSUME NEW n \in VaultSet!Made, VaultSet!WarmBuilds(n) \/ VaultSet!SearchBuilds(n) PROVE VaultSetInv'
  <2>1. embedding' \subseteq [service : 1..Len(made), by : {"warm", "search"}]
    BY <1>4 DEF VaultSet!WarmBuilds, VaultSet!SearchBuilds
  <2>2. /\ UNCHANGED <<made, services, stops, warm, cancelled>>
        /\ warming' \subseteq warming /\ held' \subseteq held
    BY <1>4 DEF VaultSet!WarmBuilds, VaultSet!SearchBuilds
  <2>3. VaultSet!VaultSetTypeOK'
    BY <2>1, <2>2
  <2>. QED
    BY <2>2, <2>3
<1>5. ASSUME NEW b \in embedding, VaultSet!BuildEnds(b) PROVE VaultSetInv'
  BY <1>5 DEF VaultSet!BuildEnds
<1>6. CASE UNCHANGED VaultSet!vaultSetVars
  BY <1>6 DEF VaultSet!vaultSetVars
<1>. QED
  BY <1>1, <1>2, <1>3, <1>4, <1>5, <1>6 DEF VaultSet!Next

-----------------------------------------------------------------------------
(* The text index of a root.  A stamp is never newer than the edits, so that   *)
(* an edit after the walk leaves the walk's stamp behind, or makes a twin of   *)
(* its file; and a refresh reads every file whose stamp is not the indexed one. *)

\* The variables of VaultIndex, by their names there.
files == v1
stampOf == v2
twins == v3
rootUp == v4
edits == v5
due == v6
walking == v7
walked == v8
toLoad == v9
stamps == v10
byName == v11
rootErr == v12
USE DEF files, stampOf, twins, rootUp, edits, due, walking, walked, toLoad, stamps, byName, rootErr

\* No stamp is newer than the last edit, and a file that is gone has none.
StampsAreOld ==
    \A n \in Name :
        /\ stampOf[n] = 0 <=> files[n] = VaultIndex!Missing
        /\ stampOf[n] <= edits + 1 /\ stamps[n] <= edits + 1 /\ walked[n] <= edits + 1

\* A file still to be read was found by this walk, and is not the one that is indexed.
StillToRead ==
    \A n \in toLoad :
        walking /\ walked[n] # 0 /\ (stampOf[n] # 0 => stamps[n] # stampOf[n] \/ n \in twins)

\* The others are indexed as the walk stamped them, unless they changed since.
ReadByNow ==
    walking => \A n \in Name \ toLoad :
        /\ walked[n] # 0 /\ walked[n] = stampOf[n] => byName[n] = files[n] \/ n \in twins
        /\ walked[n] # 0 => byName[n] # VaultIndex!Missing
        /\ walked[n] = 0 => stamps[n] # 0 \/ byName[n] = VaultIndex!Missing

VaultIndexInv ==
    /\ VaultIndex!IndexTypeOK
    /\ VaultIndex!StampTellsTheText /\ VaultIndex!NothingUnstamped
    /\ StampsAreOld /\ StillToRead /\ ReadByNow

LEMMA VaultIndexInit == VaultIndex!Init => VaultIndexInv
<1>. SUFFICES ASSUME VaultIndex!Init PROVE VaultIndexInv
  OBVIOUS
<1>. USE DEF VaultIndex!Init, VaultIndex!NoStamps, VaultIndex!NoEntries
<1>1. VaultIndex!IndexTypeOK
  <2>1. 0 \in 0..MaxEdits
    BY PartsAssumption DEF VaultIndex!VaultIndexAssumption
  <2>. QED
    BY <2>1 DEF VaultIndex!IndexTypeOK
<1>2. StampsAreOld /\ StillToRead /\ ReadByNow
  BY DEF StampsAreOld, StillToRead, ReadByNow
<1>. QED
  BY <1>1, <1>2 DEF VaultIndexInv, VaultIndex!StampTellsTheText, VaultIndex!NothingUnstamped

\* What is edited is stamped anew, as nothing in the index is, or is a twin from then on.
LEMMA EditKeeps ==
    ASSUME VaultIndexInv, NEW n \in Name, NEW t \in Text \cup {VaultIndex!Missing},
           VaultIndex!Edit(n, t)
    PROVE  VaultIndexInv'
<1>. USE DEF VaultIndexInv, VaultIndex!Edit
<1>0. PICK st \in IF t = VaultIndex!Missing THEN {0} ELSE {VaultIndex!New} \cup VaultIndex!Borne(n) :
        /\ stampOf' = [stampOf EXCEPT ![n] = st]
        /\ twins' = IF st \in VaultIndex!Borne(n) THEN twins \cup {n} ELSE twins \ {n}
  OBVIOUS
<1>1. /\ edits \in Nat /\ edits' = edits + 1 /\ edits' \in 0..MaxEdits
      /\ UNCHANGED <<rootUp, due, walking, walked, toLoad, stamps, byName, rootErr>>
  BY PartsAssumption DEF VaultIndex!VaultIndexAssumption, VaultIndex!IndexTypeOK
<1>3. stamps \in [Name -> Nat] /\ walked \in [Name -> Nat] /\ stampOf \in [Name -> Nat]
  BY DEF VaultIndex!IndexTypeOK
<1>a. /\ st \in Nat /\ st <= edits + 2 /\ (st = 0 <=> t = VaultIndex!Missing)
      /\ st # 0 => (st # stamps[n] /\ st # walked[n]) \/ n \in twins'
  BY <1>0, <1>1, <1>3 DEF VaultIndex!Borne, VaultIndex!New, StampsAreOld
<1>2. /\ stampOf' \in [Name -> Nat] /\ files' \in [Name -> Text \cup {VaultIndex!Missing}]
      /\ stampOf'[n] = st /\ files'[n] = t
      /\ \A m \in Name \ {n} :
            stampOf'[m] = stampOf[m] /\ files'[m] = files[m] /\ (m \in twins' <=> m \in twins)
  <2>1. \A m \in Name \ {n} : m \in twins' <=> m \in twins
    BY <1>0
  <2>. QED
    BY <1>0, <1>1, <1>3, <1>a, <2>1 DEF VaultIndex!IndexTypeOK
<1>4. VaultIndex!IndexTypeOK'
  <2>1. twins' \subseteq Name
    BY <1>0 DEF VaultIndex!IndexTypeOK
  <2>. QED
    BY <1>1, <1>2, <2>1 DEF VaultIndex!IndexTypeOK
<1>5. StampsAreOld'
  BY <1>1, <1>2, <1>3, <1>a DEF StampsAreOld
<1>. HIDE DEF VaultIndex!Edit
<1>7. StillToRead' /\ ReadByNow'
  BY <1>1, <1>2, <1>a DEF StillToRead, ReadByNow, VaultIndex!IndexTypeOK
<1>8. VaultIndex!StampTellsTheText' /\ VaultIndex!NothingUnstamped'
  BY <1>1, <1>2, <1>a DEF VaultIndex!StampTellsTheText, VaultIndex!NothingUnstamped
<1>. QED
  BY <1>4, <1>5, <1>7, <1>8

LEMMA WalkKeeps == VaultIndexInv /\ VaultIndex!Walk => VaultIndexInv'
<1>. SUFFICES ASSUME VaultIndexInv, VaultIndex!Walk PROVE VaultIndexInv'
  OBVIOUS
<1>. USE DEF VaultIndexInv, VaultIndex!Walk, VaultIndex!NoStamps, VaultIndex!NoEntries
<1>1. ~walking /\ toLoad = {}
  BY DEF StillToRead
<1>2. CASE rootUp
  BY <1>1, <1>2 DEF VaultIndex!IndexTypeOK, StampsAreOld, StillToRead, ReadByNow,
       VaultIndex!StampTellsTheText, VaultIndex!NothingUnstamped
<1>3. CASE ~rootUp
  <2>1. /\ stamps' = [m \in Name |-> 0] /\ byName' = [m \in Name |-> VaultIndex!Missing]
        /\ UNCHANGED <<files, stampOf, twins, rootUp, edits, walking, walked, toLoad>>
        /\ due' = FALSE /\ rootErr' = TRUE
    BY <1>3
  <2>2. VaultIndex!IndexTypeOK'
    BY <2>1 DEF VaultIndex!IndexTypeOK
  <2>3. StampsAreOld'
    BY <2>1 DEF StampsAreOld, VaultIndex!IndexTypeOK
  <2>. QED
    BY <1>1, <2>1, <2>2, <2>3 DEF StillToRead, ReadByNow,
       VaultIndex!StampTellsTheText, VaultIndex!NothingUnstamped
<1>. QED
  BY <1>2, <1>3

\* What is read is the file as it is then; what cannot be read loses its stamp.
LEMMA LoadKeeps == ASSUME VaultIndexInv, NEW n \in Name, VaultIndex!LoadNext(n) PROVE VaultIndexInv'
<1>. USE DEF VaultIndexInv, VaultIndex!LoadNext, VaultIndex!Load
<1>1. /\ walking /\ n \in toLoad /\ toLoad' = toLoad \ {n}
      /\ UNCHANGED <<files, stampOf, twins, rootUp, edits, due, walking, stamps, rootErr>>
      /\ walked[n] # 0 /\ (stampOf[n] # 0 => stamps[n] # stampOf[n] \/ n \in twins)
  BY DEF StillToRead
<1>2. /\ byName' \in [Name -> Text \cup {VaultIndex!Missing}] /\ walked' \in [Name -> Nat]
      /\ byName'[n] = IF VaultIndex!Readable(n) THEN files[n] ELSE VaultIndex!Missing
      /\ walked'[n] = IF VaultIndex!Readable(n) THEN walked[n] ELSE 0
      /\ \A m \in Name \ {n} : byName'[m] = byName[m] /\ walked'[m] = walked[m]
  BY DEF VaultIndex!IndexTypeOK
<1>3. VaultIndex!IndexTypeOK'
  BY <1>1, <1>2 DEF VaultIndex!IndexTypeOK
<1>4. StampsAreOld'
  BY <1>1, <1>2 DEF StampsAreOld, VaultIndex!IndexTypeOK
<1>5. StillToRead'
  BY <1>1, <1>2 DEF StillToRead, VaultIndex!IndexTypeOK
<1>6. ReadByNow'
  BY <1>1, <1>2 DEF ReadByNow, VaultIndex!Readable
<1>7. VaultIndex!StampTellsTheText' /\ VaultIndex!NothingUnstamped'
  BY <1>1, <1>2 DEF VaultIndex!StampTellsTheText, VaultIndex!NothingUnstamped
<1>. QED
  BY <1>3, <1>4, <1>5, <1>6, <1>7

LEMMA IndexedKeeps == VaultIndexInv /\ VaultIndex!Indexed => VaultIndexInv'
<1>. SUFFICES ASSUME VaultIndexInv, VaultIndex!Indexed PROVE VaultIndexInv'
  OBVIOUS
<1>. USE DEF VaultIndexInv, VaultIndex!Indexed, VaultIndex!NoStamps
<1>1. /\ toLoad = {} /\ walking /\ walking' = FALSE /\ stamps' = walked
      /\ UNCHANGED <<files, stampOf, twins, rootUp, edits, due, toLoad, rootErr>>
      /\ walked' = [m \in Name |-> 0]
      /\ byName' \in [Name -> Text \cup {VaultIndex!Missing}]
      /\ \A m \in Name : byName'[m] = IF stamps[m] # 0 /\ walked[m] = 0 THEN VaultIndex!Missing ELSE byName[m]
  BY DEF VaultIndex!IndexTypeOK
<1>2. VaultIndex!IndexTypeOK'
  <2>0. walking' \in BOOLEAN
    BY <1>1
  <2>1. walked' \in [Name -> Nat] /\ stamps' \in [Name -> Nat]
    BY <1>1 DEF VaultIndex!IndexTypeOK
  <2>. HIDE DEF VaultIndex!Indexed
  <2>. QED
    BY <1>1, <2>0, <2>1 DEF VaultIndex!IndexTypeOK
<1>3. StampsAreOld'
  BY <1>1 DEF StampsAreOld, VaultIndex!IndexTypeOK
<1>4. VaultIndex!StampTellsTheText' /\ VaultIndex!NothingUnstamped'
  BY <1>1 DEF ReadByNow, VaultIndex!StampTellsTheText, VaultIndex!NothingUnstamped
<1>. QED
  BY <1>1, <1>2, <1>3, <1>4 DEF StillToRead, ReadByNow

LEMMA VaultIndexStep == VaultIndexInv /\ [VaultIndex!Next]_(VaultIndex!indexVars) => VaultIndexInv'
<1>. SUFFICES ASSUME VaultIndexInv, [VaultIndex!Next]_(VaultIndex!indexVars) PROVE VaultIndexInv'
  OBVIOUS
<1>1. ASSUME NEW n \in Name, NEW t \in Text \cup {VaultIndex!Missing}, VaultIndex!Edit(n, t)
      PROVE  VaultIndexInv'
  BY <1>1, EditKeeps
<1>2. CASE VaultIndex!RootComesOrGoes
  <2>1. edits \in Nat /\ edits' = edits + 1 /\ edits' \in 0..MaxEdits /\ rootUp' \in BOOLEAN
    BY <1>2, PartsAssumption
    DEF VaultIndex!VaultIndexAssumption, VaultIndex!RootComesOrGoes, VaultIndexInv, VaultIndex!IndexTypeOK
  <2>2. UNCHANGED <<files, stampOf, twins, due, walking, walked, toLoad, stamps, byName, rootErr>>
    BY <1>2 DEF VaultIndex!RootComesOrGoes
  <2>3. VaultIndex!IndexTypeOK'
    BY <2>1, <2>2 DEF VaultIndexInv, VaultIndex!IndexTypeOK
  <2>4. StampsAreOld'
    BY <2>1, <2>2 DEF VaultIndexInv, VaultIndex!IndexTypeOK, StampsAreOld
  <2>. QED
    BY <2>2, <2>3, <2>4 DEF VaultIndexInv, StillToRead, ReadByNow,
         VaultIndex!StampTellsTheText, VaultIndex!NothingUnstamped
<1>3. CASE VaultIndex!IntervalPasses \/ UNCHANGED VaultIndex!indexVars
  <2>1. UNCHANGED <<files, stampOf, twins, rootUp, edits, walking, walked, toLoad, stamps, byName, rootErr>>
    BY <1>3 DEF VaultIndex!IntervalPasses, VaultIndex!indexVars
  <2>2. due' \in BOOLEAN
    BY <1>3 DEF VaultIndex!IntervalPasses, VaultIndex!indexVars, VaultIndexInv, VaultIndex!IndexTypeOK
  <2>. QED
    BY <2>1, <2>2 DEF VaultIndexInv, VaultIndex!IndexTypeOK, StampsAreOld, StillToRead, ReadByNow,
         VaultIndex!StampTellsTheText, VaultIndex!NothingUnstamped
<1>4. CASE VaultIndex!Refresh
  BY <1>4, WalkKeeps, LoadKeeps, IndexedKeeps DEF VaultIndex!Refresh
<1>. QED
  BY <1>1, <1>2, <1>3, <1>4 DEF VaultIndex!Next

-----------------------------------------------------------------------------
(* The vault of one root.  What a goroutine is about to write to the cache is  *)
(* filed under one header too, and only the build's goroutine ends a build,    *)
(* which it is on only while the flag is set.                                *)

\* The variables of Vault, by their names there.
serving == v1
live == v2
header == v3
loaded == v4
vectors == v5
failures == v6
building == v7
builds == v8
cacheFile == v9
task == v10
stray == v11
changes == v12
USE DEF serving, live, header, loaded, vectors, failures, building, builds, cacheFile, task,
        stray, changes

Headers == Digest \cup {Vault!None}
Servings == Headers \cup {Vault!Absent}
VectorSet == [under : Headers, by : Headers]
VectorSets == UNION {[W -> VectorSet] : W \in SUBSET Window}
MadeSets == UNION {[W -> Headers] : W \in SUBSET Window}
BlobSet == [header : Headers, vectors : VectorSets]
TaskSet == [at : Vault!Places, batch : SUBSET Window, under : Headers, made : MadeSets,
            answer : Headers, query : Headers, turn : Nat, blob : BlobSet]

VaultTyped ==
    /\ serving \in Servings /\ live \subseteq Window
    /\ header \in Headers /\ loaded \in Headers /\ vectors \in VectorSets
    /\ failures \in [Window -> Nat] /\ building \in BOOLEAN /\ builds \in Nat
    /\ cacheFile \in BlobSet /\ task \in [Vault!Task -> TaskSet]
    /\ stray \in SUBSET Digest /\ changes \in 0..MaxChanges

\* Vectors that are filed under the header they were asked for under.
FiledUnder(h, v) == \A w \in DOMAIN v : v[w].under = h

BlobsAreFiled == \A t \in Vault!Task : FiledUnder(task[t].blob.header, task[t].blob.vectors)

Ending == {"last save", "last write"}

BuilderBuilds ==
    /\ \A t \in Vault!Task : task[t].at \in Ending => t = Vault!Builder
    /\ task[Vault!Builder].at # "idle" => building

VaultInv ==
    /\ VaultTyped /\ BlobsAreFiled /\ BuilderBuilds
    /\ Vault!VectorsAsFiled /\ Vault!OneBuild

LEMMA NothingFiled ==
    /\ Vault!NoVectors \in VectorSets /\ Vault!NoneMade \in MadeSets /\ \A h : FiledUnder(h, Vault!NoVectors)
    /\ Vault!Idle \in TaskSet /\ Vault!Idle.at = "idle"
    /\ Vault!Idle.blob = [header |-> Vault!None, vectors |-> Vault!NoVectors]
<1>1. {} \in SUBSET Window
  OBVIOUS
<1>a. Vault!NoVectors \in [{} -> VectorSet] /\ Vault!NoneMade \in [{} -> Headers]
  BY DEF Vault!NoVectors, Vault!NoneMade
<1>b. Vault!NoneMade \in MadeSets
  BY <1>1, <1>a DEF MadeSets
<1>2. Vault!NoVectors \in VectorSets
  BY <1>1, <1>a DEF VectorSets
<1>3. \A h : FiledUnder(h, Vault!NoVectors)
  BY DEF FiledUnder, Vault!NoVectors
<1>4. [header |-> Vault!None, vectors |-> Vault!NoVectors] \in BlobSet
  BY <1>2 DEF BlobSet, Headers
<1>. HIDE DEF Vault!NoVectors, Vault!NoneMade
<1>. QED
  BY <1>2, <1>3, <1>4, <1>b DEF Vault!Idle, TaskSet, Headers, Vault!Places

LEMMA VaultInit == Vault!Init => VaultInv
<1>. SUFFICES ASSUME Vault!Init PROVE VaultInv
  OBVIOUS
<1>. USE DEF Vault!Init
<1>1. VaultTyped
  <2>1. 0 \in 0..MaxChanges /\ 0 \in Nat
    BY PartsAssumption DEF Vault!VaultAssumption
  <2>2. cacheFile \in BlobSet
    BY NothingFiled DEF BlobSet, Headers
  <2>. QED
    BY <2>1, <2>2, NothingFiled DEF VaultTyped, Headers, Servings
<1>2. BlobsAreFiled /\ BuilderBuilds
  <2>1. Vault!Builder \in Vault!Task
    BY DEF Vault!Task
  <2>2. \A t \in Vault!Task : task[t] = Vault!Idle
    OBVIOUS
  <2>3. Vault!Idle.blob.vectors = Vault!NoVectors
    BY NothingFiled
  <2>. QED
    BY <2>1, <2>2, <2>3, NothingFiled DEF BlobsAreFiled, BuilderBuilds, Ending
<1>3. Vault!VectorsAsFiled /\ Vault!OneBuild
  BY NothingFiled DEF Vault!VectorsAsFiled, Vault!OneBuild, FiledUnder
<1>. QED
  BY <1>1, <1>2, <1>3 DEF VaultInv

\* A goroutine that only moves on, with nothing filed and no build begun or ended.
LEMMA MoveKeeps ==
    ASSUME VaultInv, NEW t \in Vault!Task, NEW k \in TaskSet,
           task' = [task EXCEPT ![t] = k],
           k.blob = task[t].blob \/ k.blob = Vault!Idle.blob,
           k.at \in Ending => t = Vault!Builder,
           t = Vault!Builder => task[t].at # "idle",
           header' \in {header, Vault!None}, serving' = serving, live' \subseteq Window,
           changes' \in 0..MaxChanges,
           UNCHANGED <<loaded, vectors, failures, building, builds, cacheFile, stray>>
    PROVE  VaultInv'
<1>1. /\ task' \in [Vault!Task -> TaskSet] /\ task'[t] = k
      /\ \A u \in Vault!Task \ {t} : task'[u] = task[u]
  BY DEF VaultInv, VaultTyped
<1>2. VaultTyped'
  BY <1>1 DEF VaultInv, VaultTyped, Headers
<1>3. BlobsAreFiled'
  <2>1. FiledUnder(k.blob.header, k.blob.vectors)
    BY NothingFiled DEF VaultInv, BlobsAreFiled
  <2>. QED
    BY <1>1, <2>1 DEF VaultInv, BlobsAreFiled
<1>4. BuilderBuilds'
  BY <1>1 DEF VaultInv, BuilderBuilds, Vault!Task
<1>5. Vault!VectorsAsFiled' /\ Vault!OneBuild'
  BY DEF VaultInv, Vault!VectorsAsFiled, Vault!OneBuild
<1>. QED
  BY <1>2, <1>3, <1>4, <1>5 DEF VaultInv

\* The goroutines, and what is known of the one that takes a step.
LEMMA Goroutine ==
    ASSUME VaultInv, NEW t \in Vault!Task
    PROVE  /\ task[t] \in TaskSet /\ Vault!None \in Headers /\ {} \in SUBSET Window
           /\ t \in Search \cup {Vault!Warmer} => t # Vault!Builder
           /\ live \subseteq Window /\ changes \in 0..MaxChanges /\ MaxChanges \in Nat
           /\ header \in Headers /\ loaded \in Headers /\ serving \in Servings
           /\ serving \in Digest => serving \in Headers
  BY PartsAssumption
  DEF VaultInv, VaultTyped, Headers, Vault!Task, Vault!Builder, Vault!Warmer, Vault!VaultAssumption

LEMMA GoKeeps ==
    ASSUME VaultInv, NEW t \in Vault!Task, NEW p \in Vault!Places, Vault!Go(t, p),
           p \in Ending => t = Vault!Builder,
           t = Vault!Builder => task[t].at # "idle",
           header' \in {header, Vault!None}, live' \subseteq Window, changes' \in 0..MaxChanges,
           UNCHANGED <<serving, loaded, vectors, failures, building, builds, cacheFile, stray>>
    PROVE  VaultInv'
<1>. DEFINE k == [task[t] EXCEPT !.at = p]
<1>1. k \in TaskSet /\ k.at = p /\ k.blob = task[t].blob
  BY Goroutine DEF TaskSet
<1>2. task' = [task EXCEPT ![t] = k]
  BY DEF Vault!Go
<1>. HIDE DEF k
<1>. QED
  BY <1>1, <1>2, MoveKeeps

\* Searches and the warm up: what they do before and after embedding.
LEMMA SearchMoves ==
    ASSUME VaultInv, NEW t \in Search \cup {Vault!Warmer},
           \/ \E found \in {Window, {}} : Vault!Refresh(t, found)
           \/ Vault!Known(t) \/ Vault!Probe(t)
           \/ t \in Search /\ (Vault!EmbedQuery(t) \/ Vault!Rank(t))
    PROVE  VaultInv'
<1>0. /\ t \in Vault!Task /\ t # Vault!Builder /\ task[t] \in TaskSet
      /\ changes \in 0..MaxChanges /\ MaxChanges \in Nat /\ live \subseteq Window
      /\ Vault!None \in Headers /\ (serving \in Digest => serving \in Headers)
  BY Goroutine DEF Vault!Task
<1>1. ASSUME NEW found \in {Window, {}}, Vault!Refresh(t, found) PROVE VaultInv'
  <2>1. live' \subseteq Window /\ changes' \in 0..MaxChanges
    BY <1>0, <1>1 DEF Vault!Refresh
  <2>2. CASE Vault!Go(t, "model")
    BY <1>0, <1>1, <2>1, <2>2, GoKeeps DEF Vault!Refresh, Vault!Places, Ending
  <2>3. CASE UNCHANGED task
    <3>1. task' = [task EXCEPT ![t] = task[t]]
      BY <2>3 DEF VaultInv, VaultTyped
    <3>2. task[t].at \notin Ending
      BY <1>1 DEF Vault!Refresh, Ending
    <3>. QED
      BY <1>0, <1>1, <2>1, <3>1, <3>2, MoveKeeps DEF Vault!Refresh
  <2>. QED
    BY <1>1, <2>2, <2>3 DEF Vault!Refresh
<1>2. CASE Vault!Known(t)
  BY <1>0, <1>2, GoKeeps DEF Vault!Known, Vault!Places, Ending
<1>3. CASE Vault!Probe(t)
  <2>. DEFINE k == IF serving \notin Digest
                   THEN [task[t] EXCEPT !.at = IF t = Vault!Warmer THEN "done" ELSE "rank"]
                   ELSE [task[t] EXCEPT !.at = "probed", !.answer = serving]
  <2>1. task' = [task EXCEPT ![t] = k]
    BY <1>3, Zenon DEF Vault!Probe
  <2>2. k \in TaskSet /\ k.at \notin Ending /\ k.blob = task[t].blob
    <3>1. {"done", "rank", "probed"} \subseteq Vault!Places \ Ending
      BY DEF Vault!Places, Ending
    <3>. QED
      BY <1>0, <3>1 DEF TaskSet
  <2>. HIDE DEF k
  <2>. QED
    BY <1>0, <1>3, <2>1, <2>2, MoveKeeps DEF Vault!Probe
<1>4. CASE Vault!EmbedQuery(t)
  <2>1. CASE serving \in Digest
    <3>. DEFINE k == [task[t] EXCEPT !.at = "rank", !.query = serving]
    <3>1. k \in TaskSet /\ k.at \notin Ending /\ k.blob = task[t].blob
      <4>1. "rank" \in Vault!Places \ Ending
        BY DEF Vault!Places, Ending
      <4>. QED
        BY <1>0, <2>1, <4>1 DEF TaskSet
    <3>2. task' = [task EXCEPT ![t] = k]
      BY <1>4, <2>1 DEF Vault!EmbedQuery
    <3>. HIDE DEF k
    <3>. QED
      BY <1>0, <1>4, <2>1, <3>1, <3>2, MoveKeeps DEF Vault!EmbedQuery
  <2>2. CASE serving \notin Digest
    BY <1>0, <1>4, <2>2, GoKeeps DEF Vault!EmbedQuery, Vault!Places, Ending
  <2>. QED
    BY <2>1, <2>2
<1>5. CASE Vault!Rank(t)
  <2>1. Vault!Idle \in TaskSet /\ Vault!Idle.at \notin Ending
    BY NothingFiled DEF Ending
  <2>. QED
    BY <1>0, <1>5, <2>1, MoveKeeps DEF Vault!Rank
<1>. QED
  BY <1>1, <1>2, <1>3, <1>4, <1>5

\* A cache of another header is a miss, so that what is adopted is filed.
LEMMA ProbedKeeps ==
    ASSUME VaultInv, NEW t \in Search \cup {Vault!Warmer}, Vault!Probed(t)
    PROVE  VaultInv'
<1>0. t \in Vault!Task /\ t # Vault!Builder /\ task[t] \in TaskSet /\ Vault!None \in Headers
  BY Goroutine DEF Vault!Task
<1>. DEFINE d == task[t].answer
            k == [task[t] EXCEPT !.at = "semantic", !.answer = Vault!None]
<1>1. d \in Headers
  BY <1>0 DEF TaskSet
<1>2. k \in TaskSet /\ k.at = "semantic" /\ k.blob = task[t].blob
  <2>1. "semantic" \in Vault!Places
    BY DEF Vault!Places
  <2>. QED
    BY <1>0, <2>1 DEF TaskSet
<1>3. task' = [task EXCEPT ![t] = k]
  BY DEF Vault!Probed
<1>4. header' = d /\ loaded' = d /\ vectors' \in VectorSets /\ FiledUnder(d, vectors')
  <2>1. FiledUnder(loaded, vectors) /\ vectors \in VectorSets
    BY DEF VaultInv, VaultTyped, Vault!VectorsAsFiled, FiledUnder
  <2>2. Vault!Cached(d) \in VectorSets /\ FiledUnder(d, Vault!Cached(d))
    BY NothingFiled
    DEF Vault!Cached, VaultInv, VaultTyped, BlobSet, Vault!VectorsAsFiled, FiledUnder
  <2>. QED
    BY <2>1, <2>2 DEF Vault!Probed, Vault!Adopt
<1>. HIDE DEF d, k
<1>5. /\ task' \in [Vault!Task -> TaskSet] /\ task'[t] = k
      /\ \A u \in Vault!Task \ {t} : task'[u] = task[u]
  BY <1>0, <1>2, <1>3 DEF VaultInv, VaultTyped
<1>6. UNCHANGED <<serving, live, failures, building, builds, cacheFile, stray, changes>>
  BY DEF Vault!Probed
<1>7. VaultTyped'
  BY <1>1, <1>4, <1>5, <1>6 DEF VaultInv, VaultTyped
<1>8. BlobsAreFiled' /\ BuilderBuilds'
  BY <1>0, <1>2, <1>5, <1>6 DEF VaultInv, BlobsAreFiled, BuilderBuilds, Ending, Vault!Task
<1>9. Vault!VectorsAsFiled' /\ Vault!OneBuild'
  BY <1>4, <1>6 DEF VaultInv, Vault!VectorsAsFiled, Vault!OneBuild, FiledUnder
<1>. QED
  BY <1>7, <1>8, <1>9 DEF VaultInv

\* A build begins only while none is under way.
LEMMA StartKeeps ==
    ASSUME VaultInv, NEW t \in Search \cup {Vault!Warmer}, ~building, Vault!StartBuild(t),
           UNCHANGED <<serving, live, header, loaded, vectors, failures, cacheFile, stray, changes>>
    PROVE  VaultInv'
<1>0. /\ t \in Vault!Task /\ t # Vault!Builder /\ task[t] \in TaskSet
      /\ Vault!Builder \in Vault!Task
  BY Goroutine DEF Vault!Task
<1>. DEFINE k == [task[t] EXCEPT !.at = IF t = Vault!Warmer THEN "done" ELSE "query"]
            b == [Vault!Idle EXCEPT !.at = "next"]
<1>1. k \in TaskSet /\ k.at \notin Ending /\ k.blob = task[t].blob
  <2>1. {"done", "query"} \subseteq Vault!Places \ Ending
    BY DEF Vault!Places, Ending
  <2>. QED
    BY <1>0, <2>1 DEF TaskSet
<1>2. b \in TaskSet /\ b.at \notin Ending /\ b.blob = Vault!Idle.blob
  <2>1. Vault!Idle \in TaskSet /\ "next" \in Vault!Places /\ "next" \notin Ending
    BY NothingFiled DEF Vault!Places, Ending
  <2>. QED
    BY <2>1 DEF TaskSet
<1>3. task' = [task EXCEPT ![t] = k, ![Vault!Builder] = b]
  BY DEF Vault!StartBuild
<1>4. FiledUnder(b.blob.header, b.blob.vectors)
  BY <1>2, NothingFiled
<1>. HIDE DEF k, b
<1>5. /\ task' \in [Vault!Task -> TaskSet] /\ task'[t] = k /\ task'[Vault!Builder] = b
      /\ \A u \in Vault!Task \ {t, Vault!Builder} : task'[u] = task[u]
  BY <1>0, <1>1, <1>2, <1>3 DEF VaultInv, VaultTyped
<1>6. building' = TRUE /\ builds = 0 /\ builds' = 1
  BY DEF Vault!StartBuild, VaultInv, Vault!OneBuild
<1>7. VaultTyped'
  BY <1>5, <1>6 DEF VaultInv, VaultTyped
<1>8. BlobsAreFiled' /\ BuilderBuilds'
  BY <1>0, <1>1, <1>2, <1>4, <1>5, <1>6 DEF VaultInv, BlobsAreFiled, BuilderBuilds
<1>9. Vault!VectorsAsFiled' /\ Vault!OneBuild'
  BY <1>6 DEF VaultInv, Vault!VectorsAsFiled, Vault!OneBuild
<1>. QED
  BY <1>7, <1>8, <1>9 DEF VaultInv

LEMMA SemanticKeeps ==
    ASSUME VaultInv, Vault!WarmBuilds \/ \E t \in Search : Vault!Semantic(t)
    PROVE  VaultInv'
<1>1. CASE Vault!WarmBuilds
  <2>0. /\ Vault!Warmer \in Vault!Task /\ Vault!Warmer # Vault!Builder
        /\ changes \in 0..MaxChanges /\ live \subseteq Window
    BY Goroutine DEF Vault!Task
  <2>1. CASE building
    BY <1>1, <2>0, <2>1, GoKeeps DEF Vault!WarmBuilds, Vault!Places, Ending
  <2>2. CASE ~building
    BY <1>1, <2>2, StartKeeps DEF Vault!WarmBuilds
  <2>. QED
    BY <2>1, <2>2
<1>2. ASSUME NEW t \in Search, Vault!Semantic(t) PROVE VaultInv'
  <2>0. /\ t \in Vault!Task /\ t # Vault!Builder /\ task[t] \in TaskSet
        /\ changes \in 0..MaxChanges /\ live \subseteq Window
    BY Goroutine DEF Vault!Task
  <2>1. UNCHANGED <<serving, live, header, loaded, vectors, failures, cacheFile, stray, changes>>
    BY <1>2 DEF Vault!Semantic
  <2>2. CASE Vault!Go(t, "query") /\ UNCHANGED <<building, builds>>
    BY <2>0, <2>1, <2>2, GoKeeps DEF Vault!Places, Ending
  <2>3. CASE ~building /\ Vault!StartBuild(t)
    BY <2>1, <2>3, StartKeeps
  <2>4. CASE /\ task' = [task EXCEPT ![t].at = "embed", ![t].batch = Vault!Pending]
             /\ UNCHANGED <<building, builds>>
    <3>. DEFINE k == [task[t] EXCEPT !.at = "embed", !.batch = Vault!Pending]
    <3>1. Vault!Pending \in SUBSET Window
      BY <2>0 DEF Vault!Pending
    <3>2. k \in TaskSet /\ k.at \notin Ending /\ k.blob = task[t].blob
      <4>1. "embed" \in Vault!Places /\ "embed" \notin Ending
        BY DEF Vault!Places, Ending
      <4>. HIDE DEF Vault!Pending
      <4>. QED
        BY <2>0, <3>1, <4>1 DEF TaskSet
    <3>3. task' = [task EXCEPT ![t] = k]
      BY <2>4
    <3>. HIDE DEF k
    <3>. QED
      BY <2>0, <2>1, <2>4, <3>2, <3>3, MoveKeeps
  <2>. QED
    BY <1>2, <2>2, <2>3, <2>4 DEF Vault!Semantic
<1>. QED
  BY <1>1, <1>2

\* A window asked for alone is answered, or refused, by the model of that moment.
LEMMA AloneMakes ==
    ASSUME VaultInv, NEW t \in Search \cup {Vault!Builder}, Vault!EmbedAlone(t)
    PROVE  \E k \in TaskSet :
              /\ task' = [task EXCEPT ![t] = k] /\ k.at \in {"alone", "keep"} /\ k.at \notin Ending
              /\ k.blob = task[t].blob /\ k.under = task[t].under
              /\ k.answer = task[t].answer /\ k.query = task[t].query
              /\ \A w \in DOMAIN k.made :
                    \/ w \in DOMAIN task[t].made /\ k.made[w] = task[t].made[w]
                    \/ k.made[w] \in {Vault!None, serving} \cap Headers
<1>0. t \in Vault!Task /\ task[t] \in TaskSet /\ serving \in Servings /\ Vault!None \in Headers
  BY Goroutine DEF Vault!Task
<1>. DEFINE new(w) == DOMAIN task[t].made \cup {w}
            reply(w) == IF w \in Bad \/ serving = Vault!Absent THEN Vault!None ELSE serving
            done(w) == [v \in new(w) |-> IF v = w THEN reply(w) ELSE task[t].made[v]]
<1>1. PICK w \in task[t].batch \ DOMAIN task[t].made :
        task' = [task EXCEPT ![t].at = IF new(w) = task[t].batch THEN "keep" ELSE "alone",
                             ![t].made = done(w)]
  BY DEF Vault!EmbedAlone
<1>. DEFINE x == reply(w)
            m == done(w)
            p == IF new(w) = task[t].batch THEN "keep" ELSE "alone"
            k == [task[t] EXCEPT !.at = p, !.made = m]
<1>2. task' = [task EXCEPT ![t] = k]
  BY <1>1
<1>3. x \in {Vault!None, serving} \cap Headers
  BY <1>0 DEF Servings
<1>4. /\ DOMAIN m = DOMAIN task[t].made \cup {w} /\ m = [u \in DOMAIN m |-> m[u]]
      /\ \A u \in DOMAIN m : m[u] = IF u = w THEN x ELSE task[t].made[u]
  OBVIOUS
<1>. HIDE DEF x
<1>5. DOMAIN task[t].made \subseteq Window /\ \A u \in DOMAIN task[t].made : task[t].made[u] \in Headers
  BY <1>0 DEF TaskSet, MadeSets
<1>6. w \in Window
  BY <1>0 DEF TaskSet
<1>7. m \in MadeSets
  <2>. HIDE DEF m
  <2>2. m \in [DOMAIN m -> Headers] /\ DOMAIN m \in SUBSET Window
    BY <1>3, <1>4, <1>5, <1>6
  <2>. QED
    BY <2>2 DEF MadeSets
<1>8. p \in {"alone", "keep"} /\ p \in Vault!Places /\ p \notin Ending
  BY DEF Vault!Places, Ending
<1>. HIDE DEF m, p
<1>9. /\ k \in TaskSet /\ k.at = p /\ k.made = m /\ k.blob = task[t].blob
      /\ k.under = task[t].under /\ k.answer = task[t].answer /\ k.query = task[t].query
  BY <1>0, <1>7, <1>8 DEF TaskSet
<1>. HIDE DEF k
<1>. QED
  BY <1>2, <1>3, <1>4, <1>8, <1>9

\* What embedding, saving and writing does, whoever does it.
LEMMA EmbedMoves ==
    ASSUME VaultInv, NEW t \in Search \cup {Vault!Builder},
           Vault!EmbedAsks(t) \/ Vault!EmbedAnswers(t) \/ Vault!EmbedAlone(t) \/ Vault!EmbedFails(t)
    PROVE  VaultInv'
<1>0. /\ t \in Vault!Task /\ task[t] \in TaskSet /\ {} \in SUBSET Window
      /\ changes \in 0..MaxChanges /\ live \subseteq Window
      /\ Vault!None \in Headers /\ loaded \in Headers
  BY Goroutine DEF Vault!Task
<1>1. CASE Vault!EmbedAsks(t)
  <2>. DEFINE k == [task[t] EXCEPT !.at = "asked", !.under = loaded]
  <2>1. k \in TaskSet /\ k.at \notin Ending /\ k.blob = task[t].blob
    <3>1. "asked" \in Vault!Places \ Ending
      BY DEF Vault!Places, Ending
    <3>. QED
      BY <1>0, <3>1 DEF TaskSet
  <2>2. task' = [task EXCEPT ![t] = k] /\ task[t].at # "idle"
    BY <1>1 DEF Vault!EmbedAsks
  <2>. HIDE DEF k
  <2>. QED
    BY <1>0, <1>1, <2>1, <2>2, MoveKeeps DEF Vault!EmbedAsks
<1>2. CASE Vault!EmbedAnswers(t)
  <2>0. /\ task[t].at # "idle" /\ task[t].batch \in SUBSET Window
        /\ UNCHANGED <<serving, live, header, loaded, vectors, failures, building, builds, cacheFile, stray, changes>>
    BY <1>0, <1>2 DEF Vault!EmbedAnswers, TaskSet
  <2>1. CASE Vault!Go(t, "alone")
    BY <1>0, <2>0, <2>1, GoKeeps DEF Vault!Places, Ending
  <2>2. CASE ~Vault!Go(t, "alone")
    <3>. DEFINE m == [w \in task[t].batch |-> serving]
                k == [task[t] EXCEPT !.at = "keep", !.made = m]
    <3>1. serving \in Digest /\ task' = [task EXCEPT ![t] = k]
      BY <1>2, <2>2 DEF Vault!EmbedAnswers
    <3>2. m \in MadeSets
      BY <2>0, <3>1 DEF MadeSets, Headers
    <3>. HIDE DEF m
    <3>3. k \in TaskSet /\ k.at \notin Ending /\ k.blob = task[t].blob
      <4>1. "keep" \in Vault!Places \ Ending
        BY DEF Vault!Places, Ending
      <4>. QED
        BY <1>0, <3>2, <4>1 DEF TaskSet
    <3>. HIDE DEF k
    <3>. QED
      BY <1>0, <2>0, <3>1, <3>3, MoveKeeps
  <2>. QED
    BY <2>1, <2>2
<1>3. CASE Vault!EmbedAlone(t)
  <2>0. /\ task[t].at # "idle"
        /\ UNCHANGED <<serving, live, header, loaded, vectors, failures, building, builds, cacheFile, stray, changes>>
    BY <1>3 DEF Vault!EmbedAlone
  <2>1. PICK k \in TaskSet : /\ task' = [task EXCEPT ![t] = k] /\ k.blob = task[t].blob
                             /\ k.at \notin Ending
    BY <1>0, <1>3, AloneMakes
  <2>. QED
    BY <1>0, <2>0, <2>1, MoveKeeps
<1>4. CASE Vault!EmbedFails(t)
  <2>0. /\ task[t].at # "idle" /\ header' \in {header, Vault!None}
        /\ UNCHANGED <<serving, live, loaded, vectors, failures, building, builds, cacheFile, stray, changes>>
    BY <1>4 DEF Vault!EmbedFails
  <2>. DEFINE p == IF t = Vault!Builder THEN "last save" ELSE "save"
              k == [task[t] EXCEPT !.at = p, !.batch = {}, !.under = Vault!None, !.made = Vault!NoneMade]
  <2>1. p \in Vault!Places /\ (p \in Ending => t = Vault!Builder)
    BY DEF Vault!Places, Ending
  <2>2. task' = [task EXCEPT ![t] = k]
    BY <1>4 DEF Vault!EmbedFails
  <2>. HIDE DEF p
  <2>3. k \in TaskSet /\ k.at = p /\ k.blob = task[t].blob
    BY <1>0, <2>1, NothingFiled DEF TaskSet
  <2>. HIDE DEF k
  <2>. QED
    BY <1>0, <2>0, <2>1, <2>2, <2>3, MoveKeeps
<1>. QED
  BY <1>1, <1>2, <1>3, <1>4

\* Only what was asked for under the header the vectors are filed under is kept.
LEMMA KeepKeeps ==
    ASSUME VaultInv, NEW t \in Search \cup {Vault!Builder}, Vault!EmbedKeeps(t)
    PROVE  VaultInv'
<1>0. /\ t \in Vault!Task /\ task[t] \in TaskSet /\ {} \in SUBSET Window
      /\ changes \in 0..MaxChanges /\ live \subseteq Window
      /\ Vault!None \in Headers /\ loaded \in Headers
  BY Goroutine DEF Vault!Task
<1>. DEFINE p == IF t # Vault!Builder THEN "save"
                 ELSE IF Vault!Keepable(t) THEN "next" ELSE "last save"
            k == [task[t] EXCEPT !.at = p, !.batch = {}, !.under = Vault!None, !.made = Vault!NoneMade]
<1>1. /\ task[t].at # "idle" /\ task' = [task EXCEPT ![t] = k]
      /\ header' \in {header, Vault!None}
      /\ UNCHANGED <<serving, live, loaded, building, builds, cacheFile, stray, changes>>
  BY DEF Vault!EmbedKeeps
<1>2. p \in Vault!Places /\ (p \in Ending => t = Vault!Builder)
  BY DEF Vault!Places, Ending
<1>. HIDE DEF p
<1>3. k \in TaskSet /\ k.at = p /\ k.blob = task[t].blob
  BY <1>0, <1>2, NothingFiled DEF TaskSet
<1>. HIDE DEF k
<1>4. CASE ~Vault!Keepable(t)
  <2>1. UNCHANGED <<vectors, failures>>
    BY <1>4 DEF Vault!EmbedKeeps
  <2>. QED
    BY <1>0, <1>1, <1>2, <1>3, <2>1, MoveKeeps
<1>5. CASE Vault!Keepable(t)
  <2>. DEFINE new == Vault!Embedded(t)
              m == task[t].made
  <2>1. /\ vectors' = [w \in DOMAIN vectors \cup new |->
                           IF w \in new THEN [under |-> task[t].under, by |-> m[w]] ELSE vectors[w]]
        /\ failures' = [w \in Window |->
                           failures[w] + (IF w \in DOMAIN m \ new THEN 1 ELSE 0)]
        /\ task[t].under = loaded
    BY <1>5 DEF Vault!EmbedKeeps, Vault!Keep, Vault!Kept, Vault!Keepable
  <2>2. new \subseteq Window /\ \A w \in new : m[w] \in Headers
    BY <1>0 DEF Vault!Embedded, TaskSet, MadeSets
  <2>. HIDE DEF new, m
  <2>3. FiledUnder(loaded, vectors')
    BY <2>1 DEF VaultInv, Vault!VectorsAsFiled, FiledUnder
  <2>4. vectors' \in VectorSets
    <3>1. DOMAIN vectors \subseteq Window /\ \A w \in DOMAIN vectors : vectors[w] \in VectorSet
      BY DEF VaultInv, VaultTyped, VectorSets
    <3>2. \A w \in new : [under |-> task[t].under, by |-> m[w]] \in VectorSet
      BY <1>0, <2>1, <2>2 DEF VectorSet
    <3>3. vectors' \in [DOMAIN vectors \cup new -> VectorSet]
      BY <2>1, <3>1, <3>2
    <3>. QED
      BY <2>2, <3>1, <3>3 DEF VectorSets
  <2>5. failures' \in [Window -> Nat]
    BY <2>1 DEF VaultInv, VaultTyped
  <2>6. /\ task' \in [Vault!Task -> TaskSet] /\ task'[t] = k
        /\ \A u \in Vault!Task \ {t} : task'[u] = task[u]
    BY <1>0, <1>1, <1>3 DEF VaultInv, VaultTyped
  <2>7. VaultTyped'
    BY <1>0, <1>1, <2>4, <2>5, <2>6 DEF VaultInv, VaultTyped
  <2>8. BlobsAreFiled' /\ BuilderBuilds'
    BY <1>0, <1>1, <1>2, <1>3, <2>6 DEF VaultInv, BlobsAreFiled, BuilderBuilds, Vault!Task
  <2>9. Vault!VectorsAsFiled' /\ Vault!OneBuild'
    BY <1>1, <2>3 DEF VaultInv, Vault!VectorsAsFiled, Vault!OneBuild, FiledUnder
  <2>. QED
    BY <2>7, <2>8, <2>9 DEF VaultInv
<1>. QED
  BY <1>4, <1>5

LEMMA SaveKeeps ==
    ASSUME VaultInv, NEW t \in Search \cup {Vault!Builder}, Vault!Save(t)
    PROVE  VaultInv'
<1>0. /\ t \in Vault!Task /\ task[t] \in TaskSet
      /\ changes \in 0..MaxChanges /\ live \subseteq Window /\ header \in Headers
  BY Goroutine DEF Vault!Task
<1>. DEFINE p == IF task[t].at = "last save" THEN "last write" ELSE "write"
<1>1. /\ p \in Vault!Places /\ (p \in Ending => t = Vault!Builder) /\ task[t].at # "idle"
      /\ UNCHANGED <<serving, live, header, loaded, failures, building, builds, cacheFile, stray, changes>>
  BY <1>0 DEF Vault!Save, Vault!Places, Ending, VaultInv, BuilderBuilds
<1>2. CASE header = Vault!None
  <2>1. Vault!Go(t, p) /\ UNCHANGED vectors
    BY <1>2 DEF Vault!Save
  <2>. HIDE DEF p
  <2>. QED
    BY <1>0, <1>1, <2>1, GoKeeps
<1>3. CASE header # Vault!None
  <2>. DEFINE c == Vault!Blob
              k == [task[t] EXCEPT !.at = p, !.blob = c]
  <2>1. vectors' = c.vectors /\ task' = [task EXCEPT ![t] = k]
    BY <1>3 DEF Vault!Save
  <2>2. c.header = header /\ c.vectors = [w \in live \cap DOMAIN vectors |-> vectors[w]]
    BY DEF Vault!Blob, Vault!Restrict
  <2>3. FiledUnder(loaded, vectors) /\ vectors \in VectorSets /\ header = loaded
    BY <1>3 DEF VaultInv, VaultTyped, Vault!VectorsAsFiled, FiledUnder
  <2>4. c.vectors \in VectorSets /\ FiledUnder(loaded, c.vectors)
    <3>1. c.vectors \in [live \cap DOMAIN vectors -> VectorSet]
      BY <2>2, <2>3 DEF VectorSets
    <3>. QED
      BY <1>0, <2>2, <2>3, <3>1 DEF VectorSets, FiledUnder
  <2>5. c \in BlobSet
    BY <1>0, <2>2, <2>4 DEF Vault!Blob, BlobSet
  <2>. HIDE DEF c, p
  <2>6. k \in TaskSet /\ k.at = p /\ k.blob = c
    BY <1>0, <1>1, <2>5 DEF TaskSet
  <2>. HIDE DEF k
  <2>7. /\ task' \in [Vault!Task -> TaskSet] /\ task'[t] = k
        /\ \A u \in Vault!Task \ {t} : task'[u] = task[u]
    BY <1>0, <2>1, <2>6 DEF VaultInv, VaultTyped
  <2>8. VaultTyped'
    BY <1>1, <2>1, <2>4, <2>7 DEF VaultInv, VaultTyped
  <2>9. BlobsAreFiled' /\ BuilderBuilds'
    BY <1>0, <1>1, <2>2, <2>3, <2>4, <2>6, <2>7 DEF VaultInv, BlobsAreFiled, BuilderBuilds, Vault!Task
  <2>10. Vault!VectorsAsFiled' /\ Vault!OneBuild'
    BY <1>1, <2>1, <2>4 DEF VaultInv, Vault!VectorsAsFiled, Vault!OneBuild, FiledUnder
  <2>. QED
    BY <2>8, <2>9, <2>10 DEF VaultInv
<1>. QED
  BY <1>2, <1>3

LEMMA WriteKeeps ==
    ASSUME VaultInv, NEW t \in Search \cup {Vault!Builder}, Vault!Write(t)
    PROVE  VaultInv'
<1>0. t \in Vault!Task /\ task[t] \in TaskSet /\ Vault!Builder \in Vault!Task
  BY Goroutine DEF Vault!Task
<1>1. /\ UNCHANGED <<serving, live, header, loaded, vectors, failures, stray, changes>>
      /\ cacheFile' = IF task[t].blob.header = Vault!None THEN cacheFile ELSE task[t].blob
      /\ task[t].at \in {"write", "last write"}
  BY DEF Vault!Write
<1>2. /\ cacheFile' \in BlobSet /\ FiledUnder(cacheFile'.header, cacheFile'.vectors)
  BY <1>0, <1>1 DEF TaskSet, VaultInv, VaultTyped, BlobsAreFiled, Vault!VectorsAsFiled, FiledUnder
<1>3. \E k \in TaskSet :
        /\ task' = [task EXCEPT ![t] = k] /\ k.blob = Vault!Idle.blob
        /\ \/ k.at \notin Ending /\ UNCHANGED <<building, builds>>
           \/ k = Vault!Idle /\ t = Vault!Builder /\ building' = FALSE /\ builds' = builds - 1
  <2>1. CASE task[t].at = "write"
    <3>. DEFINE p == IF t = Vault!Builder THEN "next" ELSE "query"
                k == [task[t] EXCEPT !.at = p, !.blob = Vault!Idle.blob]
    <3>1. p \in Vault!Places \ Ending
      BY DEF Vault!Places, Ending
    <3>2. task' = [task EXCEPT ![t] = k] /\ UNCHANGED <<building, builds>>
      BY <2>1 DEF Vault!Write
    <3>. HIDE DEF p
    <3>3. Vault!Idle.blob \in BlobSet
      BY NothingFiled DEF TaskSet
    <3>4. k \in TaskSet /\ k.at = p /\ k.blob = Vault!Idle.blob
      BY <1>0, <3>1, <3>3 DEF TaskSet
    <3>. HIDE DEF k
    <3>. QED
      BY <3>1, <3>2, <3>4
  <2>2. CASE task[t].at = "last write"
    <3>1. t = Vault!Builder
      BY <1>0, <2>2 DEF VaultInv, BuilderBuilds, Ending
    <3>2. task' = [task EXCEPT ![t] = Vault!Idle] /\ building' = FALSE /\ builds' = builds - 1
      BY <2>2 DEF Vault!Write
    <3>. QED
      BY <3>1, <3>2, NothingFiled
  <2>. QED
    BY <1>1, <2>1, <2>2
<1>4. PICK k \in TaskSet :
        /\ task' = [task EXCEPT ![t] = k] /\ k.blob = Vault!Idle.blob
        /\ \/ k.at \notin Ending /\ UNCHANGED <<building, builds>>
           \/ k = Vault!Idle /\ t = Vault!Builder /\ building' = FALSE /\ builds' = builds - 1
  BY <1>3
<1>5. /\ task' \in [Vault!Task -> TaskSet] /\ task'[t] = k
      /\ \A u \in Vault!Task \ {t} : task'[u] = task[u]
  BY <1>0, <1>4 DEF VaultInv, VaultTyped
<1>6. t = Vault!Builder => building
  BY <1>1 DEF VaultInv, BuilderBuilds
<1>7. Vault!OneBuild' /\ building' \in BOOLEAN /\ builds' \in Nat
  <2>1. CASE UNCHANGED <<building, builds>>
    <3>1. building' \in BOOLEAN
      BY <2>1 DEF VaultInv, VaultTyped
    <3>2. builds' \in Nat
      BY <2>1 DEF VaultInv, VaultTyped
    <3>3. Vault!OneBuild'
      BY <2>1 DEF VaultInv, Vault!OneBuild
    <3>. QED
      BY <3>1, <3>2, <3>3
  <2>2. CASE t = Vault!Builder /\ building' = FALSE /\ builds' = builds - 1
    <3>1. builds = 1
      BY <1>6, <2>2 DEF VaultInv, Vault!OneBuild
    <3>2. builds' = 0
      BY <2>2, <3>1
    <3>3. building' \in BOOLEAN
      BY <2>2
    <3>4. Vault!OneBuild'
      BY <2>2, <3>2 DEF Vault!OneBuild
    <3>. QED
      BY <3>2, <3>3, <3>4
  <2>. QED
    BY <1>4, <2>1, <2>2
<1>8. BuilderBuilds'
  BY <1>0, <1>4, <1>5, <1>6, NothingFiled DEF VaultInv, BuilderBuilds, Ending
<1>9. BlobsAreFiled'
  BY <1>0, <1>4, <1>5, NothingFiled DEF VaultInv, BlobsAreFiled
<1>10. VaultTyped'
  BY <1>1, <1>2, <1>5, <1>7 DEF VaultInv, VaultTyped
<1>11. Vault!VectorsAsFiled'
  BY <1>1, <1>2 DEF VaultInv, Vault!VectorsAsFiled, FiledUnder
<1>. QED
  BY <1>7, <1>8, <1>9, <1>10, <1>11 DEF VaultInv

\* The build's own turns.
LEMMA BuildMoves == ASSUME VaultInv, Vault!BuildSaves \/ Vault!BuildNext PROVE VaultInv'
<1>. DEFINE t == Vault!Builder
<1>0. /\ t \in Vault!Task /\ task[t] \in TaskSet
      /\ changes \in 0..MaxChanges /\ live \subseteq Window
  BY Goroutine DEF Vault!Task
<1>1. /\ task[t].at = "next"
      /\ UNCHANGED <<serving, live, header, loaded, vectors, failures, building, builds, cacheFile, stray, changes>>
  BY DEF Vault!BuildSaves, Vault!BuildNext
<1>2. CASE Vault!BuildSaves
  <2>. DEFINE k == [task[t] EXCEPT !.at = "save", !.turn = 0]
  <2>1. k \in TaskSet /\ k.blob = task[t].blob
    <3>1. "save" \in Vault!Places /\ 0 \in Nat
      BY DEF Vault!Places
    <3>. QED
      BY <1>0, <3>1 DEF TaskSet
  <2>2. task' = [task EXCEPT ![t] = k]
    BY <1>2 DEF Vault!BuildSaves
  <2>. HIDE DEF k
  <2>. QED
    BY <1>0, <1>1, <2>1, <2>2, MoveKeeps
<1>3. CASE Vault!BuildNext
  <2>1. CASE Vault!Go(t, "last save")
    BY <1>0, <1>1, <2>1, GoKeeps DEF Vault!Places
  <2>2. CASE ~Vault!Go(t, "last save")
    <3>1. PICK b \in SUBSET Vault!Pending :
            task' = [task EXCEPT ![t].at = "embed", ![t].batch = b, ![t].turn = @ + 1]
      BY <1>3, <2>2 DEF Vault!BuildNext
    <3>2. b \in SUBSET Window
      BY <1>0 DEF Vault!Pending
    <3>. DEFINE k == [task[t] EXCEPT !.at = "embed", !.batch = b, !.turn = task[t].turn + 1]
    <3>3. k \in TaskSet /\ k.blob = task[t].blob
      <4>1. "embed" \in Vault!Places
        BY DEF Vault!Places
      <4>2. task[t].turn + 1 \in Nat
        BY <1>0 DEF TaskSet
      <4>. DEFINE n == task[t].turn + 1
      <4>. HIDE DEF n
      <4>3. [task[t] EXCEPT !.at = "embed", !.batch = b, !.turn = n] \in TaskSet
        BY <1>0, <3>2, <4>1, <4>2 DEF TaskSet, n
      <4>. QED
        BY <4>3 DEF TaskSet, n
    <3>4. task' = [task EXCEPT ![t] = k]
      BY <3>1
    <3>. HIDE DEF k
    <3>. QED
      BY <1>0, <1>1, <3>3, <3>4, MoveKeeps
  <2>. QED
    BY <2>1, <2>2
<1>. QED
  BY <1>2, <1>3

\* A restart leaves nothing but the cache file.
LEMMA RestartKeeps == VaultInv /\ Vault!Restart => VaultInv'
<1>. SUFFICES ASSUME VaultInv, Vault!Restart PROVE VaultInv'
  OBVIOUS
<1>0. changes \in 0..MaxChanges /\ MaxChanges \in Nat
  BY Goroutine DEF Vault!Task
<1>1. /\ header' = Vault!None /\ loaded' = Vault!None /\ vectors' = Vault!NoVectors
      /\ failures' = [w \in Window |-> 0] /\ building' = FALSE /\ builds' = 0
      /\ task' = [t \in Vault!Task |-> Vault!Idle]
      /\ UNCHANGED <<serving, live, cacheFile, stray>> /\ changes' \in 0..MaxChanges
  BY <1>0 DEF Vault!Restart
<1>2. /\ task' \in [Vault!Task -> TaskSet] /\ \A t \in Vault!Task : task'[t] = Vault!Idle
  BY <1>1, NothingFiled
<1>3. VaultTyped'
  <2>1. failures' \in [Window -> Nat] /\ vectors' \in VectorSets /\ Vault!None \in Headers
    BY <1>1, NothingFiled DEF Headers
  <2>2. building' \in BOOLEAN /\ builds' \in Nat
    BY <1>1
  <2>. QED
    BY <1>1, <1>2, <2>1, <2>2 DEF VaultInv, VaultTyped
<1>4. BlobsAreFiled' /\ BuilderBuilds'
  <2>1. Vault!Idle.at = "idle" /\ FiledUnder(Vault!Idle.blob.header, Vault!Idle.blob.vectors)
    BY NothingFiled
  <2>2. Vault!Builder \in Vault!Task
    BY DEF Vault!Task
  <2>. QED
    BY <1>2, <2>1, <2>2 DEF BlobsAreFiled, BuilderBuilds, Ending
<1>5. Vault!VectorsAsFiled' /\ Vault!OneBuild'
  BY <1>1, NothingFiled DEF VaultInv, Vault!VectorsAsFiled, Vault!OneBuild, FiledUnder
<1>. QED
  BY <1>3, <1>4, <1>5 DEF VaultInv

\* What is relied on, one by one.
Relies(x) ==
    /\ x # Vault!None
    /\ \/ \E t \in Vault!Task : x \in {task[t].answer, task[t].under, task[t].query}
       \/ x = loaded /\ (header # Vault!None \/ \E t \in Vault!Task : task[t].at \in Vault!Midway)

LEMMA ReliedAre ==
    ASSUME VaultInv
    PROVE  /\ \A x \in Vault!Relied : x \in Digest /\ Relies(x)
           /\ \A x : Relies(x) => x \in Vault!Relied /\ x \in Digest
<1>1. \A t \in Vault!Task : {task[t].answer, task[t].under, task[t].query} \subseteq Headers
  BY DEF VaultInv, VaultTyped, TaskSet
<1>2. loaded \in Headers
  BY DEF VaultInv, VaultTyped
<1>3. \A x : Relies(x) => x \in Digest
  BY <1>1, <1>2 DEF Relies, Headers
<1>. DEFINE asked == UNION {{task[t].answer, task[t].under, task[t].query} : t \in Vault!Task}
            midway == header # Vault!None \/ \E t \in Vault!Task : task[t].at \in Vault!Midway
            remembered == IF midway THEN {loaded} ELSE {}
<1>4. Vault!Relied = (asked \cup remembered) \ {Vault!None}
  BY DEF Vault!Relied
<1>5. \A x : x \in asked <=> \E t \in Vault!Task : x \in {task[t].answer, task[t].under, task[t].query}
  BY Zenon
<1>6. \A x : x \in remembered <=> x = loaded /\ midway
  OBVIOUS
<1>. HIDE DEF asked, remembered
<1>7. \A x : x \in Vault!Relied <=> Relies(x)
  BY <1>4, <1>5, <1>6, Zenon DEF Relies
<1>. QED
  BY <1>3, <1>7

LEMMA VaultStep == VaultInv /\ [Vault!Next]_(Vault!vaultVars) => VaultInv'
<1>. SUFFICES ASSUME VaultInv, [Vault!Next]_(Vault!vaultVars) PROVE VaultInv'
  OBVIOUS
<1>1. ASSUME NEW t \in Search \cup {Vault!Warmer},
             \/ \E found \in {Window, {}} : Vault!Refresh(t, found)
             \/ Vault!Known(t) \/ Vault!Probe(t) \/ Vault!Probed(t)
      PROVE  VaultInv'
  BY <1>1, SearchMoves, ProbedKeeps
<1>2. CASE Vault!WarmBuilds \/ \E t \in Search : Vault!Semantic(t)
  BY <1>2, SemanticKeeps
<1>3. ASSUME NEW t \in Search, Vault!EmbedQuery(t) \/ Vault!Rank(t) PROVE VaultInv'
  BY <1>3, SearchMoves
<1>4. ASSUME NEW t \in Search \cup {Vault!Builder}, Vault!Embeds(t) PROVE VaultInv'
  BY <1>4, EmbedMoves, KeepKeeps, SaveKeeps, WriteKeeps DEF Vault!Embeds
<1>5. CASE Vault!BuildSaves \/ Vault!BuildNext
  BY <1>5, BuildMoves
<1>6. ASSUME NEW d \in Digest \cup {Vault!None, Vault!Absent}, Vault!Serve(d) PROVE VaultInv'
  <2>1. serving' \in Servings /\ changes' \in 0..MaxChanges
    BY <1>6, Goroutine DEF Vault!Serve, Headers, Servings, Vault!Task
  <2>2. stray' \in SUBSET Digest
    BY <1>6, ReliedAre DEF Vault!Serve, VaultInv, VaultTyped
  <2>. QED
    BY <1>6, <2>1, <2>2
    DEF Vault!Serve, VaultInv, VaultTyped, BlobsAreFiled, BuilderBuilds,
        Vault!VectorsAsFiled, Vault!OneBuild
<1>7. CASE Vault!Restart
  BY <1>7, RestartKeeps
<1>8. CASE UNCHANGED Vault!vaultVars
  BY <1>8 DEF Vault!vaultVars, VaultInv, VaultTyped, BlobsAreFiled, BuilderBuilds,
       Vault!VectorsAsFiled, Vault!OneBuild
<1>. QED
  BY <1>1, <1>2, <1>3, <1>4, <1>5, <1>6, <1>7, <1>8 DEF Vault!Next, Vault!Build

\* Its types as the component states them, and what it promises.
LEMMA VaultShows ==
    VaultInv => Vault!VaultTypeOK /\ Vault!VectorsAsFiled /\ Vault!OneBuild
<1>. SUFFICES ASSUME VaultInv PROVE Vault!VaultTypeOK
  BY DEF VaultInv
<1>1. \A v \in VectorSets : DOMAIN v \subseteq Window
  BY DEF VectorSets
<1>2. DOMAIN vectors \subseteq Window /\ DOMAIN cacheFile.vectors \subseteq Window
  BY <1>1 DEF VaultInv, VaultTyped, BlobSet
<1>3. \A t \in Vault!Task : task[t].at \in Vault!Places /\ task[t].batch \subseteq Window
  BY DEF VaultInv, VaultTyped, TaskSet
<1>4. /\ serving \in Digest \cup {Vault!None, Vault!Absent} /\ live \subseteq Window
      /\ header \in Digest \cup {Vault!None} /\ loaded \in Digest \cup {Vault!None}
  BY DEF VaultInv, VaultTyped, Headers, Servings
<1>5. failures \in [Window -> Nat] /\ builds \in Nat /\ changes \in 0..MaxChanges
      /\ stray \subseteq Digest
  BY DEF VaultInv, VaultTyped
<1>6. building \in BOOLEAN
  BY DEF VaultInv, VaultTyped
<1>. QED
  BY <1>2, <1>3, <1>4, <1>5, <1>6 DEF Vault!VaultTypeOK

-----------------------------------------------------------------------------
(* The models behind the headers.  Of the headers the service relies on, all    *)
(* but the strays are of one model, the one that is served, if any is; so what  *)
(* is made under such a header is made by it.                                *)

OneModel ==
    /\ \A x, y \in Digest : Relies(x) /\ Relies(y) => x = y \/ x \in stray \/ y \in stray
    /\ \A x \in Digest : Relies(x) /\ serving \in Digest => x = serving \/ x \in stray

ByTheirModel(h, v) == h \in stray \/ \A w \in DOMAIN v : v[w].by = h

\* A query goes with the vectors, and what was answered with what was asked.
Fits(q)   == q \in {Vault!None, loaded} \/ q \in stray \/ loaded \in stray
MadeBy(k) == k.under \in stray \/ \A w \in DOMAIN k.made : k.made[w] \in {Vault!None, k.under}

\* Who is to embed has a header to embed for, who has probed an answer, and only who
\* asks has anything made.
Asking == {"asked", "alone", "keep"}
Stands(k) ==
    /\ k.at \in Vault!Midway => loaded # Vault!None
    /\ k.at \in {"asked", "alone"} => k.under # Vault!None
    /\ k.at = "probed" => k.answer # Vault!None
    /\ k.at \notin Asking => DOMAIN k.made = {}

Truthful(k) ==
    Stands(k) /\ Fits(k.query) /\ MadeBy(k) /\ ByTheirModel(k.blob.header, k.blob.vectors)

ModelInv ==
    /\ OneModel
    /\ ByTheirModel(loaded, vectors) /\ ByTheirModel(cacheFile.header, cacheFile.vectors)
    /\ \A t \in Vault!Task : Truthful(task[t])

LEMMA IdleIsTrue ==
    /\ Truthful(Vault!Idle) /\ Vault!Idle.at \notin Vault!Midway
    /\ Vault!Idle.answer = Vault!None /\ Vault!Idle.under = Vault!None /\ Vault!Idle.query = Vault!None
    /\ ByTheirModel(Vault!Idle.blob.header, Vault!Idle.blob.vectors)
<1>1. /\ Vault!Idle.at = "idle" /\ Vault!Idle.answer = Vault!None /\ Vault!Idle.under = Vault!None
      /\ Vault!Idle.query = Vault!None /\ Vault!Idle.made = Vault!NoneMade
      /\ Vault!Idle.blob = [header |-> Vault!None, vectors |-> Vault!NoVectors]
      /\ DOMAIN Vault!NoneMade = {} /\ DOMAIN Vault!NoVectors = {}
  BY DEF Vault!Idle, Vault!NoneMade, Vault!NoVectors
<1>. QED
  BY <1>1 DEF Truthful, Stands, Fits, MadeBy, ByTheirModel, Vault!Midway

LEMMA ModelsAtFirst == Vault!Init => ModelInv
<1>. SUFFICES ASSUME Vault!Init PROVE ModelInv
  OBVIOUS
<1>. USE DEF Vault!Init
<1>1. /\ Vault!Idle.at = "idle" /\ Vault!Idle.answer = Vault!None /\ Vault!Idle.under = Vault!None
      /\ Vault!Idle.query = Vault!None /\ Vault!Idle.made = Vault!NoneMade
      /\ Vault!Idle.blob = [header |-> Vault!None, vectors |-> Vault!NoVectors]
      /\ DOMAIN Vault!NoneMade = {} /\ DOMAIN Vault!NoVectors = {}
  BY DEF Vault!Idle, Vault!NoneMade, Vault!NoVectors
<1>2. \A t \in Vault!Task : task[t] = Vault!Idle
  OBVIOUS
<1>3. \A x : ~Relies(x)
  BY <1>1, <1>2 DEF Relies, Vault!Midway
<1>4. ByTheirModel(loaded, vectors) /\ ByTheirModel(cacheFile.header, cacheFile.vectors)
  BY <1>1 DEF ByTheirModel
<1>5. Truthful(Vault!Idle)
  BY <1>1 DEF Truthful, Stands, Fits, MadeBy, ByTheirModel, Vault!Midway
<1>. QED
  BY <1>2, <1>3, <1>4, <1>5 DEF ModelInv, OneModel

\* Goroutines move on: what they come to rely on is served or was relied on before.
LEMMA ModelsKept ==
    ASSUME VaultInv, ModelInv,
           header' \in {header, Vault!None}, UNCHANGED <<serving, loaded, stray>>,
           ByTheirModel(loaded, vectors'), ByTheirModel(cacheFile'.header, cacheFile'.vectors),
           \A u \in Vault!Task :
              /\ Truthful(task'[u])
              /\ task'[u].at \in Vault!Midway =>
                    header # Vault!None \/ \E v \in Vault!Task : task[v].at \in Vault!Midway
              /\ \A x \in {task'[u].answer, task'[u].under, task'[u].query} :
                    x = Vault!None \/ Relies(x) \/ x = serving
    PROVE  ModelInv'
<1>1. ASSUME NEW x, Relies(x)' PROVE Relies(x) \/ x = serving
  <2>1. x # Vault!None
    BY <1>1 DEF Relies
  <2>2. CASE \E u \in Vault!Task : x \in {task'[u].answer, task'[u].under, task'[u].query}
    BY <2>1, <2>2
  <2>3. CASE x = loaded /\ (header' # Vault!None \/ \E u \in Vault!Task : task'[u].at \in Vault!Midway)
    <3>1. header # Vault!None \/ \E u \in Vault!Task : task[u].at \in Vault!Midway
      BY <2>3
    <3>. QED
      BY <2>1, <2>3, <3>1 DEF Relies
  <2>. QED
    BY <1>1, <2>2, <2>3 DEF Relies
<1>2. OneModel'
  BY <1>1 DEF ModelInv, OneModel
<1>3. \A u \in Vault!Task : Truthful(task[u])'
  BY DEF Truthful, Stands, Fits, MadeBy, ByTheirModel
<1>4. ByTheirModel(loaded, vectors)' /\ ByTheirModel(cacheFile.header, cacheFile.vectors)'
  BY DEF ByTheirModel
<1>. QED
  BY <1>2, <1>3, <1>4 DEF ModelInv

\* What is true of the goroutine that takes a step.
LEMMA Stand ==
    ASSUME VaultInv, ModelInv, NEW t \in Vault!Task
    PROVE  /\ task[t] \in TaskSet /\ Truthful(task[t]) /\ (header # Vault!None => header = loaded)
           /\ ByTheirModel(loaded, vectors) /\ ByTheirModel(cacheFile.header, cacheFile.vectors)
           /\ \A x \in {task[t].answer, task[t].under, task[t].query} : x = Vault!None \/ Relies(x)
           /\ task[t].at \in Vault!Midway => loaded # Vault!None /\ Relies(loaded)
<1>1. task[t] \in TaskSet /\ (header # Vault!None => header = loaded)
  BY DEF VaultInv, VaultTyped, Vault!VectorsAsFiled
<1>2. Truthful(task[t]) /\ ByTheirModel(loaded, vectors) /\ ByTheirModel(cacheFile.header, cacheFile.vectors)
  BY DEF ModelInv
<1>3. \A x \in {task[t].answer, task[t].under, task[t].query} : x = Vault!None \/ Relies(x)
  BY DEF Relies
<1>4. task[t].at \in Vault!Midway => loaded # Vault!None
  BY <1>2 DEF Truthful, Stands
<1>5. task[t].at \in Vault!Midway => Relies(loaded)
  BY <1>4 DEF Relies
<1>. QED
  BY <1>1, <1>2, <1>3, <1>4, <1>5

\* One goroutine moves on.
LEMMA ModelsStay ==
    ASSUME VaultInv, ModelInv, NEW t \in Vault!Task, NEW k,
           task' = [task EXCEPT ![t] = k],
           header' \in {header, Vault!None}, UNCHANGED <<serving, loaded, stray>>,
           ByTheirModel(loaded, vectors'), ByTheirModel(cacheFile'.header, cacheFile'.vectors),
           k.at \in Vault!Midway => task[t].at \in Vault!Midway \/ header # Vault!None,
           \A x \in {k.answer, k.under, k.query} : x = Vault!None \/ Relies(x) \/ x = serving,
           Truthful(k)
    PROVE  ModelInv'
<1>1. /\ task'[t] = k /\ \A u \in Vault!Task \ {t} : task'[u] = task[u]
  BY DEF VaultInv, VaultTyped
<1>2. ASSUME NEW u \in Vault!Task
      PROVE  /\ Truthful(task'[u])
             /\ task'[u].at \in Vault!Midway =>
                   header # Vault!None \/ \E v \in Vault!Task : task[v].at \in Vault!Midway
             /\ \A x \in {task'[u].answer, task'[u].under, task'[u].query} :
                   x = Vault!None \/ Relies(x) \/ x = serving
  <2>1. CASE u = t
    BY <1>1, <2>1
  <2>2. CASE u # t
    BY <1>1, <2>2, Stand
  <2>. QED
    BY <2>1, <2>2
<1>. QED
  BY <1>2, ModelsKept

LEMMA GoneOn ==
    ASSUME VaultInv, ModelInv, NEW t \in Vault!Task, NEW p, Vault!Go(t, p),
           header' \in {header, Vault!None}, UNCHANGED <<serving, loaded, stray, vectors, cacheFile>>,
           p \in Vault!Midway => task[t].at \in Vault!Midway \/ header # Vault!None,
           p \notin {"asked", "probed", "keep"}, p = "alone" => task[t].at = "asked",
           p # "alone" => task[t].at \notin Asking
    PROVE  ModelInv'
<1>. DEFINE k == [task[t] EXCEPT !.at = p]
<1>1. task' = [task EXCEPT ![t] = k]
  BY DEF Vault!Go
<1>2. /\ k.at = p /\ k.answer = task[t].answer /\ k.under = task[t].under /\ k.query = task[t].query
      /\ k.made = task[t].made /\ k.blob = task[t].blob
  BY Stand DEF TaskSet
<1>. HIDE DEF k
<1>3. p \in Vault!Midway => loaded # Vault!None
  BY Stand
<1>4. Truthful(k)
  BY <1>2, <1>3, Stand DEF Truthful, Stands, Fits, MadeBy, Asking
<1>5. ByTheirModel(loaded, vectors') /\ ByTheirModel(cacheFile'.header, cacheFile'.vectors)
  BY Stand
<1>. QED
  BY <1>1, <1>2, <1>4, <1>5, Stand, ModelsStay

\* Who has a header to embed for, and has not asked, goes on to the batch or to its save.
LEMMA EmbedBegins ==
    ASSUME VaultInv, ModelInv, NEW t \in Vault!Task,
           task[t].at \in {"semantic", "next"},
           UNCHANGED <<serving, header, loaded, vectors, cacheFile, stray>>,
           NEW k, task' = [task EXCEPT ![t] = k], k.at \in {"embed", "save"},
           k.answer = task[t].answer, k.under = task[t].under, k.query = task[t].query,
           k.made = task[t].made, k.blob = task[t].blob
    PROVE  ModelInv'
<1>1. task[t].at \in Vault!Midway /\ loaded # Vault!None
  BY Stand DEF Vault!Midway
<1>2. Truthful(k)
  BY <1>1, Stand DEF Truthful, Stands, MadeBy, Asking
<1>3. \A x \in {k.answer, k.under, k.query} : x = Vault!None \/ Relies(x) \/ x = serving
  BY Stand
<1>4. ByTheirModel(loaded, vectors') /\ ByTheirModel(cacheFile'.header, cacheFile'.vectors)
  BY Stand
<1>. QED
  BY <1>1, <1>2, <1>3, <1>4, ModelsStay

\* An embedding over: what was asked and made is let go.
LEMMA EmbedEnds ==
    ASSUME VaultInv, ModelInv, NEW t \in Vault!Task, NEW p \in {"save", "next", "last save"},
           task' = [task EXCEPT ![t] = [task[t] EXCEPT
                      !.at = p, !.batch = {}, !.under = Vault!None, !.made = Vault!NoneMade]],
           task[t].at \in Vault!Midway, header' \in {header, Vault!None},
           UNCHANGED <<serving, loaded, cacheFile, stray>>, ByTheirModel(loaded, vectors')
    PROVE  ModelInv'
<1>. DEFINE k == [task[t] EXCEPT !.at = p, !.batch = {}, !.under = Vault!None, !.made = Vault!NoneMade]
<1>1. /\ k.at = p /\ k.answer = task[t].answer /\ k.under = Vault!None /\ k.query = task[t].query
      /\ k.made = Vault!NoneMade /\ k.blob = task[t].blob
  BY Stand DEF TaskSet
<1>2. task' = [task EXCEPT ![t] = k] /\ DOMAIN Vault!NoneMade = {}
  BY DEF Vault!NoneMade
<1>. HIDE DEF k
<1>3. Truthful(k)
  BY <1>1, <1>2, Stand DEF Truthful, Stands, MadeBy, Asking
<1>4. \A x \in {k.answer, k.under, k.query} : x = Vault!None \/ Relies(x) \/ x = serving
  BY <1>1, Stand
<1>5. ByTheirModel(cacheFile'.header, cacheFile'.vectors)
  BY Stand
<1>. QED
  BY <1>1, <1>2, <1>3, <1>4, <1>5, ModelsStay

LEMMA SearchesAreTrue ==
    ASSUME VaultInv, ModelInv, NEW t \in Search \cup {Vault!Warmer},
           \/ \E found \in {Window, {}} : Vault!Refresh(t, found)
           \/ Vault!Known(t) \/ Vault!Probe(t)
           \/ t \in Search /\ (Vault!EmbedQuery(t) \/ Vault!Rank(t))
    PROVE  ModelInv'
<1>0. t \in Vault!Task /\ task[t] \in TaskSet
  BY Stand DEF Vault!Task
<1>a. ByTheirModel(loaded, vectors) /\ ByTheirModel(cacheFile.header, cacheFile.vectors) /\ Truthful(task[t])
  BY <1>0, Stand
<1>1. ASSUME NEW found \in {Window, {}}, Vault!Refresh(t, found) PROVE ModelInv'
  <2>1. CASE Vault!Go(t, "model")
    BY <1>0, <1>1, <2>1, GoneOn DEF Vault!Refresh, Vault!Midway, Asking
  <2>2. CASE UNCHANGED task
    <3>1. task' = [task EXCEPT ![t] = task[t]]
      BY <2>2 DEF VaultInv, VaultTyped
    <3>2. task[t].at \notin Vault!Midway
      BY <1>1 DEF Vault!Refresh, Vault!Midway, Asking
    <3>. QED
      BY <1>0, <1>1, <1>a, <3>1, <3>2, Stand, ModelsStay DEF Vault!Refresh
  <2>. QED
    BY <1>1, <2>1, <2>2 DEF Vault!Refresh
<1>2. CASE Vault!Known(t)
  BY <1>0, <1>2, GoneOn DEF Vault!Known, Vault!Midway, Asking
<1>3. CASE Vault!Probe(t)
  <2>1. CASE serving \notin Digest
    <3>1. Vault!Go(t, IF t = Vault!Warmer THEN "done" ELSE "rank")
      BY <1>3, <2>1 DEF Vault!Probe, Vault!Go
    <3>. QED
      BY <1>0, <1>3, <3>1, GoneOn DEF Vault!Probe, Vault!Midway, Asking
  <2>2. CASE serving \in Digest
    <3>. DEFINE k == [task[t] EXCEPT !.at = "probed", !.answer = serving]
    <3>1. task' = [task EXCEPT ![t] = k]
      BY <1>3, <2>2 DEF Vault!Probe
    <3>2. /\ k.at = "probed" /\ k.answer = serving /\ k.under = task[t].under /\ k.query = task[t].query
          /\ k.made = task[t].made /\ k.blob = task[t].blob
      BY <1>0 DEF TaskSet
    <3>. HIDE DEF k
    <3>3. serving # Vault!None
      BY <2>2, PartsAssumption DEF Vault!VaultAssumption
    <3>4. Truthful(k) /\ k.at \notin Vault!Midway
      BY <1>3, <1>a, <3>2, <3>3 DEF Truthful, Stands, Fits, MadeBy, Asking, Vault!Midway, Vault!Probe
    <3>5. \A x \in {k.answer, k.under, k.query} : x = Vault!None \/ Relies(x) \/ x = serving
      BY <1>0, <3>2, Stand
    <3>6. UNCHANGED <<serving, header, loaded, vectors, cacheFile, stray>>
      BY <1>3 DEF Vault!Probe
    <3>. QED
      BY <1>0, <1>a, <3>1, <3>4, <3>5, <3>6, ModelsStay
  <2>. QED
    BY <2>1, <2>2
<1>4. CASE Vault!EmbedQuery(t)
  <2>1. CASE serving \notin Digest
    BY <1>0, <1>4, <2>1, GoneOn DEF Vault!EmbedQuery, Vault!Midway, Asking
  <2>2. CASE serving \in Digest
    <3>. DEFINE k == [task[t] EXCEPT !.at = "rank", !.query = serving]
    <3>1. task' = [task EXCEPT ![t] = k]
      BY <1>4, <2>2 DEF Vault!EmbedQuery
    <3>2. /\ k.at = "rank" /\ k.query = serving /\ k.under = task[t].under /\ k.answer = task[t].answer
          /\ k.made = task[t].made /\ k.blob = task[t].blob
      BY <1>0 DEF TaskSet
    <3>. HIDE DEF k
    <3>3. Relies(loaded) /\ loaded \in Digest
      BY <1>0, <1>4, Stand, ReliedAre DEF Vault!EmbedQuery, Vault!Midway
    <3>4. Fits(serving)
      BY <2>2, <3>3 DEF ModelInv, OneModel, Fits
    <3>5. Truthful(k) /\ k.at \notin Vault!Midway
      BY <1>4, <1>a, <3>2, <3>4 DEF Truthful, Stands, MadeBy, Asking, Vault!Midway, Vault!EmbedQuery
    <3>6. \A x \in {k.answer, k.under, k.query} : x = Vault!None \/ Relies(x) \/ x = serving
      BY <1>0, <3>2, Stand
    <3>7. UNCHANGED <<serving, header, loaded, vectors, cacheFile, stray>>
      BY <1>4, <2>2 DEF Vault!EmbedQuery
    <3>. QED
      BY <1>0, <1>a, <3>1, <3>5, <3>6, <3>7, ModelsStay
  <2>. QED
    BY <2>1, <2>2
<1>5. CASE Vault!Rank(t)
  BY <1>0, <1>5, <1>a, IdleIsTrue, ModelsStay DEF Vault!Rank
<1>. QED
  BY <1>1, <1>2, <1>3, <1>4, <1>5

\* The service hears what is served: the vectors become those of that model's header.
LEMMA ProbedIsTrue ==
    ASSUME VaultInv, ModelInv, NEW t \in Vault!Task, Vault!Probed(t)
    PROVE  ModelInv'
<1>. DEFINE d == task[t].answer
            k == [task[t] EXCEPT !.at = "semantic", !.answer = Vault!None]
<1>1. /\ task[t].at = "probed" /\ task' = [task EXCEPT ![t] = k] /\ loaded' = d /\ header' = d
      /\ vectors' = IF loaded = d THEN vectors ELSE Vault!Cached(d)
      /\ UNCHANGED <<serving, cacheFile, stray>>
  BY DEF Vault!Probed, Vault!Adopt
<1>2. /\ k.at = "semantic" /\ k.answer = Vault!None /\ k.under = task[t].under /\ k.query = task[t].query
      /\ k.made = task[t].made /\ k.blob = task[t].blob
  BY Stand DEF TaskSet
<1>3. d # Vault!None /\ Relies(d) /\ d \in Digest
  BY <1>1, Stand, ReliedAre DEF Truthful, Stands
<1>. HIDE DEF k
<1>4. task'[t] = k /\ \A u \in Vault!Task \ {t} : task'[u] = task[u]
  BY <1>1 DEF VaultInv, VaultTyped
<1>5. \A u \in Vault!Task :
        /\ \A x \in {task'[u].answer, task'[u].under, task'[u].query} : x = Vault!None \/ Relies(x)
        /\ task'[u].query = task[u].query /\ task'[u].under = task[u].under /\ task'[u].made = task[u].made
        /\ task'[u].blob = task[u].blob
  BY <1>2, <1>4, Stand
<1>. HIDE DEF d
<1>6. ASSUME NEW x, Relies(x)' PROVE Relies(x)
  BY <1>1, <1>3, <1>5, <1>6 DEF Relies
<1>7. OneModel'
  BY <1>1, <1>6 DEF ModelInv, OneModel
<1>8. ByTheirModel(d, vectors')
  <2>1. CASE loaded = d
    BY <1>1, <2>1, Stand
  <2>2. CASE loaded # d /\ cacheFile.header = d
    BY <1>1, <2>2, Stand DEF Vault!Cached
  <2>3. CASE loaded # d /\ cacheFile.header # d
    BY <1>1, <2>3 DEF Vault!Cached, Vault!NoVectors, ByTheirModel
  <2>. QED
    BY <2>1, <2>2, <2>3
<1>9. ASSUME NEW u \in Vault!Task PROVE Truthful(task[u])'
  <2>1. Truthful(task[u])
    BY Stand
  <2>2. Stands(task[u])'
    <3>1. CASE u = t
      BY <1>1, <1>2, <1>3, <1>4, <2>1, <3>1 DEF Truthful, Stands, Asking
    <3>2. CASE u # t
      BY <1>1, <1>3, <1>4, <2>1, <3>2 DEF Truthful, Stands
    <3>. QED
      BY <3>1, <3>2
  <2>3. Fits(task[u].query)'
    BY <1>1, <1>3, <1>5, Stand, ReliedAre DEF Fits, ModelInv, OneModel
  <2>. QED
    BY <1>1, <1>5, <2>1, <2>2, <2>3 DEF Truthful, MadeBy, ByTheirModel
<1>. QED
  BY <1>1, <1>7, <1>8, <1>9, Stand DEF ModelInv, ByTheirModel

\* A build begun has a header to embed for.
LEMMA StartIsTrue ==
    ASSUME VaultInv, ModelInv, NEW t \in Search \cup {Vault!Warmer},
           task[t].at = "semantic", Vault!StartBuild(t),
           UNCHANGED <<serving, header, loaded, vectors, cacheFile, stray>>
    PROVE  ModelInv'
<1>0. t \in Vault!Task /\ t # Vault!Builder /\ Vault!Builder \in Vault!Task /\ task[t] \in TaskSet
  BY Goroutine DEF Vault!Task
<1>. DEFINE k == [task[t] EXCEPT !.at = IF t = Vault!Warmer THEN "done" ELSE "query"]
            b == [Vault!Idle EXCEPT !.at = "next"]
<1>1. task' = [task EXCEPT ![t] = k, ![Vault!Builder] = b]
  BY DEF Vault!StartBuild
<1>2. /\ k.at \in {"done", "query"} /\ k.answer = task[t].answer /\ k.under = task[t].under
      /\ k.query = task[t].query /\ k.made = task[t].made /\ k.blob = task[t].blob
  BY <1>0 DEF TaskSet
<1>3. /\ b.at = "next" /\ b.answer = Vault!Idle.answer /\ b.under = Vault!Idle.under
      /\ b.query = Vault!Idle.query /\ b.made = Vault!Idle.made /\ b.blob = Vault!Idle.blob
  BY DEF Vault!Idle
<1>. HIDE DEF k, b
<1>4. task'[t] = k /\ task'[Vault!Builder] = b
      /\ \A u \in Vault!Task \ {t, Vault!Builder} : task'[u] = task[u]
  BY <1>0, <1>1 DEF VaultInv, VaultTyped
<1>5. task[t].at \in Vault!Midway /\ loaded # Vault!None
  BY <1>0, Stand DEF Vault!Midway
<1>6. Truthful(k) /\ Truthful(b)
  <2>1. Truthful(task[t]) /\ Truthful(Vault!Idle) /\ Vault!Idle.at = "idle"
    BY <1>0, Stand, IdleIsTrue DEF Vault!Idle
  <2>2. Stands(k) /\ Stands(b)
    BY <1>2, <1>3, <1>5, <2>1 DEF Truthful, Stands, Asking, Vault!Midway
  <2>. QED
    BY <1>2, <1>3, <2>1, <2>2 DEF Truthful, MadeBy
<1>7. ASSUME NEW u \in Vault!Task
      PROVE  /\ Truthful(task'[u])
             /\ \A x \in {task'[u].answer, task'[u].under, task'[u].query} : x = Vault!None \/ Relies(x)
  <2>1. CASE u = t
    BY <1>0, <1>2, <1>4, <1>6, <2>1, Stand
  <2>2. CASE u = Vault!Builder
    BY <1>3, <1>4, <1>6, <2>2, IdleIsTrue
  <2>3. CASE u # t /\ u # Vault!Builder
    BY <1>4, <2>3, Stand
  <2>. QED
    BY <2>1, <2>2, <2>3
<1>8. ByTheirModel(loaded, vectors') /\ ByTheirModel(cacheFile'.header, cacheFile'.vectors)
  BY <1>0, Stand
<1>. QED
  BY <1>0, <1>5, <1>7, <1>8, ModelsKept

LEMMA SemanticIsTrue ==
    ASSUME VaultInv, ModelInv, Vault!WarmBuilds \/ \E t \in Search : Vault!Semantic(t)
    PROVE  ModelInv'
<1>1. CASE Vault!WarmBuilds
  <2>0. Vault!Warmer \in Vault!Task /\ Vault!Warmer \in Search \cup {Vault!Warmer}
    BY DEF Vault!Task
  <2>1. CASE building
    BY <1>1, <2>0, <2>1, GoneOn DEF Vault!WarmBuilds, Vault!Midway, Asking
  <2>2. CASE ~building
    BY <1>1, <2>0, <2>2, StartIsTrue DEF Vault!WarmBuilds
  <2>. QED
    BY <2>1, <2>2
<1>2. ASSUME NEW t \in Search, Vault!Semantic(t) PROVE ModelInv'
  <2>0. t \in Vault!Task /\ task[t] \in TaskSet
    BY Goroutine DEF Vault!Task
  <2>1. /\ task[t].at = "semantic"
        /\ UNCHANGED <<serving, header, loaded, vectors, cacheFile, stray>>
    BY <1>2 DEF Vault!Semantic
  <2>2. CASE Vault!Go(t, "query")
    BY <2>0, <2>1, <2>2, GoneOn DEF Vault!Midway, Asking
  <2>3. CASE Vault!StartBuild(t)
    BY <2>1, <2>3, StartIsTrue
  <2>4. CASE task' = [task EXCEPT ![t].at = "embed", ![t].batch = Vault!Pending]
    <3>. DEFINE k == [task[t] EXCEPT !.at = "embed", !.batch = Vault!Pending]
    <3>1. task' = [task EXCEPT ![t] = k]
      BY <2>4
    <3>2. /\ k.at = "embed" /\ k.answer = task[t].answer /\ k.under = task[t].under
          /\ k.query = task[t].query /\ k.made = task[t].made /\ k.blob = task[t].blob
      BY <2>0 DEF TaskSet
    <3>. HIDE DEF k
    <3>. QED
      BY <2>0, <2>1, <3>1, <3>2, EmbedBegins
  <2>. QED
    BY <1>2, <2>2, <2>3, <2>4 DEF Vault!Semantic
<1>. QED
  BY <1>1, <1>2

\* What is asked for under the header remembered is made by the model served since, and
\* the two are one unless Ollama was given another.
LEMMA EmbedIsTrue ==
    ASSUME VaultInv, ModelInv, NEW t \in Search \cup {Vault!Builder},
           Vault!EmbedAsks(t) \/ Vault!EmbedAnswers(t) \/ Vault!EmbedAlone(t) \/ Vault!EmbedFails(t)
    PROVE  ModelInv'
<1>0. t \in Vault!Task /\ task[t] \in TaskSet
  BY Goroutine DEF Vault!Task
<1>a. /\ ByTheirModel(loaded, vectors) /\ ByTheirModel(cacheFile.header, cacheFile.vectors)
      /\ Truthful(task[t])
      /\ \A x \in {task[t].answer, task[t].under, task[t].query} : x = Vault!None \/ Relies(x)
      /\ task[t].at \in Vault!Midway => loaded # Vault!None /\ Relies(loaded)
  BY <1>0, Stand
<1>1. CASE Vault!EmbedAsks(t)
  <2>. DEFINE k == [task[t] EXCEPT !.at = "asked", !.under = loaded]
  <2>1. task[t].at = "embed" /\ task' = [task EXCEPT ![t] = k]
    BY <1>1 DEF Vault!EmbedAsks
  <2>2. /\ k.at = "asked" /\ k.under = loaded /\ k.answer = task[t].answer /\ k.query = task[t].query
        /\ k.made = task[t].made /\ k.blob = task[t].blob
    BY <1>0 DEF TaskSet
  <2>. HIDE DEF k
  <2>3. task[t].at \in Vault!Midway /\ DOMAIN task[t].made = {}
    BY <1>a, <2>1 DEF Vault!Midway, Truthful, Stands, Asking
  <2>4. Truthful(k)
    BY <1>a, <2>2, <2>3 DEF Truthful, Stands, MadeBy, Asking
  <2>5. \A x \in {k.answer, k.under, k.query} : x = Vault!None \/ Relies(x) \/ x = serving
    BY <1>a, <2>2, <2>3
  <2>6. UNCHANGED <<serving, header, loaded, vectors, cacheFile, stray>>
    BY <1>1 DEF Vault!EmbedAsks
  <2>. QED
    BY <1>0, <1>a, <2>1, <2>3, <2>4, <2>5, <2>6, ModelsStay
<1>2. CASE Vault!EmbedAnswers(t)
  <2>0. task[t].at = "asked" /\ UNCHANGED <<serving, header, loaded, vectors, cacheFile, stray>>
    BY <1>2 DEF Vault!EmbedAnswers
  <2>1. CASE Vault!Go(t, "alone")
    BY <1>0, <2>0, <2>1, GoneOn DEF Vault!Midway
  <2>2. CASE ~Vault!Go(t, "alone")
    <3>. DEFINE m == [w \in task[t].batch |-> serving]
                k == [task[t] EXCEPT !.at = "keep", !.made = m]
    <3>1. serving \in Digest /\ task' = [task EXCEPT ![t] = k]
      BY <1>2, <2>2 DEF Vault!EmbedAnswers
    <3>2. \A w \in DOMAIN m : m[w] = serving
      OBVIOUS
    <3>. HIDE DEF m
    <3>3. /\ k.at = "keep" /\ k.made = m /\ k.under = task[t].under /\ k.answer = task[t].answer
          /\ k.query = task[t].query /\ k.blob = task[t].blob
      BY <1>0 DEF TaskSet
    <3>. HIDE DEF k
    <3>4. task[t].under = serving \/ task[t].under \in stray
      BY <1>a, <2>0, <3>1, ReliedAre DEF Truthful, Stands, ModelInv, OneModel
    <3>5. Truthful(k) /\ task[t].at \in Vault!Midway
      BY <1>a, <2>0, <3>2, <3>3, <3>4 DEF Truthful, Stands, MadeBy, Asking, Vault!Midway
    <3>. QED
      BY <1>0, <1>a, <2>0, <3>1, <3>3, <3>5, ModelsStay
  <2>. QED
    BY <2>1, <2>2
<1>3. CASE Vault!EmbedAlone(t)
  <2>0. task[t].at = "alone" /\ UNCHANGED <<serving, header, loaded, vectors, cacheFile, stray>>
    BY <1>3 DEF Vault!EmbedAlone
  <2>1. PICK k \in TaskSet :
          /\ task' = [task EXCEPT ![t] = k] /\ k.at \in {"alone", "keep"}
          /\ k.blob = task[t].blob /\ k.under = task[t].under
          /\ k.answer = task[t].answer /\ k.query = task[t].query
          /\ \A w \in DOMAIN k.made :
                \/ w \in DOMAIN task[t].made /\ k.made[w] = task[t].made[w]
                \/ k.made[w] \in {Vault!None, serving} \cap Headers
    BY <1>0, <1>3, AloneMakes
  <2>2. serving \in Digest => task[t].under = serving \/ task[t].under \in stray
    BY <1>a, <2>0, ReliedAre DEF Truthful, Stands, ModelInv, OneModel
  <2>3. MadeBy(k)
    BY <1>a, <2>1, <2>2 DEF Truthful, MadeBy, Headers
  <2>4. Truthful(k) /\ task[t].at \in Vault!Midway
    BY <1>a, <2>0, <2>1, <2>3 DEF Truthful, Stands, Asking, Vault!Midway
  <2>. QED
    BY <1>0, <1>a, <2>0, <2>1, <2>4, ModelsStay
<1>4. CASE Vault!EmbedFails(t)
  <2>0. /\ task[t].at \in {"asked", "alone"} /\ header' \in {header, Vault!None}
        /\ UNCHANGED <<serving, loaded, vectors, cacheFile, stray>>
    BY <1>4 DEF Vault!EmbedFails
  <2>. DEFINE p == IF t = Vault!Builder THEN "last save" ELSE "save"
  <2>1. /\ p \in {"last save", "save"}
        /\ task' = [task EXCEPT ![t] = [task[t] EXCEPT
                      !.at = p, !.batch = {}, !.under = Vault!None, !.made = Vault!NoneMade]]
    BY <1>4 DEF Vault!EmbedFails
  <2>. HIDE DEF p
  <2>2. task[t].at \in Vault!Midway
    BY <2>0 DEF Vault!Midway
  <2>. QED
    BY <1>0, <1>a, <2>0, <2>1, <2>2, EmbedEnds
<1>. QED
  BY <1>1, <1>2, <1>3, <1>4

LEMMA KeepIsTrue ==
    ASSUME VaultInv, ModelInv, NEW t \in Search \cup {Vault!Builder}, Vault!EmbedKeeps(t)
    PROVE  ModelInv'
<1>0. t \in Vault!Task /\ task[t] \in TaskSet
  BY Goroutine DEF Vault!Task
<1>a. /\ ByTheirModel(loaded, vectors) /\ ByTheirModel(cacheFile.header, cacheFile.vectors)
      /\ Truthful(task[t])
  BY <1>0, Stand
<1>. DEFINE p == IF t # Vault!Builder THEN "save"
                 ELSE IF Vault!Keepable(t) THEN "next" ELSE "last save"
<1>1. /\ p \in {"save", "next", "last save"}
      /\ task' = [task EXCEPT ![t] = [task[t] EXCEPT
                    !.at = p, !.batch = {}, !.under = Vault!None, !.made = Vault!NoneMade]]
      /\ task[t].at = "keep" /\ header' \in {header, Vault!None}
      /\ UNCHANGED <<serving, loaded, cacheFile, stray>>
  BY DEF Vault!EmbedKeeps
<1>. HIDE DEF p
<1>2. ByTheirModel(loaded, vectors')
  <2>1. CASE ~Vault!Keepable(t)
    BY <1>a, <2>1 DEF Vault!EmbedKeeps
  <2>2. CASE Vault!Keepable(t)
    <3>. DEFINE new == Vault!Embedded(t)
                m == task[t].made
    <3>1. /\ vectors' = [w \in DOMAIN vectors \cup new |->
                             IF w \in new THEN [under |-> task[t].under, by |-> m[w]] ELSE vectors[w]]
          /\ task[t].under = loaded
      BY <2>2 DEF Vault!EmbedKeeps, Vault!Keep, Vault!Kept, Vault!Keepable
    <3>2. \A w \in new : loaded \in stray \/ m[w] = loaded
      BY <1>a, <3>1 DEF Vault!Embedded, Truthful, MadeBy
    <3>. HIDE DEF new, m
    <3>. QED
      BY <1>a, <3>1, <3>2 DEF ByTheirModel
  <2>. QED
    BY <2>1, <2>2
<1>3. task[t].at \in Vault!Midway
  BY <1>1 DEF Vault!Midway
<1>. QED
  BY <1>0, <1>1, <1>2, <1>3, <1>a, EmbedEnds

\* What is saved is what is kept, of the windows in use.
LEMMA SaveIsTrue ==
    ASSUME VaultInv, ModelInv, NEW t \in Search \cup {Vault!Builder}, Vault!Save(t)
    PROVE  ModelInv'
<1>0. t \in Vault!Task /\ task[t] \in TaskSet
  BY Goroutine DEF Vault!Task
<1>a. /\ ByTheirModel(loaded, vectors) /\ ByTheirModel(cacheFile.header, cacheFile.vectors)
      /\ Truthful(task[t])
      /\ \A x \in {task[t].answer, task[t].under, task[t].query} : x = Vault!None \/ Relies(x)
      /\ header # Vault!None => header = loaded
      /\ task[t].at \in Vault!Midway => loaded # Vault!None
  BY <1>0, Stand
<1>. DEFINE p == IF task[t].at = "last save" THEN "last write" ELSE "write"
<1>1. /\ p \in {"last write", "write"} /\ (p = "write" => task[t].at = "save")
      /\ task[t].at \in {"save", "last save"}
      /\ UNCHANGED <<serving, header, loaded, cacheFile, stray>>
  BY DEF Vault!Save
<1>2. CASE header = Vault!None
  <2>1. Vault!Go(t, p) /\ UNCHANGED vectors
    BY <1>2 DEF Vault!Save
  <2>. HIDE DEF p
  <2>. QED
    BY <1>0, <1>1, <2>1, GoneOn DEF Vault!Midway, Asking
<1>3. CASE header # Vault!None
  <2>. DEFINE c == Vault!Blob
              k == [task[t] EXCEPT !.at = p, !.blob = c]
  <2>1. vectors' = c.vectors /\ task' = [task EXCEPT ![t] = k]
    BY <1>3 DEF Vault!Save
  <2>2. c.header = header /\ c.vectors = [w \in live \cap DOMAIN vectors |-> vectors[w]]
    BY DEF Vault!Blob, Vault!Restrict
  <2>. HIDE DEF c, p
  <2>3. ByTheirModel(loaded, c.vectors) /\ ByTheirModel(c.header, c.vectors)
    BY <1>3, <1>a, <2>2 DEF ByTheirModel
  <2>4. /\ k.at = p /\ k.blob = c /\ k.under = task[t].under /\ k.answer = task[t].answer
        /\ k.query = task[t].query /\ k.made = task[t].made
    BY <1>0 DEF TaskSet
  <2>. HIDE DEF k
  <2>5. Truthful(k) /\ (k.at \in Vault!Midway => task[t].at \in Vault!Midway)
    <3>1. k.at \in Vault!Midway => task[t].at \in Vault!Midway
      BY <1>1, <2>4 DEF Vault!Midway
    <3>. QED
      BY <1>1, <1>a, <2>3, <2>4, <3>1 DEF Truthful, Stands, MadeBy, Asking
  <2>. QED
    BY <1>0, <1>1, <1>a, <2>1, <2>3, <2>4, <2>5, ModelsStay
<1>. QED
  BY <1>2, <1>3

LEMMA WriteIsTrue ==
    ASSUME VaultInv, ModelInv, NEW t \in Search \cup {Vault!Builder}, Vault!Write(t)
    PROVE  ModelInv'
<1>0. t \in Vault!Task /\ task[t] \in TaskSet
  BY Goroutine DEF Vault!Task
<1>a. /\ ByTheirModel(loaded, vectors) /\ ByTheirModel(cacheFile.header, cacheFile.vectors)
      /\ Truthful(task[t])
      /\ \A x \in {task[t].answer, task[t].under, task[t].query} : x = Vault!None \/ Relies(x)
  BY <1>0, Stand
<1>1. ByTheirModel(cacheFile'.header, cacheFile'.vectors)
  BY <1>a DEF Vault!Write, Truthful
<1>2. CASE task[t].at = "write"
  <2>. DEFINE k == [task[t] EXCEPT !.at = IF t = Vault!Builder THEN "next" ELSE "query",
                                  !.blob = Vault!Idle.blob]
  <2>1. task' = [task EXCEPT ![t] = k] /\ UNCHANGED <<serving, header, loaded, vectors, stray>>
    BY <1>2 DEF Vault!Write
  <2>2. /\ k.at \in {"next", "query"} /\ k.blob = Vault!Idle.blob /\ k.under = task[t].under
        /\ k.answer = task[t].answer /\ k.query = task[t].query /\ k.made = task[t].made
    BY <1>0 DEF TaskSet
  <2>. HIDE DEF k
  <2>3. task[t].at \in Vault!Midway /\ loaded # Vault!None
    BY <1>0, <1>2, Stand DEF Vault!Midway
  <2>4. Truthful(k)
    BY <1>2, <1>a, <2>2, <2>3, IdleIsTrue DEF Truthful, Stands, MadeBy, Asking
  <2>. QED
    BY <1>0, <1>1, <1>a, <2>1, <2>2, <2>3, <2>4, ModelsStay
<1>3. CASE task[t].at # "write"
  BY <1>0, <1>1, <1>3, <1>a, IdleIsTrue, ModelsStay DEF Vault!Write
<1>. QED
  BY <1>2, <1>3

LEMMA BuildIsTrue ==
    ASSUME VaultInv, ModelInv, Vault!BuildSaves \/ Vault!BuildNext PROVE ModelInv'
<1>. DEFINE t == Vault!Builder
<1>0. t \in Vault!Task /\ task[t] \in TaskSet
  BY Goroutine DEF Vault!Task
<1>1. task[t].at = "next" /\ UNCHANGED <<serving, header, loaded, vectors, cacheFile, stray>>
  BY DEF Vault!BuildSaves, Vault!BuildNext
<1>2. CASE Vault!BuildSaves
  <2>. DEFINE k == [task[t] EXCEPT !.at = "save", !.turn = 0]
  <2>1. task' = [task EXCEPT ![t] = k]
    BY <1>2 DEF Vault!BuildSaves
  <2>2. /\ k.at = "save" /\ k.answer = task[t].answer /\ k.under = task[t].under
        /\ k.query = task[t].query /\ k.made = task[t].made /\ k.blob = task[t].blob
    BY <1>0 DEF TaskSet
  <2>. HIDE DEF k, t
  <2>. QED
    BY <1>0, <1>1, <2>1, <2>2, EmbedBegins
<1>3. CASE Vault!BuildNext
  <2>1. CASE Vault!Go(t, "last save")
    BY <1>0, <1>1, <2>1, GoneOn DEF Vault!Midway, Asking
  <2>2. CASE \E b \in SUBSET Vault!Pending :
               task' = [task EXCEPT ![t].at = "embed", ![t].batch = b, ![t].turn = @ + 1]
    <3>1. PICK b \in SUBSET Vault!Pending :
             task' = [task EXCEPT ![t].at = "embed", ![t].batch = b, ![t].turn = @ + 1]
      BY <2>2
    <3>. DEFINE k == [task[t] EXCEPT !.at = "embed", !.batch = b, !.turn = @ + 1]
    <3>2. task' = [task EXCEPT ![t] = k]
      BY <3>1
    <3>3. /\ k.at = "embed" /\ k.answer = task[t].answer /\ k.under = task[t].under
          /\ k.query = task[t].query /\ k.made = task[t].made /\ k.blob = task[t].blob
      BY <1>0 DEF TaskSet
    <3>. HIDE DEF k, t
    <3>. QED
      BY <1>0, <1>1, <3>2, <3>3, EmbedBegins
  <2>. QED
    BY <1>3, <2>1, <2>2 DEF Vault!BuildNext
<1>. QED
  BY <1>2, <1>3

\* Ollama is given another model: what is relied on goes astray, and nothing else.
LEMMA ServeIsTrue ==
    ASSUME VaultInv, ModelInv, NEW d \in Digest \cup {Vault!None, Vault!Absent}, Vault!Serve(d)
    PROVE  ModelInv'
<1>1. /\ serving' = d /\ UNCHANGED <<header, loaded, vectors, cacheFile, task>>
      /\ stray' = IF d \in Digest THEN stray \cup (Vault!Relied \ {d}) ELSE stray
  BY DEF Vault!Serve
<1>2. \A x : Relies(x)' <=> Relies(x)
  BY <1>1 DEF Relies
<1>3. \A x \in stray : x \in stray'
  BY <1>1
<1>4. OneModel'
  <2>1. \A x, y \in Digest : Relies(x) /\ Relies(y) => x = y \/ x \in stray' \/ y \in stray'
    BY <1>3 DEF ModelInv, OneModel
  <2>2. \A x \in Digest : Relies(x) /\ d \in Digest => x = d \/ x \in stray'
    BY <1>1, ReliedAre
  <2>. QED
    BY <1>1, <1>2, <2>1, <2>2 DEF OneModel
<1>5. ByTheirModel(loaded, vectors)' /\ ByTheirModel(cacheFile.header, cacheFile.vectors)'
  BY <1>1, <1>3 DEF ModelInv, ByTheirModel
<1>6. \A u \in Vault!Task : Truthful(task[u])'
  BY <1>1, <1>3 DEF ModelInv, Truthful, Stands, Fits, MadeBy, ByTheirModel
<1>. QED
  BY <1>4, <1>5, <1>6 DEF ModelInv

\* After a restart nothing is relied on.
LEMMA RestartIsTrue == ASSUME VaultInv, ModelInv, Vault!Restart PROVE ModelInv'
<1>1. /\ header' = Vault!None /\ loaded' = Vault!None /\ vectors' = Vault!NoVectors
      /\ task' = [t \in Vault!Task |-> Vault!Idle] /\ UNCHANGED <<serving, cacheFile, stray>>
  BY DEF Vault!Restart
<1>2. \A t \in Vault!Task : task'[t] = Vault!Idle
  BY <1>1
<1>3. \A x : ~Relies(x)'
  BY <1>1, <1>2, IdleIsTrue DEF Relies
<1>4. OneModel'
  BY <1>3 DEF OneModel
<1>5. ByTheirModel(loaded, vectors)' /\ ByTheirModel(cacheFile.header, cacheFile.vectors)'
  BY <1>1 DEF ModelInv, ByTheirModel, Vault!NoVectors
<1>6. \A t \in Vault!Task : Truthful(task[t])'
  <2>1. /\ Vault!Idle.at = "idle" /\ Vault!Idle.query = Vault!None /\ DOMAIN Vault!Idle.made = {}
        /\ DOMAIN Vault!Idle.blob.vectors = {}
    BY DEF Vault!Idle, Vault!NoneMade, Vault!NoVectors
  <2>. QED
    BY <1>2, <2>1 DEF Truthful, Stands, Fits, MadeBy, ByTheirModel, Vault!Midway
<1>. QED
  BY <1>4, <1>5, <1>6 DEF ModelInv

LEMMA ModelStep == VaultInv /\ ModelInv /\ [Vault!Next]_(Vault!vaultVars) => ModelInv'
<1>. SUFFICES ASSUME VaultInv, ModelInv, [Vault!Next]_(Vault!vaultVars) PROVE ModelInv'
  OBVIOUS
<1>1. ASSUME NEW t \in Search \cup {Vault!Warmer},
             \/ \E found \in {Window, {}} : Vault!Refresh(t, found)
             \/ Vault!Known(t) \/ Vault!Probe(t) \/ Vault!Probed(t)
      PROVE  ModelInv'
  BY <1>1, SearchesAreTrue, ProbedIsTrue DEF Vault!Task
<1>2. CASE Vault!WarmBuilds \/ \E t \in Search : Vault!Semantic(t)
  BY <1>2, SemanticIsTrue
<1>3. ASSUME NEW t \in Search, Vault!EmbedQuery(t) \/ Vault!Rank(t) PROVE ModelInv'
  BY <1>3, SearchesAreTrue
<1>4. ASSUME NEW t \in Search \cup {Vault!Builder}, Vault!Embeds(t) PROVE ModelInv'
  BY <1>4, EmbedIsTrue, KeepIsTrue, SaveIsTrue, WriteIsTrue DEF Vault!Embeds
<1>5. CASE Vault!BuildSaves \/ Vault!BuildNext
  BY <1>5, BuildIsTrue
<1>6. CASE \E d \in Digest \cup {Vault!None, Vault!Absent} : Vault!Serve(d)
  BY <1>6, ServeIsTrue
<1>7. CASE Vault!Restart
  BY <1>7, RestartIsTrue
<1>8. CASE UNCHANGED Vault!vaultVars
  BY <1>8 DEF Vault!vaultVars, ModelInv, OneModel, Relies, ByTheirModel, Truthful, Stands, Fits, MadeBy
<1>. QED
  BY <1>1, <1>2, <1>3, <1>4, <1>5, <1>6, <1>7, <1>8 DEF Vault!Next, Vault!Build

\* The header is the model that made the vectors, and they are of the query's.
LEMMA ModelsShow == VaultInv /\ ModelInv => Vault!VectorsOfTheirModel
<1>. SUFFICES ASSUME VaultInv, ModelInv PROVE Vault!VectorsOfTheirModel
  OBVIOUS
<1>1. \A t \in Search : Fits(task[t].query)
  BY Stand DEF Truthful, Vault!Task
<1>. QED
  BY <1>1 DEF ModelInv, ByTheirModel, Fits, Vault!VectorsOfTheirModel

-----------------------------------------------------------------------------
(* All of them: the part under check keeps its invariant, and the parts share  *)
(* nothing but the rest they are at.                                           *)

StoresInv ==
    /\ SupervisorInv
    /\ part = "placement" => PlacementInv
    /\ part = "vault" => VaultInv /\ ModelInv
    /\ part = "vault set" => VaultSetInv
    /\ part = "vault index" => VaultIndexInv

LEMMA StoresInvInit == StoresInit => StoresInv
<1>. SUFFICES ASSUME StoresInit PROVE StoresInv
  OBVIOUS
<1>1. SupervisorInv
  BY SupervisorInit DEF StoresInit
<1>2. part = "placement" => PlacementInv
  BY PlacementInit DEF StoresInit
<1>3. part = "vault" => VaultInv /\ ModelInv
  BY VaultInit, ModelsAtFirst DEF StoresInit
<1>4. part = "vault set" => VaultSetInv
  BY VaultSetInit DEF StoresInit
<1>5. part = "vault index" => VaultIndexInv
  BY VaultIndexInit DEF StoresInit
<1>. QED
  BY <1>1, <1>2, <1>3, <1>4, <1>5 DEF StoresInv

\* A state in which every part's variables are what they were.
LEMMA StoresRest ==
    ASSUME StoresInv, UNCHANGED StoresVars PROVE StoresInv'
<1>1. /\ UNCHANGED <<part, vars>>
      /\ UNCHANGED Placement!vars /\ UNCHANGED Vault!vaultVars
      /\ UNCHANGED VaultSet!vaultSetVars /\ UNCHANGED VaultIndex!indexVars
  BY DEF StoresVars, Placement!vars, Vault!vaultVars, VaultSet!vaultSetVars, VaultIndex!indexVars
<1>2. SupervisorInv'
  BY <1>1, SupervisorStep DEF StoresInv
<1>3. part' = "placement" => PlacementInv'
  BY <1>1, PlacementStep DEF StoresInv
<1>4. part' = "vault" => VaultInv' /\ ModelInv'
  BY <1>1, VaultStep, ModelStep DEF StoresInv
<1>5. part' = "vault set" => VaultSetInv'
  BY <1>1, VaultSetStep DEF StoresInv
<1>6. part' = "vault index" => VaultIndexInv'
  BY <1>1, VaultIndexStep DEF StoresInv
<1>. QED
  BY <1>2, <1>3, <1>4, <1>5, <1>6 DEF StoresInv

LEMMA StoresInvStep == StoresInv /\ [StoresNext]_StoresVars => StoresInv'
<1>. SUFFICES ASSUME StoresInv, [StoresNext]_StoresVars PROVE StoresInv'
  OBVIOUS
<1>0. UNCHANGED vars => SupervisorInv'
  BY SupervisorStep DEF StoresInv
<1>1. CASE part = "supervisor" /\ Next /\ UNCHANGED part
  BY <1>1, SupervisorStep DEF StoresInv
<1>2. CASE part = "placement" /\ Placement!Next /\ UNCHANGED <<part, vars>>
  BY <1>0, <1>2, PlacementStep DEF StoresInv
<1>3. CASE part = "vault" /\ Vault!Next /\ UNCHANGED <<part, vars>>
  BY <1>0, <1>3, VaultStep, ModelStep DEF StoresInv
<1>4. CASE part = "vault set" /\ VaultSet!Next /\ UNCHANGED <<part, vars>>
  BY <1>0, <1>4, VaultSetStep DEF StoresInv
<1>5. CASE part = "vault index" /\ VaultIndex!Next /\ UNCHANGED <<part, vars>>
  BY <1>0, <1>5, VaultIndexStep DEF StoresInv
<1>. QED
  BY <1>1, <1>2, <1>3, <1>4, <1>5, StoresRest DEF StoresNext

LEMMA StoresInvShows ==
    StoresInv => StoreTypesOK /\ RunnerIsCurrent /\ PlacementIsSafe /\ VaultIsTrue
<1>. SUFFICES ASSUME StoresInv
              PROVE  StoreTypesOK /\ RunnerIsCurrent /\ PlacementIsSafe /\ VaultIsTrue
  OBVIOUS
<1>1. TypeOK /\ RunnerIsCurrent
  BY SupervisorShows DEF StoresInv, SupervisorInv
<1>2. part = "placement" => Placement!TypeOK /\ Placement!NeverLost /\ Placement!NeverAdopts
  BY DEF StoresInv, PlacementInv
<1>3. part = "vault" => /\ Vault!VaultTypeOK /\ Vault!VectorsAsFiled
                        /\ Vault!VectorsOfTheirModel /\ Vault!OneBuild
  BY VaultShows, ModelsShow DEF StoresInv
<1>4. part = "vault set" => VaultSet!VaultSetTypeOK /\ VaultSet!WarmedIfConfigured
  BY DEF StoresInv, VaultSetInv
<1>5. /\ part = "vault index" => VaultIndex!IndexTypeOK
      /\ part = "vault index" => VaultIndex!StampTellsTheText /\ VaultIndex!NothingUnstamped
  BY DEF StoresInv, VaultIndexInv
<1>. QED
  BY <1>1, <1>2, <1>3, <1>4, <1>5 DEF StoreTypesOK, PlacementIsSafe, VaultIsTrue

LEMMA StoresInvariant == Stores => []StoresInv
  BY StoresInvInit, StoresInvStep, PTL DEF Stores

\* What the code's own types let a variable of the supervisor, of a move, of the vault's
\* vectors, roots and files hold is all it ever holds.
THEOREM StoresTyped == Stores => []StoreTypesOK
  BY StoresInvariant, StoresInvShows, PTL

\* Once the writers that change the manifest have sent their signals, and the supervisor
\* has taken them, the runner in the terminal is one launched from the manifest as it is.
THEOREM StoresRunnerIsCurrent == Stores => []RunnerIsCurrent
  BY StoresInvariant, StoresInvShows, PTL

\* After a crash or a failure at any step of a move, with any roots configured or away,
\* a scan finds the session's thoughts, and the session's link never names a folder of
\* another session.
THEOREM StoresPlacementIsSafe == Stores => []PlacementIsSafe
  BY StoresInvariant, StoresInvShows, PTL

\* A vector is filed under the header it was asked for under, whatever model was swapped
\* meanwhile, and was made by that model, as was the query it is ranked against, unless
\* Ollama was given another while the header was relied on; one build at a time; every
\* configured root has been warmed or is on its way; and of a file whose texts bear
\* different stamps, the index has no text under a stamp later than the text's own.
THEOREM StoresVaultIsTrue == Stores => []VaultIsTrue
  BY StoresInvariant, StoresInvShows, PTL

-----------------------------------------------------------------------------
(* And of each component by itself, from its own specification. *)

\* As above, of the supervisor alone.
THEOREM SupervisorIsCurrent == Spec => []RunnerIsCurrent
  BY SupervisorInit, SupervisorStep, SupervisorShows, PTL DEF Spec

\* As above, of moves alone.
THEOREM MovesAreRecoverable ==
    Placement!Spec => []Placement!NeverLost /\ []Placement!NeverAdopts
<1>1. PlacementInv => Placement!NeverLost /\ Placement!NeverAdopts
  BY DEF PlacementInv
<1>. QED
  BY <1>1, PlacementInit, PlacementStep, PTL DEF Placement!Spec

\* As above, of the vault's vectors alone.
THEOREM VectorsAreTrue ==
    Vault!Spec => []Vault!VectorsAsFiled /\ []Vault!VectorsOfTheirModel /\ []Vault!OneBuild
<1>1. Vault!Init => VaultInv /\ ModelInv
  BY VaultInit, ModelsAtFirst
<1>2. VaultInv /\ ModelInv /\ [Vault!Next]_(Vault!vaultVars) => VaultInv' /\ ModelInv'
  BY VaultStep, ModelStep
<1>3. VaultInv /\ ModelInv => Vault!VectorsAsFiled /\ Vault!VectorsOfTheirModel /\ Vault!OneBuild
  BY VaultShows, ModelsShow
<1>. QED
  BY <1>1, <1>2, <1>3, PTL DEF Vault!Spec

\* As above, of the configured roots alone.
THEOREM RootsAreWarmed == VaultSet!Spec => []VaultSet!WarmedIfConfigured
<1>1. VaultSetInv => VaultSet!WarmedIfConfigured
  BY DEF VaultSetInv
<1>. QED
  BY <1>1, VaultSetInit, VaultSetStep, PTL DEF VaultSet!Spec

\* As above, of the index of files alone.
THEOREM StampsTellTheTexts ==
    VaultIndex!Spec => []VaultIndex!StampTellsTheText /\ []VaultIndex!NothingUnstamped
<1>1. VaultIndexInv => VaultIndex!StampTellsTheText /\ VaultIndex!NothingUnstamped
  BY DEF VaultIndexInv
<1>. QED
  BY <1>1, VaultIndexInit, VaultIndexStep, PTL DEF VaultIndex!Spec
=============================================================================
