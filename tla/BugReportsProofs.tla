-------------------------- MODULE BugReportsProofs --------------------------
(***************************************************************************)
(* The promises of BugReports, for every set of reports and every timing.   *)
(*                                                                         *)
(* What an agent is told is about a record that may since have been dropped, *)
(* about a request that may still be on its way, and about a POST that may    *)
(* still be answered.  The invariant follows each of them: what the record    *)
(* says of the POST (Filing), that a call queues once (QueuedOnce), and that   *)
(* a denial, heard or on its way to be heard, leaves nothing that could still  *)
(* file (Heard).                                                            *)
(***************************************************************************)
EXTENDS BugReports, TLAPS

Denied == {"failed", "cancelled", "expired"}

\* No issue, and nothing left that could make one.
Closed(r) ==
    /\ post[r] \in {"none", "over"} /\ issues[r] = 0
    /\ status[r] \notin Live
    /\ <<r, "queue">> \notin inflight

\* What a record and its POST say of each other.
Filing(r) ==
    /\ status[r] = "posting" <=> post[r] \in {"sending", "arrived", "rejected"}
    /\ status[r] \in {"pending", "cancelled", "expired"} => post[r] = "none"
    /\ status[r] \in {"created", "failed"} => post[r] = "over"
    /\ status[r] = "created" => issues[r] = 1
    /\ status[r] = "failed" => issues[r] = 0
    /\ post[r] \in {"none", "sending", "rejected", "unanswered"} => issues[r] = 0
    /\ post[r] = "arrived" => issues[r] = 1
    /\ issues[r] <= 1

\* A request to queue is for a record that never was.
QueuedOnce(r) ==
    pc[r] = "idle" \/ <<r, "queue">> \in inflight => status[r] = "absent" /\ post[r] = "none"

IdleIsFresh(r) ==
    pc[r] = "idle" => <<r, "queue">> \notin inflight /\ reply[r] = "none" /\ result[r] = "none"

\* What the call has been answered and what the agent has been told.
Heard(r) ==
    /\ reply[r] \in Denied => Closed(r)
    /\ reply[r] = "refused" /\ pc[r] = "queue" => Closed(r)
    /\ reply[r] = "created" => issues[r] = 1
    /\ result[r] \in Denied => Closed(r)
    /\ result[r] = "created" => issues[r] = 1

\* A call that still polls has failures left.
Patient(r) == pc[r] \in Waiting \cup {"idle", "polling"} => failures[r] < PollFailures

\* A live report is the one the page can reach.
Reachable(r) == status[r] \in Live => latest = r

Sound(r) ==
    Reachable(r) /\ Filing(r) /\ QueuedOnce(r) /\ IdleIsFresh(r) /\ Heard(r) /\ Patient(r)

Inv == TypeOK /\ \A r \in Report : Sound(r)

-----------------------------------------------------------------------------
\* pruneBugReports leaves records of the right kind.
LEMMA PruneType ==
    ASSUME TypeOK, NEW st \in BOOLEAN
    PROVE  /\ PrunedStatus(st) \in [Report -> Statuses]
           /\ PrunedFinished(st) \in [Report -> 0..Horizon]
           /\ PrunedLatest \in Report \cup {NoReport}
  BY DEF TypeOK, PrunedStatus, PrunedFinished, PrunedLatest, Ended, Statuses, Terminal, Live

LEMMA AnswerType ==
    ASSUME TypeOK, NEW r \in Report, NEW op,
           NEW a \in {"refused"} \cup Terminal \cup Live, Answer(r, op, a)
    PROVE  reply' \in [Report -> {"none", "refused"} \cup Terminal \cup Live]
  BY DEF TypeOK, Answer

LEMMA SendType ==
    ASSUME TypeOK, NEW r \in Report, NEW op \in Waiting, Send(r, op)
    PROVE  /\ pc' \in [Report -> Waiting \cup {"idle", "polling", "done"}]
           /\ reply' \in [Report -> {"none", "refused"} \cup Terminal \cup Live]
           /\ inflight' \subseteq Report \X {"queue", "cancel"}
  BY DEF TypeOK, Send, Waiting

\* Every variable keeps its type.
LEMMA TypeInductive == TypeOK /\ (\A r \in Report : Patient(r)) /\ [Next]_vars => TypeOK'
<1>. SUFFICES ASSUME TypeOK, \A r \in Report : Patient(r), [Next]_vars PROVE TypeOK'
  OBVIOUS
<1>. USE ReportAssumption, TimesAssumption
<1>1. CASE UNCHANGED vars
  BY <1>1 DEF TypeOK, vars, records, filing, wire, client
<1>2. CASE Clock
  BY <1>2 DEF Clock, TypeOK, records, filing, wire, client
<1>3. CASE Stop
  BY <1>3, PruneType DEF Stop, Prune, TypeOK, filing, client
<1>4. CASE Load
  BY <1>4, PruneType DEF Load, Prune, TypeOK, filing, wire, client
<1>5. ASSUME NEW r \in Report, Queue(r) PROVE TypeOK'
  <2>. DEFINE s == PrunedStatus(stopped)
  <2>1. s[r] \in Statuses
    BY PruneType DEF TypeOK
  <2>2. reply' \in [Report -> {"none", "refused"} \cup Terminal \cup Live]
    BY <1>5, <2>1, AnswerType DEF Queue, Statuses, Terminal, Live
  <2>3. status' \in [Report -> Statuses] /\ finished' \in [Report -> 0..Horizon]
        /\ latest' \in Report \cup {NoReport}
    BY <1>5, PruneType DEF Queue, Prune, Statuses, Terminal, Live, TypeOK
  <2>. QED
    BY <1>5, <2>2, <2>3 DEF Queue, TypeOK, filing, client
<1>6. ASSUME NEW r \in Report, CancelRecord(r)
      PROVE  /\ status' \in [Report -> Statuses] /\ finished' \in [Report -> 0..Horizon]
             /\ latest' \in Report \cup {NoReport}
  BY <1>6, PruneType DEF CancelRecord, Statuses, Terminal, Live, TypeOK
<1>7. ASSUME NEW r \in Report, Cancel(r) PROVE TypeOK'
  <2>1. reply' \in [Report -> {"none", "refused"} \cup Terminal \cup Live]
    BY <1>6, <1>7, AnswerType DEF Cancel, Outcome, Statuses
  <2>. QED
    BY <1>6, <1>7, <2>1 DEF Cancel, TypeOK, filing, client
<1>8. ASSUME NEW r \in Report, Status(r) PROVE TypeOK'
  <2>1. reply' \in [Report -> {"none", "refused"} \cup Terminal \cup Live]
    BY <1>8, PruneType, AnswerType DEF Status, Prune, Outcome, Statuses, TypeOK
  <2>. QED
    BY <1>8, <2>1, PruneType DEF Status, Prune, TypeOK, filing, client
<1>9. ASSUME NEW r \in Report, PageCancel(r) PROVE TypeOK'
  BY <1>6, <1>9 DEF PageCancel, TypeOK, filing, wire, client
<1>10. ASSUME NEW r \in Report, Confirm(r) PROVE TypeOK'
  BY <1>10, PruneType DEF Confirm, TypeOK, Statuses, Live, wire, client
<1>11. ASSUME NEW r \in Report, Arrive(r) \/ Reject(r) \/ Filed(r) PROVE TypeOK'
  BY <1>11 DEF Arrive, Reject, Filed, TypeOK, Statuses, Terminal, records, wire, client
<1>12. ASSUME NEW r \in Report, ReportBug(r) PROVE TypeOK'
  BY <1>12 DEF ReportBug, Send, TypeOK, Waiting, records, filing
<1>13. ASSUME NEW r \in Report, Queued(r) \/ QueueLost(r) \/ Cancelled(r) PROVE TypeOK'
  <2>1. CASE Queued(r)
    BY <2>1 DEF Queued, Tell, Quiet, TypeOK, Waiting, Terminal, records, filing
  <2>2. CASE QueueLost(r)
    BY <2>2, SendType DEF QueueLost, TypeOK, Waiting, records, filing
  <2>3. CASE Cancelled(r)
    BY <2>3 DEF Cancelled, Tell, Quiet, TypeOK, Waiting, Terminal, records, filing
  <2>. QED
    BY <1>13, <2>1, <2>2, <2>3
<1>14. ASSUME NEW r \in Report, Tick(r) \/ ContextDone(r) \/ TimedOut(r) PROVE TypeOK'
  BY <1>14 DEF Tick, ContextDone, TimedOut, Send, Tell, TypeOK, Waiting, Terminal, records, filing, wire
<1>15. ASSUME NEW r \in Report, Polled(r) \/ PollFailed(r) PROVE TypeOK'
  BY <1>15 DEF Polled, PollFailed, Tell, Quiet, TypeOK, Waiting, Terminal, Patient, records, filing
<1>. QED
  BY <1>1, <1>2, <1>3, <1>4, <1>5, <1>7, <1>8, <1>9, <1>10, <1>11, <1>12, <1>13, <1>14, <1>15
  DEF Next, Call

-----------------------------------------------------------------------------
LEMMA InitInv == Init => Inv
<1>. SUFFICES ASSUME Init PROVE Inv
  OBVIOUS
<1>. USE ReportAssumption, TimesAssumption DEF Init
<1>1. TypeOK
  <2>1. 0 \in 0..Horizon /\ 0 \in 0..PollFailures
    OBVIOUS
  <2>. QED
    BY <2>1, Zenon DEF TypeOK, Terminal, Live, Statuses, Waiting
<1>2. ASSUME NEW r \in Report PROVE Sound(r)
  BY DEF Sound, Reachable, Filing, QueuedOnce, IdleIsFresh, Heard, Patient, Denied, Live
<1>. QED
  BY <1>1, <1>2 DEF Inv

\* Pruning keeps a live report live or ends it, and never the other way.
LEMMA PruneFacts ==
    ASSUME Inv, NEW st \in BOOLEAN, NEW r \in Report
    PROVE  /\ PrunedStatus(st)[r] \in {status[r], "absent", "cancelled", "expired"}
           /\ PrunedStatus(st)[r] = "absent" => status[r] \in Terminal \cup {"absent"}
           /\ PrunedStatus(st)[r] \in {"cancelled", "expired"} => status[r] \in {PrunedStatus(st)[r], "pending"}
           /\ PrunedStatus(st)[r] \in Live => PrunedLatest = r
           /\ status[r] = "absent" => PrunedStatus(st)[r] = "absent"
<1>. USE DEF Inv, TypeOK, PrunedStatus, Ended, Live, Terminal, Statuses
<1>1. PrunedStatus(st)[r] = IF Dropped(r) THEN "absent" ELSE Ended(r, st)
  OBVIOUS
<1>2. Dropped(r) => status[r] \in Terminal
  BY DEF Dropped
<1>3. PrunedStatus(st)[r] \in Live => PrunedLatest = r
  BY <1>1, <1>2, ReportAssumption DEF PrunedLatest, Sound, Reachable
<1>. QED
  BY <1>1, <1>2, <1>3

\* A step of the workbench that only prunes.
LEMMA PruneKeeps ==
    ASSUME Inv, NEW st \in BOOLEAN, Prune(st), NEW q \in Report,
           UNCHANGED <<filing, client>>, inflight' \subseteq inflight,
           reply'[q] = reply[q]
    PROVE  Sound(q)'
  BY PruneFacts
  DEF Inv, Prune, Sound, Reachable, Filing, QueuedOnce, IdleIsFresh, Heard, Patient, Denied, Closed,
      Live, Terminal, filing, client

\* Every step preserves the invariant: the promise of each report, whichever
\* report the step is about.
LEMMA Inductive == Inv /\ [Next]_vars => Inv'
<1>. SUFFICES ASSUME Inv, [Next]_vars PROVE Inv'
  OBVIOUS
<1>. USE ReportAssumption, TimesAssumption
<1>0. TypeOK /\ TypeOK'
  BY TypeInductive DEF Inv, Sound
<1>. SUFFICES ASSUME NEW q \in Report PROVE Sound(q)'
  BY <1>0 DEF Inv
<1>q. Sound(q)
  BY DEF Inv
<1>. USE DEF Sound, Reachable, Filing, QueuedOnce, IdleIsFresh, Heard, Patient, Closed, Denied
<1>1. CASE UNCHANGED vars
  BY <1>1, <1>q DEF vars, records, filing, wire, client
<1>2. CASE Clock
  BY <1>2, <1>q DEF Clock, records, filing, wire, client
<1>3. CASE Stop
  BY <1>3, PruneKeeps DEF Stop
<1>4. CASE Load
  BY <1>4, PruneKeeps DEF Load, Inv, TypeOK, wire
<1>5. ASSUME NEW r \in Report, Queue(r) PROVE Sound(q)'
  <2>1. <<r, "queue">> \in inflight /\ inflight' = inflight \ {<<r, "queue">>}
        /\ UNCHANGED <<filing, client>>
    BY <1>5 DEF Queue
  <2>2. status[r] = "absent" /\ post[r] = "none" /\ issues[r] = 0 /\ pc[r] # "idle"
    BY <2>1 DEF Inv
  <2>3. CASE Prune(stopped) /\ Answer(r, "queue", "refused")
    <3>1. status'[r] = "absent"
      BY <2>2, <2>3, PruneFacts, <1>0 DEF Prune, TypeOK
    <3>. QED
      BY <1>q, <1>0, <2>1, <2>2, <2>3, <3>1, PruneFacts
      DEF Prune, Answer, Live, Terminal, TypeOK, filing, client
  <2>4. CASE /\ \A p \in Report : PrunedStatus(stopped)[p] \notin Live
             /\ \E born \in {"pending", "expired"} :
                   /\ status' = [PrunedStatus(stopped) EXCEPT ![r] = born]
                   /\ latest' = r
                   /\ Answer(r, "queue", born)
    <3>1. PICK born \in {"pending", "expired"} :
                   /\ status' = [PrunedStatus(stopped) EXCEPT ![r] = born]
                   /\ latest' = r
                   /\ Answer(r, "queue", born)
      BY <2>4
    <3>2. status'[r] = born /\ (q # r => status'[q] = PrunedStatus(stopped)[q] /\ status'[q] \notin Live)
      BY <2>4, <3>1, PruneType, <1>0 DEF TypeOK
    <3>. QED
      BY <1>q, <1>0, <2>1, <2>2, <3>1, <3>2, PruneFacts
      DEF Answer, Live, Terminal, TypeOK, filing, client
  <2>5. PrunedStatus(stopped)[r] = "absent"
    BY <2>2, PruneFacts, <1>0 DEF TypeOK
  <2>. QED
    BY <1>5, <2>3, <2>4, <2>5 DEF Queue
<1>6. ASSUME NEW r \in Report, Cancel(r) PROVE Sound(q)'
  <2>1. Reachable(q)' /\ Filing(q)' /\ QueuedOnce(q)'
    BY <1>6, <1>q, <1>0, PruneFacts
    DEF Cancel, CancelRecord, Live, Terminal, TypeOK, filing, client
  <2>2. Closed(q) => Closed(q)'
    BY <1>6, <1>q, <1>0, PruneFacts
    DEF Cancel, CancelRecord, Live, Terminal, TypeOK, filing, client
  <2>3. reply'[q] = reply[q] \/ (q = r /\ pc[r] = "cancel" /\ reply'[q] = Outcome(status'[q]))
    BY <1>6, <1>0 DEF Cancel, Answer, TypeOK
  <2>4. <<q, "queue">> \in inflight' => <<q, "queue">> \in inflight
    BY <1>6 DEF Cancel
  <2>5. Heard(q)' /\ IdleIsFresh(q)' /\ Patient(q)'
    BY <1>6, <1>q, <1>0, <2>1, <2>2, <2>3, <2>4
    DEF Cancel, Outcome, Live, Terminal, TypeOK, filing, client
  <2>. QED
    BY <2>1, <2>5
<1>7. ASSUME NEW r \in Report, Status(r) PROVE Sound(q)'
  BY <1>7, <1>q, <1>0, PruneFacts DEF Status, Prune, Answer, Outcome, Live, Terminal, TypeOK, filing, client
<1>8. ASSUME NEW r \in Report, PageCancel(r) PROVE Sound(q)'
  BY <1>8, <1>q, <1>0, PruneFacts DEF PageCancel, CancelRecord, Live, Terminal, TypeOK, filing, client, wire
<1>9. ASSUME NEW r \in Report, Confirm(r) PROVE Sound(q)'
  BY <1>9, <1>q, <1>0, PruneFacts DEF Confirm, Live, Terminal, TypeOK, filing, client, wire
<1>10. ASSUME NEW r \in Report, Arrive(r) \/ Reject(r) PROVE Sound(q)'
  <2>1. CASE q # r
    BY <1>10, <1>q, <1>0, <2>1 DEF Arrive, Reject, TypeOK, records, wire, client
  <2>2. CASE q = r /\ Arrive(r)
    <3>1. issues[q] = 0 /\ issues'[q] = 1 /\ post'[q] \in {"arrived", "over"}
      BY <1>q, <1>0, <2>2 DEF Arrive, TypeOK
    <3>. QED
      BY <1>q, <1>0, <2>2, <3>1 DEF Arrive, TypeOK, records, wire, client
  <2>3. CASE q = r /\ Reject(r)
    BY <1>q, <1>0, <2>3 DEF Reject, TypeOK, records, wire, client
  <2>. QED
    BY <1>10, <2>1, <2>2, <2>3
<1>11. ASSUME NEW r \in Report, Filed(r) PROVE Sound(q)'
  <2>1. CASE q # r
    BY <1>11, <1>q, <1>0, <2>1 DEF Filed, TypeOK, wire, client
  <2>2. CASE q = r /\ post[r] = "arrived" /\ post'[r] = "over" /\ status'[r] \in {"created", "unknown"}
    BY <1>11, <1>q, <1>0, <2>2 DEF Filed, TypeOK, Live, wire, client
  <2>3. CASE q = r /\ post[r] = "rejected" /\ post'[r] = "over" /\ status'[r] = "failed"
    BY <1>11, <1>q, <1>0, <2>3 DEF Filed, TypeOK, Live, wire, client
  <2>4. CASE q = r /\ post[r] = "sending" /\ post'[r] = "unanswered" /\ status'[r] = "unknown"
    BY <1>11, <1>q, <1>0, <2>4 DEF Filed, TypeOK, Live, wire, client
  <2>. QED
    BY <1>11, <1>0, <2>1, <2>2, <2>3, <2>4 DEF Filed, TypeOK
<1>12. ASSUME NEW r \in Report, ReportBug(r) PROVE Sound(q)'
  BY <1>12, <1>q, <1>0 DEF ReportBug, Send, TypeOK, Live, Denied, Waiting, records, filing
<1>13. ASSUME NEW r \in Report, Queued(r) PROVE Sound(q)'
  BY <1>13, <1>q, <1>0 DEF Queued, Tell, Quiet, TypeOK, Live, Denied, Terminal, Waiting, records, filing
<1>14. ASSUME NEW r \in Report, QueueLost(r) \/ Tick(r) \/ ContextDone(r) PROVE Sound(q)'
  BY <1>14, <1>q, <1>0 DEF QueueLost, Tick, ContextDone, Send, TypeOK, Live, Denied, Waiting, records, filing
<1>15. ASSUME NEW r \in Report, Cancelled(r) \/ TimedOut(r) PROVE Sound(q)'
  BY <1>15, <1>q, <1>0 DEF Cancelled, TimedOut, Tell, Quiet, TypeOK, Live, Denied, Terminal, Waiting, records, filing, wire
<1>16. ASSUME NEW r \in Report, Polled(r) \/ PollFailed(r) PROVE Sound(q)'
  BY <1>16, <1>q, <1>0 DEF Polled, PollFailed, Tell, Quiet, TypeOK, Live, Denied, Terminal, Waiting, records, filing
<1>. QED
  BY <1>1, <1>2, <1>3, <1>4, <1>5, <1>6, <1>7, <1>8, <1>9, <1>10, <1>11, <1>12, <1>13, <1>14, <1>15, <1>16
  DEF Next, Call

\* The invariant holds in every reachable state.
LEMMA Invariance == Spec => []Inv
  BY InitInv, Inductive, PTL DEF Spec

\* Every variable of the records, the socket and the calls keeps its type.
THEOREM TypeCorrect == Spec => []TypeOK
<1>1. Inv => TypeOK
  BY DEF Inv
<1>. QED
  BY Invariance, <1>1, PTL

\* An agent told that its report failed, was cancelled or expired is told the truth
\* for good: no issue exists, and none appears later.
THEOREM NeverDenied == Spec => []NeverDeniedThenFiled
<1>1. Inv => NeverDeniedThenFiled
  BY DEF Inv, Sound, Heard, Closed, Denied, NeverDeniedThenFiled
<1>. QED
  BY Invariance, <1>1, PTL

\* A report is filed once at most, and has been when the agent hears it was.
THEOREM FiledOnceOnly == Spec => []FiledOnce
<1>1. Inv => FiledOnce
  BY DEF Inv, Sound, Filing, Heard, FiledOnce
<1>. QED
  BY Invariance, <1>1, PTL

\* Nothing revises an outcome until it is dropped, in any step of any behaviour.
THEOREM OutcomesFinal == Spec => OutcomesAreFinal
<1>1. Inv /\ [Next]_vars =>
        [\A r \in Report : status[r] \in Terminal => status'[r] \in {status[r], "absent"}]_vars
  <2>. SUFFICES ASSUME Inv, Next, NEW r \in Report, status[r] \in Terminal
               PROVE  status'[r] \in {status[r], "absent"}
    OBVIOUS
  <2>. USE DEF Terminal, Live
  <2>1. TypeOK /\ PrunedStatus(stopped)[r] \in {status[r], "absent"}
        /\ PrunedStatus(TRUE)[r] \in {status[r], "absent"}
    BY PruneFacts DEF Inv, TypeOK
  <2>2. ASSUME NEW q \in Report, CancelRecord(q) PROVE status'[r] \in {status[r], "absent"}
    BY <2>1, <2>2, PruneType DEF CancelRecord
  <2>3. ASSUME NEW q \in Report, Queue(q) PROVE status'[r] \in {status[r], "absent"}
    <3>1. status[q] = "absent"
      BY <2>3 DEF Queue, Inv, Sound, QueuedOnce
    <3>2. PrunedStatus(stopped) \in [Report -> Statuses] /\ r # q
      BY <2>1, <3>1, PruneType DEF TypeOK
    <3>3. \/ status' = PrunedStatus(stopped)
          \/ \E born : status' = [PrunedStatus(stopped) EXCEPT ![q] = born]
      BY <2>3 DEF Queue, Prune
    <3>. QED
      BY <2>1, <3>2, <3>3
  <2>4. ASSUME NEW q \in Report, Confirm(q) PROVE status'[r] \in {status[r], "absent"}
    BY <2>1, <2>4, PruneType DEF Confirm
  <2>5. ASSUME NEW q \in Report, Filed(q) PROVE status'[r] \in {status[r], "absent"}
    <3>1. status[q] = "posting"
      BY <2>5 DEF Filed, Inv, Sound, Filing
    <3>. QED
      BY <2>1, <2>5, <3>1 DEF Filed, TypeOK
  <2>. QED
    BY <2>1, <2>2, <2>3, <2>4, <2>5
    DEF Next, Clock, Stop, Load, Prune, Cancel, Status, PageCancel, Arrive, Reject, ReportBug, Call,
        Queued, QueueLost, Cancelled, Tick, Polled, PollFailed, ContextDone, TimedOut, records
<1>. QED
  BY Invariance, <1>1, PTL DEF Spec, OutcomesAreFinal

\* A report under review or being posted is the one the page can reach.
THEOREM Reach == Spec => []LiveIsReachable
<1>1. Inv => LiveIsReachable
  BY DEF Inv, Sound, Reachable, LiveIsReachable
<1>. QED
  BY Invariance, <1>1, PTL
=============================================================================
