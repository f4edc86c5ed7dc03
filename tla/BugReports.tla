----------------------------- MODULE BugReports -----------------------------
(***************************************************************************)
(* A session's bug reports: the records the workbench keeps under the      *)
(* session's lock (desktop/bug_reports.go), the agent's report_bug call     *)
(* that queues one and polls it to an outcome (mcpserver/bug_reports.go),   *)
(* the control socket between them (workbench/bug_reports.go), and the      *)
(* goroutine that files a confirmed report on GitHub.                       *)
(*                                                                         *)
(* The socket carries one request per connection.  A caller that gives up   *)
(* does not take its request back: the workbench may still read it.         *)
(***************************************************************************)
EXTENDS Naturals, FiniteSets

CONSTANTS
    Report,       \* report_bug calls, each with the random id it queues under
    NoReport,     \* the empty id
    Review,       \* BugReportReviewTimeout, in clock ticks
    Allowance,    \* bugReportFinishAllowance
    Retention,    \* bugReportRetention
    PollFailures, \* bugReportPollFailures
    Horizon       \* bound: the last clock tick looked at

ASSUME ReportAssumption == NoReport \notin Report
ASSUME TimesAssumption ==
    /\ Review \in Nat /\ Allowance \in Nat /\ Retention \in Nat \ {0}
    /\ PollFailures \in Nat \ {0} /\ Horizon \in Nat

VARIABLES
    now,       \* the clock both processes read
    stopped,   \* sessionState.stopped
    status,    \* each record's outcome, or "absent"
    finished,  \* each record's finished time (meaningless until terminal)
    latest,    \* sessionState.latestBugReport
    post,      \* the goroutine and the HTTP request of a confirmed report
    issues,    \* issues GitHub holds for each report
    inflight,  \* requests the workbench may still read
    reply,     \* what a caller's connection has answered
    pc,        \* where each report_bug call has got to
    deadline,  \* each call's review deadline
    failures,  \* consecutive failed polls
    result     \* what the agent was told

records == <<status, finished, latest>>
filing  == <<post, issues>>
wire    == <<inflight, reply>>
client  == <<pc, deadline, failures, result>>
vars    == <<now, stopped, records, filing, wire, client>>

Terminal  == {"created", "failed", "cancelled", "expired", "unknown"}
Live      == {"pending", "posting"}
Statuses  == Terminal \cup Live \cup {"absent"}
Waiting   == {"queue", "status", "cancel"}

TypeOK ==
    /\ now \in 0..Horizon
    /\ stopped \in BOOLEAN
    /\ status \in [Report -> Statuses]
    /\ finished \in [Report -> 0..Horizon]
    /\ latest \in Report \cup {NoReport}
    /\ post \in [Report -> {"none", "sending", "arrived", "rejected", "unanswered", "over"}]
    /\ issues \in [Report -> Nat]
    /\ inflight \subseteq Report \X {"queue", "cancel"}
    /\ reply \in [Report -> {"none", "refused"} \cup Terminal \cup Live]
    /\ pc \in [Report -> Waiting \cup {"idle", "polling", "done"}]
    /\ deadline \in [Report -> Nat]
    /\ failures \in [Report -> 0..PollFailures]
    /\ result \in [Report -> {"none"} \cup Terminal]

Init ==
    /\ now = 0 /\ stopped = FALSE
    /\ status = [r \in Report |-> "absent"]
    /\ finished = [r \in Report |-> 0]
    /\ latest = NoReport
    /\ post = [r \in Report |-> "none"]
    /\ issues = [r \in Report |-> 0]
    /\ inflight = {}
    /\ reply = [r \in Report |-> "none"]
    /\ pc = [r \in Report |-> "idle"]
    /\ deadline = [r \in Report |-> 0]
    /\ failures = [r \in Report |-> 0]
    /\ result = [r \in Report |-> "none"]

-----------------------------------------------------------------------------
(* The workbench's records.                                                 *)

\* pruneBugReports: a pending report past its deadline expires, one whose session
\* has stopped is cancelled, and a finished one is dropped after its retention.
Ended(r, st) ==
    IF status[r] # "pending" \/ (~st /\ now < deadline[r]) THEN status[r]
    ELSE IF st THEN "cancelled" ELSE "expired"
Dropped(r) == status[r] \in Terminal /\ now >= finished[r] + Retention

PrunedStatus(st)   == [r \in Report |-> IF Dropped(r) THEN "absent" ELSE Ended(r, st)]
PrunedFinished(st) == [r \in Report |-> IF Ended(r, st) # status[r] THEN now ELSE finished[r]]
PrunedLatest == IF latest # NoReport /\ Dropped(latest) THEN NoReport ELSE latest

Prune(st) ==
    /\ status' = PrunedStatus(st)
    /\ finished' = PrunedFinished(st)
    /\ latest' = PrunedLatest

\* A response reaches the caller only if it is still waiting for this operation.
Answer(r, op, answer) ==
    reply' = [reply EXCEPT ![r] = IF pc[r] = op /\ @ = "none" THEN answer ELSE @]

Outcome(s) == IF s = "absent" THEN "refused" ELSE s

\* Mutant: a second report is taken while one is under review or being posted.
QueueBusy(r) ==
    LET s == PrunedStatus(stopped)
    IN  /\ <<r, "queue">> \in inflight
        /\ inflight' = inflight \ {<<r, "queue">>}
        /\ IF stopped \/ s[r] # "absent"
           THEN /\ Prune(stopped)
                /\ Answer(r, "queue", IF stopped \/ s[r] = "absent" THEN "refused" ELSE s[r])
           ELSE LET born == IF now < deadline[r] THEN "pending" ELSE "expired"
                IN  /\ status' = [s EXCEPT ![r] = born]
                    /\ finished' = [PrunedFinished(stopped) EXCEPT ![r] = now]
                    /\ latest' = r
                    /\ Answer(r, "queue", born)
        /\ UNCHANGED <<now, stopped, filing, client>>

\* BugReports.queue: refused on a stopped session and while another report is
\* live, and the answer it already has for an id it knows.
Queue(r) ==
    LET s == PrunedStatus(stopped)
        busy == \E q \in Report : s[q] \in Live
    IN  /\ <<r, "queue">> \in inflight
        /\ inflight' = inflight \ {<<r, "queue">>}
        /\ IF stopped \/ s[r] # "absent" \/ busy
           THEN /\ Prune(stopped)
                /\ Answer(r, "queue", IF stopped \/ s[r] = "absent" THEN "refused" ELSE s[r])
           ELSE LET born == IF now < deadline[r] THEN "pending" ELSE "expired"
                IN  /\ status' = [s EXCEPT ![r] = born]
                    /\ finished' = [PrunedFinished(stopped) EXCEPT ![r] = now]
                    /\ latest' = r
                    /\ Answer(r, "queue", born)
        /\ UNCHANGED <<now, stopped, filing, client>>

\* Mutant: a report that is being posted can still be cancelled.
CancelPosting(r) ==
    LET s == PrunedStatus(stopped)
    IN  /\ status' = [s EXCEPT ![r] = IF @ \in Live THEN "cancelled" ELSE @]
        /\ finished' = [PrunedFinished(stopped) EXCEPT ![r] = IF s[r] \in Live THEN now ELSE @]
        /\ latest' = PrunedLatest

\* BugReports.cancel, the one body behind the agent's request and the page's.
CancelRecord(r) ==
    LET s == PrunedStatus(stopped)
    IN  /\ status' = [s EXCEPT ![r] = IF @ = "pending" THEN "cancelled" ELSE @]
        /\ finished' = [PrunedFinished(stopped) EXCEPT ![r] = IF s[r] = "pending" THEN now ELSE @]
        /\ latest' = PrunedLatest

Cancel(r) ==
    /\ <<r, "cancel">> \in inflight
    /\ inflight' = inflight \ {<<r, "cancel">>}
    /\ CancelRecord(r)
    /\ Answer(r, "cancel", Outcome(status'[r]))
    /\ UNCHANGED <<now, stopped, filing, client>>

\* BugReports.status.  A poll abandoned by its caller changes nothing that the
\* next reader's prune would not, so only an awaited one is followed.
Status(r) ==
    /\ pc[r] = "status" /\ reply[r] = "none"
    /\ Prune(stopped)
    /\ Answer(r, "status", Outcome(status'[r]))
    /\ UNCHANGED <<now, stopped, filing, inflight, client>>

\* The user cancels from the page, or opens the review.
PageCancel(r) ==
    /\ ~stopped /\ CancelRecord(r)
    /\ UNCHANGED <<now, stopped, filing, wire, client>>

Load ==
    /\ ~stopped /\ Prune(stopped)
    /\ UNCHANGED <<now, stopped, filing, wire, client>>

\* Mutant: a doubled click on confirm is not told apart from the first.
ConfirmAgain(r) ==
    LET s == PrunedStatus(stopped)
    IN  /\ ~stopped /\ PrunedLatest = r /\ s[r] \in Live
        /\ status' = [s EXCEPT ![r] = "posting"]
        /\ finished' = PrunedFinished(stopped)
        /\ latest' = PrunedLatest
        /\ post' = [post EXCEPT ![r] = "sending"]
        /\ UNCHANGED <<now, stopped, issues, wire, client>>

\* BugReports.Confirm: only the latest report of a running session, and only once
\* out of pending.
Confirm(r) ==
    LET s == PrunedStatus(stopped)
    IN  /\ ~stopped /\ PrunedLatest = r /\ s[r] = "pending"
        /\ status' = [s EXCEPT ![r] = "posting"]
        /\ finished' = PrunedFinished(stopped)
        /\ latest' = PrunedLatest
        /\ post' = [post EXCEPT ![r] = "sending"]
        /\ UNCHANGED <<now, stopped, issues, wire, client>>

\* GitHub takes the POST, whether or not its sender still waits for the answer.
Arrive(r) ==
    /\ post[r] \in {"sending", "unanswered"}
    /\ issues' = [issues EXCEPT ![r] = @ + 1]
    /\ post' = [post EXCEPT ![r] = IF @ = "sending" THEN "arrived" ELSE "over"]
    /\ UNCHANGED <<now, stopped, records, wire, client>>

Reject(r) ==
    /\ post[r] = "sending"
    /\ post' = [post EXCEPT ![r] = "rejected"]
    /\ UNCHANGED <<now, stopped, records, issues, wire, client>>

\* The end of Confirm's goroutine: a sound answer is an issue, no token and a
\* rejection are a failure, and anything else (a timeout, a 5xx, an unreadable
\* body) leaves it unknown.
Filed(r) ==
    /\ \/ /\ post[r] = "arrived"
          /\ status' = [status EXCEPT ![r] = "created"]
          /\ post' = [post EXCEPT ![r] = "over"]
       \/ /\ post[r] = "rejected"
          /\ status' = [status EXCEPT ![r] = "failed"]
          /\ post' = [post EXCEPT ![r] = "over"]
       \/ /\ post[r] \in {"sending", "arrived"}
          /\ status' = [status EXCEPT ![r] = "unknown"]
          /\ post' = [post EXCEPT ![r] = IF @ = "sending" THEN "unanswered" ELSE "over"]
    /\ finished' = [finished EXCEPT ![r] = now]
    /\ UNCHANGED <<now, stopped, latest, issues, wire, client>>

\* sessionState.stop prunes under the lock that sets stopped; the listener then
\* closes, and a request may or may not have been read before it.
Stop ==
    /\ ~stopped
    /\ stopped' = TRUE
    /\ Prune(TRUE)
    /\ inflight' \in SUBSET inflight
    /\ UNCHANGED <<now, filing, reply, client>>

-----------------------------------------------------------------------------
(* The agent's report_bug call.                                             *)

Send(r, op) ==
    /\ pc' = [pc EXCEPT ![r] = op]
    /\ reply' = [reply EXCEPT ![r] = "none"]
    /\ inflight' \in (IF op = "status" THEN {inflight}
                      ELSE IF stopped THEN {inflight} ELSE {inflight \cup {<<r, op>>}, inflight})

Tell(r, outcome) ==
    /\ pc' = [pc EXCEPT ![r] = "done"]
    /\ result' = [result EXCEPT ![r] = outcome]

Quiet(r) == reply' = [reply EXCEPT ![r] = "none"] /\ UNCHANGED inflight

ReportBug(r) ==
    /\ pc[r] = "idle" /\ now + Review + Allowance <= Horizon
    /\ deadline' = [deadline EXCEPT ![r] = now + Review]
    /\ Send(r, "queue")
    /\ UNCHANGED <<now, stopped, records, filing, failures, result>>

\* A refusal is final.  A queue call that got no answer is cancelled, because it may
\* have been taken.
Queued(r) ==
    /\ pc[r] = "queue" /\ reply[r] # "none"
    /\ \/ reply[r] = "refused" /\ Tell(r, "failed")
       \/ reply[r] \in Terminal /\ Tell(r, reply[r])
       \/ reply[r] \in Live /\ pc' = [pc EXCEPT ![r] = "polling"] /\ UNCHANGED result
    /\ Quiet(r)
    /\ UNCHANGED <<now, stopped, records, filing, deadline, failures>>

\* Mutant: a queue call that got no answer is taken for a refusal.
QueueLostRefused(r) ==
    /\ pc[r] = "queue"
    /\ Tell(r, "failed")
    /\ Quiet(r)
    /\ UNCHANGED <<now, stopped, records, filing, deadline, failures>>

QueueLost(r) ==
    /\ pc[r] = "queue"
    /\ Send(r, "cancel")
    /\ UNCHANGED <<now, stopped, records, filing, deadline, failures, result>>

\* CancelBugReport's answer counts only if it is an outcome.
Cancelled(r) ==
    /\ pc[r] = "cancel"
    /\ \/ reply[r] \in Terminal /\ Tell(r, reply[r])
       \/ Tell(r, "unknown")
    /\ Quiet(r)
    /\ UNCHANGED <<now, stopped, records, filing, deadline, failures>>

Tick(r) ==
    /\ pc[r] = "polling"
    /\ Send(r, "status")
    /\ UNCHANGED <<now, stopped, records, filing, deadline, failures, result>>

\* The tool call's context ends while it waits.
ContextDone(r) ==
    /\ pc[r] = "polling"
    /\ Send(r, "cancel")
    /\ UNCHANGED <<now, stopped, records, filing, deadline, failures, result>>

\* Mutant: the call waits for an outcome for as long as the workbench answers.
NeverTimedOut(r) == FALSE /\ UNCHANGED vars

TimedOut(r) ==
    /\ pc[r] = "polling" /\ now >= deadline[r] + Allowance
    /\ Tell(r, "unknown")
    /\ UNCHANGED <<now, stopped, records, filing, wire, deadline, failures>>

Polled(r) ==
    /\ pc[r] = "status" /\ reply[r] \in Terminal \cup Live
    /\ failures' = [failures EXCEPT ![r] = 0]
    /\ IF reply[r] \in Terminal THEN Tell(r, reply[r])
       ELSE pc' = [pc EXCEPT ![r] = "polling"] /\ UNCHANGED result
    /\ Quiet(r)
    /\ UNCHANGED <<now, stopped, records, filing, deadline>>

\* Mutant: the failure that reaches the limit is counted like any other.
PollFailedOn(r) ==
    /\ pc[r] = "status" /\ reply[r] \in {"none", "refused"}
    /\ failures' = [failures EXCEPT ![r] = @ + 1]
    /\ IF failures[r] + 1 > PollFailures THEN Tell(r, "unknown")
       ELSE pc' = [pc EXCEPT ![r] = "polling"] /\ UNCHANGED result
    /\ Quiet(r)
    /\ UNCHANGED <<now, stopped, records, filing, deadline>>

PollFailed(r) ==
    /\ pc[r] = "status" /\ reply[r] \in {"none", "refused"}
    /\ failures' = [failures EXCEPT ![r] = @ + 1]
    /\ IF failures[r] + 1 >= PollFailures THEN Tell(r, "unknown")
       ELSE pc' = [pc EXCEPT ![r] = "polling"] /\ UNCHANGED result
    /\ Quiet(r)
    /\ UNCHANGED <<now, stopped, records, filing, deadline>>

Clock ==
    /\ now < Horizon
    /\ now' = now + 1
    /\ UNCHANGED <<stopped, records, filing, wire, client>>

Call(r) == Queued(r) \/ QueueLost(r) \/ Cancelled(r) \/ Tick(r) \/ Polled(r) \/ PollFailed(r)

Next ==
    \/ Clock \/ Stop \/ Load
    \/ \E r \in Report :
          \/ Queue(r) \/ Cancel(r) \/ Status(r) \/ PageCancel(r) \/ Confirm(r)
          \/ Arrive(r) \/ Reject(r) \/ Filed(r)
          \/ ReportBug(r) \/ Call(r) \/ ContextDone(r) \/ TimedOut(r)

Spec == Init /\ [][Next]_vars

\* The call's own goroutine runs on, a call on the socket ends by its timeout, and
\* select takes the expired timer in the end although the ticker is ready as often.
FairSpec ==
    /\ Spec
    /\ WF_vars(Clock)
    /\ \A r \in Report : WF_vars(Call(r)) /\ SF_vars(TimedOut(r))

-----------------------------------------------------------------------------
(* What a report promises.                                                  *)

\* An agent told that its report failed, was cancelled or expired is told the
\* truth for good: nothing was filed, and nothing filed later.
NeverDeniedThenFiled ==
    \A r \in Report : result[r] \in {"failed", "cancelled", "expired"} => issues[r] = 0

\* A confirmed report is filed once at most, and one the agent hears was created
\* is on GitHub.
FiledOnce ==
    \A r \in Report : issues[r] <= 1 /\ (result[r] = "created" => issues[r] = 1)

\* One report at a time is under review or being posted, and it is the one the
\* page can reach: Load and Confirm answer for the latest only.
LiveIsReachable == \A r \in Report : status[r] \in Live => latest = r

\* Nothing revises an outcome: a terminal record stays as it is until it is dropped.
OutcomesAreFinal ==
    [][\A r \in Report : status[r] \in Terminal => status'[r] \in {status[r], "absent"}]_vars

\* Every report_bug call comes back with an answer.
EveryCallAnswered == \A r \in Report : pc[r] = "queue" ~> pc[r] = "done"
=============================================================================
