------------------------------- MODULE Viewport -------------------------------
(* What a document's page reports it shows (desktop/documents.go: content,     *)
(* report, viewport).  The workbench handles each call under the registry's    *)
(* mutex; the calls themselves arrive in any order.                            *)
EXTENDS Integers, Sequences, FiniteSets, SequencesExt

CONSTANTS
    Interval,     \* the line intervals a page may report
    MaxLoads,     \* bound: loads of the page
    MaxReports,   \* bound: reports of one load, and reports on their way
    MaxIntervals  \* bound: intervals in one report

ViewportAssumption ==
    /\ {MaxLoads, MaxReports, MaxIntervals} \subseteq Nat
    /\ Interval \subseteq [line : Int, to : Int] /\ IsFiniteSet(Interval)

VARIABLES
    epoch,      \* viewportEpoch
    seq,        \* viewportSeq
    view,       \* viewport: the epoch, sequence and lines it was measured by
    pageAt,     \* the load the page is at and the last report it sent
    reports     \* reports on their way

viewVars == <<epoch, seq, view, pageAt, reports>>

Unmeasured == [epoch |-> 0, seq |-> 0, lines |-> << >>, from |-> {}]

Init ==
    /\ epoch = 0
    /\ seq = 0
    /\ view = Unmeasured
    /\ pageAt = [epoch |-> 0, seq |-> 0]
    /\ reports = {}

(* content: a load of the page starts the viewport over in an epoch of its own. *)
Load ==
    /\ epoch < MaxLoads
    /\ epoch' = epoch + 1
    /\ seq' = 0
    /\ view' = Unmeasured
    /\ pageAt' = [epoch |-> epoch + 1, seq |-> 0]
    /\ UNCHANGED reports

(* The page measures and sends: each call is a goroutine of its own here, so    *)
(* reports arrive in any order, those of earlier loads too.                     *)
PageReports ==
    /\ pageAt.epoch > 0 /\ pageAt.seq < MaxReports
    /\ Cardinality(reports) < MaxReports
    /\ pageAt' = [pageAt EXCEPT !.seq = @ + 1]
    /\ \E lines \in SUBSET Interval : Cardinality(lines) <= MaxIntervals
        /\ reports' = reports \cup {[epoch |-> pageAt.epoch, seq |-> pageAt.seq + 1, lines |-> lines]}
    /\ UNCHANGED <<epoch, seq, view>>

(* normalizedIntervals: in order, those that touch made one.                    *)
Merge(merged, next) ==
    IF merged # << >> /\ next.line <= Last(merged).to + 1
    THEN IF next.to > Last(merged).to
         THEN [merged EXCEPT ![Len(merged)].to = next.to] ELSE merged
    ELSE Append(merged, next)

Before(a, b) == a.line < b.line \/ (a.line = b.line /\ a.to < b.to)

NormalizedIntervals(lines) ==
    LET merged[some \in SUBSET lines] ==
          IF some = {} THEN << >>
          ELSE LET latest == CHOOSE l \in some : \A k \in some \ {l} : Before(k, l)
               IN  Merge(merged[some \ {latest}], latest)
    IN  merged[lines]

(* Mutant: a report is told from older ones by its sequence alone.              *)
CurrentBySeq(r) == r.seq > seq

(* report: one of another load, or older than the last, says nothing; one with  *)
(* a reversed interval is refused.                                              *)
Current(r) == r.epoch = epoch /\ r.seq > seq

Report(r) ==
    /\ reports' = reports \ {r}
    /\ IF Current(r) /\ \A i \in r.lines : i.line >= 1 /\ i.to >= i.line
       THEN /\ seq' = r.seq
            /\ view' = [epoch |-> r.epoch, seq |-> r.seq,
                        lines |-> NormalizedIntervals(r.lines), from |-> r.lines]
       ELSE UNCHANGED <<seq, view>>
    /\ UNCHANGED <<epoch, pageAt>>

-----------------------------------------------------------------------------

Next == Load \/ PageReports \/ \E r \in reports : Report(r)

Spec == Init /\ [][Next]_viewVars

-----------------------------------------------------------------------------
ViewTypeOK ==
    /\ epoch \in 0..MaxLoads /\ seq \in 0..MaxReports
    /\ view.epoch \in 0..MaxLoads /\ view.seq \in 0..MaxReports /\ view.from \subseteq Interval
    /\ pageAt \in [epoch : 0..MaxLoads, seq : 0..MaxReports]
    /\ \A r \in reports : r.epoch \in 1..MaxLoads /\ r.seq \in 1..MaxReports

(* The viewport is this load's own and the newest that arrived of it, however  *)
(* late an earlier one comes in.                                               *)
ViewIsOfThisLoad == view.seq = seq /\ (view # Unmeasured => view.epoch = epoch)

(* Normalizing keeps the lines it was given and nothing else, in order and with *)
(* a gap between any two intervals.                                             *)
LinesOf(intervals) == UNION {i.line..i.to : i \in intervals}
ViewCoversTheReport ==
    /\ LinesOf(ToSet(view.lines)) = LinesOf(view.from)
    /\ \A i \in DOMAIN view.lines : i > 1 => view.lines[i].line > view.lines[i - 1].to + 1
=============================================================================
