---------------------------- MODULE Repositories ----------------------------
(***************************************************************************)
(* The repository list the picker draws from: the button that refetches    *)
(* it (desktop/repos.go) and the fan-out over the owners behind it         *)
(* (github/github.go).  Each press is a generation: it cancels the one     *)
(* before it, and a generation that was superseded may still be fetching,  *)
(* sending and about to write the cache file.                              *)
(*                                                                         *)
(* A list is abstracted to the generation that fetched it, 0 for what the  *)
(* workbench started with; `merged`, `repos` and the cache file's entries  *)
(* hold one such number per owner.  A context is cancelled exactly when    *)
(* its generation is not the newest: Refresh does both under one lock.     *)
(***************************************************************************)
EXTENDS Naturals, Sequences, FiniteSets

CONSTANTS Owner,        \* the owners a user may configure
          MaxGen,       \* bound: presses of the refresh button
          MaxEdits      \* bound: changes of the configured owners

RepositoriesAssumption ==
    /\ IsFiniteSet(Owner) /\ Owner # {}
    /\ MaxGen \in Nat \ {0}
    /\ MaxEdits \in Nat

VARIABLES configured,   \* cfg.Orgs, which the settings panel replaces
          repos,        \* Repositories.repos, by owner
          errs,         \* Repositories.errs: the owners whose last attempt failed
          gen,          \* Repositories.gen
          runs,         \* the goroutine of each generation, its fan-out and channel
          disk,         \* the cache file: each owner's list and its FetchedAt
          ownerEdits    \* changes of `configured` so far, for the bound

repoVars == <<configured, repos, errs, gen, runs, disk, ownerEdits>>

Gens  == 1..MaxGen
Lists == [Owner -> 0..MaxGen]
None  == [o \in Owner |-> 0]

Started(o)      == [state |-> "started", owner |-> {o}, list |-> {}]
Failed(o)       == [state |-> "failed", owner |-> {o}, list |-> {}]
Succeeded(o, l) == [state |-> "succeeded", owner |-> {o}, list |-> l]
Complete(l)     == [state |-> "complete", owner |-> {}, list |-> l]

NoRun == [at |-> "none", owners |-> {}, left |-> {}, merged |-> None,
          fresh |-> {}, queue |-> <<>>, reading |-> FALSE]

\* OwnedBy: the lists of owners nobody configures any more are left behind.
OwnedBy(lists, owners) == [o \in Owner |-> IF o \in owners THEN lists[o] ELSE 0]

Superseded(g) == g < gen

\* The owners are walked in the order they are configured in, a fixed one here.
NextOf(owners) == CHOOSE o \in owners : TRUE

\* Mutant: room for one message an owner.
BufferOfOwners(owners) == Cardinality(owners)

\* "This is the maximum possible event count": the capacity of the channel.
Buffer(owners) == 2 * Cardinality(owners) + 1

RepoInit ==
    /\ configured = Owner
    /\ repos = None
    /\ errs = {}
    /\ gen = 0
    /\ runs = [g \in Gens |-> NoRun]
    /\ disk = [list |-> None, at |-> None]
    /\ ownerEdits = 0

Configure(owners) ==
    /\ ownerEdits < MaxEdits
    /\ owners # configured
    /\ configured' = owners
    /\ ownerEdits' = ownerEdits + 1
    /\ UNCHANGED <<repos, errs, gen, runs, disk>>

\* Refresh: the failed owners alone if any did fail, every owner otherwise.  The
\* token is read by the goroutine it starts.
Refresh ==
    /\ gen < MaxGen
    /\ gen' = gen + 1
    /\ runs' = [runs EXCEPT ![gen + 1] =
                   [NoRun EXCEPT !.at = "token", !.owners = configured,
                                 !.left = errs \cap configured,
                                 !.merged = OwnedBy(repos, configured)]]
    /\ UNCHANGED <<configured, repos, errs, disk, ownerEdits>>

\* Mutant: a message is folded in whichever generation it came from.
PushWhateverGen(g, msg) ==
    /\ errs' = CASE msg.state = "succeeded" -> errs \ msg.owner
                 [] msg.state = "failed"    -> errs \cup msg.owner
                 [] OTHER                   -> errs
    /\ repos' = IF msg.list = {} THEN repos ELSE CHOOSE l \in Lists : msg.list = {l}

(***************************************************************************)
(* push: what a message does to the list and to the errors.  A message of  *)
(* a superseded generation does nothing.                                   *)
(***************************************************************************)
Push(g, msg) ==
    IF Superseded(g)
      THEN UNCHANGED <<repos, errs>>
      ELSE /\ errs' = CASE msg.state = "succeeded" -> errs \ msg.owner
                        [] msg.state = "failed"    -> errs \cup msg.owner
                        [] OTHER                   -> errs
           /\ repos' = IF msg.list = {} THEN repos
                       ELSE CHOOSE l \in Lists : msg.list = {l}

Quietly == UNCHANGED <<configured, gen, disk, ownerEdits>>

(***************************************************************************)
(* run, as far as the token.  Without one every owner it would have asked  *)
(* is told to have failed, then the run is complete.                       *)
(***************************************************************************)
HasToken(g) ==
    /\ runs[g].at = "token"
    /\ IF runs[g].left = {}
         THEN runs' = [runs EXCEPT ![g].at = "starting", ![g].left = runs[g].owners,
                                   ![g].reading = TRUE]
         ELSE runs' = [runs EXCEPT ![g].at = "retry"]
    /\ UNCHANGED <<repos, errs>>
    /\ Quietly

HasNoToken(g) ==
    /\ runs[g].at = "token"
    /\ runs' = [runs EXCEPT ![g].at = "refused",
                            ![g].left = IF @ = {} THEN runs[g].owners ELSE @]
    /\ UNCHANGED <<repos, errs>>
    /\ Quietly

TellRefused(g) ==
    /\ runs[g].at = "refused" /\ runs[g].left # {}
    /\ runs' = [runs EXCEPT ![g].left = @ \ {NextOf(@)}]
    /\ Push(g, Failed(NextOf(runs[g].left)))
    /\ Quietly

\* Mutant: the refused run returns without its last message.
CompleteRefusedUntold(g) ==
    /\ runs[g].at = "refused" /\ runs[g].left = {}
    /\ runs' = [runs EXCEPT ![g].at = "dropped"]
    /\ UNCHANGED <<repos, errs>>
    /\ Quietly

CompleteRefused(g) ==
    /\ runs[g].at = "refused" /\ runs[g].left = {}
    /\ runs' = [runs EXCEPT ![g].at = IF Superseded(g) THEN "dropped" ELSE "told"]
    /\ Push(g, Complete({}))
    /\ Quietly

(***************************************************************************)
(* run's retry half: it walks the failed owners and folds what they answer *)
(* into a list of its own, which is pushed only with the last message.     *)
(***************************************************************************)
RetryStarts(g) ==
    /\ runs[g].at = "retry" /\ runs[g].left # {}
    /\ runs' = [runs EXCEPT ![g].at = IF Superseded(g) THEN "dropped" ELSE "asking"]
    /\ Push(g, Started(NextOf(runs[g].left)))
    /\ Quietly

RetryAnswers(g, ok) ==
    LET o == NextOf(runs[g].left) IN
    /\ runs[g].at = "asking"
    /\ runs' = [runs EXCEPT ![g].at = IF Superseded(g) THEN "dropped" ELSE "retry",
                            ![g].left = @ \ {o},
                            ![g].merged[o] = IF ok THEN g ELSE @]
    /\ Push(g, IF ok THEN Succeeded(o, {}) ELSE Failed(o))
    /\ Quietly

\* The cache is written only with no owner failing and the run not cancelled.
RetryJudges(g) ==
    /\ runs[g].at = "retry" /\ runs[g].left = {}
    /\ runs' = [runs EXCEPT ![g].at =
                   IF errs = {} /\ ~Superseded(g) THEN "stamping" ELSE "last"]
    /\ UNCHANGED <<repos, errs>>
    /\ Quietly

\* writeOwnerCaches: the list of every owner, and the time of the owners it was
\* told are fresh; the file may be of another set of owners, and then has none.
Written(owners, lists, fresh, now) ==
    [list |-> OwnedBy(lists, owners),
     at   |-> [o \in Owner |-> CASE o \in owners \cap fresh -> now
                                 [] o \in owners \ fresh    -> disk.at[o]
                                 [] OTHER                   -> 0]]

\* WriteRepoCache: "each one is stamped as fetched now".
RetryStamps(g) ==
    /\ runs[g].at = "stamping"
    /\ disk' \in {disk, Written(runs[g].owners, runs[g].merged, runs[g].owners, g)}
    /\ runs' = [runs EXCEPT ![g].at = "last"]
    /\ UNCHANGED <<configured, repos, errs, gen, ownerEdits>>

RetryCompletes(g) ==
    /\ runs[g].at = "last"
    /\ runs' = [runs EXCEPT ![g].at = IF Superseded(g) THEN "dropped" ELSE "told"]
    /\ Push(g, Complete({runs[g].merged}))
    /\ Quietly

(***************************************************************************)
(* RefreshRepos: the coordinator, whose sends need room in the channel.  A *)
(* worker's answer is taken when the coordinator receives it.              *)
(***************************************************************************)
Send(g, msg, at, left, merged, fresh) ==
    /\ Len(runs[g].queue) < Buffer(runs[g].owners)
    /\ runs' = [runs EXCEPT ![g].queue = Append(@, msg), ![g].at = at,
                            ![g].left = left, ![g].merged = merged, ![g].fresh = fresh]
    /\ UNCHANGED <<repos, errs>>
    /\ Quietly

StartOwner(g) ==
    LET r == runs[g]
        o == NextOf(r.left)
    IN
    /\ r.at = "starting"
    /\ IF r.left = {o} THEN Send(g, Started(o), "collecting", r.owners, r.merged, {})
                       ELSE Send(g, Started(o), "starting", r.left \ {o}, r.merged, {})

Collect(g, o, ok) ==
    LET r == runs[g]
        with == [r.merged EXCEPT ![o] = g]
    IN /\ r.at = "collecting" /\ o \in r.left
       /\ IF ok THEN Send(g, Succeeded(o, {with}), "collecting", r.left \ {o}, with, r.fresh \cup {o})
                ELSE Send(g, Failed(o), "collecting", r.left \ {o}, r.merged, r.fresh)

\* The context is looked at here, and the file written afterwards.
Judge(g) ==
    /\ runs[g].at = "collecting" /\ runs[g].left = {}
    /\ runs' = [runs EXCEPT ![g].at =
                   IF ~Superseded(g) /\ runs[g].fresh # {} THEN "writing" ELSE "closing"]
    /\ UNCHANGED <<repos, errs>>
    /\ Quietly

Write(g) ==
    /\ runs[g].at = "writing"
    /\ disk' \in {disk, Written(runs[g].owners, runs[g].merged, runs[g].fresh, g)}
    /\ runs' = [runs EXCEPT ![g].at = "closing"]
    /\ UNCHANGED <<configured, repos, errs, gen, ownerEdits>>

SendComplete(g) ==
    /\ runs[g].at = "closing"
    /\ Send(g, Complete({runs[g].merged}), "closed", {}, runs[g].merged, runs[g].fresh)

\* run's loop over the channel: it stops reading at the first message push drops.
Receive(g) ==
    LET r == runs[g] IN
    /\ r.reading /\ r.queue # <<>>
    /\ Push(g, Head(r.queue))
    /\ runs' = [runs EXCEPT ![g].queue = Tail(@),
                            ![g].reading = ~Superseded(g) /\ Head(r.queue).state # "complete",
                            ![g].at = IF ~Superseded(g) /\ Head(r.queue).state = "complete"
                                        THEN "told" ELSE @]
    /\ Quietly

Step(g) ==
    \/ HasToken(g) \/ HasNoToken(g) \/ CompleteRefused(g)
    \/ RetryJudges(g) \/ RetryStamps(g) \/ RetryCompletes(g)
    \/ Judge(g) \/ Write(g) \/ SendComplete(g) \/ Receive(g)
    \/ TellRefused(g) \/ RetryStarts(g) \/ StartOwner(g)
    \/ \E ok \in BOOLEAN : RetryAnswers(g, ok) \/ \E o \in Owner : Collect(g, o, ok)

RepoNext ==
    \/ Refresh
    \/ \E owners \in (SUBSET Owner) \ {{}} : Configure(owners)
    \/ \E g \in Gens : Step(g)

RepoSpec == RepoInit /\ [][RepoNext]_repoVars

\* Every fetch has a timeout of its own and every goroutine is scheduled.
RepoFairSpec == RepoSpec /\ \A g \in Gens : WF_repoVars(Step(g))

-----------------------------------------------------------------------------
\* The variables hold what the code's own types let them hold.
RepoTypeOK ==
    /\ configured \in (SUBSET Owner) \ {{}}
    /\ repos \in Lists
    /\ errs \subseteq Owner
    /\ gen \in 0..MaxGen
    /\ \A g \in Gens : /\ runs[g].merged \in Lists
                       /\ Len(runs[g].queue) <= 2 * Cardinality(Owner) + 1
    /\ disk \in [list : Lists, at : Lists]
    /\ ownerEdits \in 0..MaxEdits

\* A list on the screen never gives way to an older one of the same owner, whatever
\* superseded runs still send: it is only ever dropped, with an owner that the
\* newest run no longer configures.
NotOlder == \A o \in Owner : repos'[o] >= repos[o] \/ o \notin runs[gen].owners

NoOlderList == [][NotOlder]_repoVars

\* However often the button is pressed, the newest press is told it is complete,
\* and the fan-out of every superseded one ends although nobody reads it any more.
Refreshed ==
    /\ \A g \in 1..gen : runs[g].at \in {"told", "dropped", "closed"}
    /\ gen > 0 => runs[gen].at = "told"

RefreshEnds == <>[]Refreshed

\* "Each owner carries its own timestamp so an owner qrouton failed to reach never
\* presents as freshly fetched": an owner the cache file dates to this workbench has
\* been fetched by it.
FreshOnlyIfReached == \A o \in Owner : disk.at[o] > 0 => disk.list[o] > 0
=============================================================================
