---------------------------- MODULE PullRequests ----------------------------
(***************************************************************************)
(* One session's pull requests, repository by repository: the fetch of     *)
(* desktop/pulls.go, which builds a session's next cache from its last one *)
(* and asks GitHub only for what changed (github/pulls.go).                *)
(*                                                                         *)
(* What GitHub has for a branch is a version, which its answer's ETag      *)
(* names; rows are the version they were answered in, 0 for none.          *)
(***************************************************************************)
EXTENDS Naturals, FiniteSets

CONSTANTS Repo,         \* the repositories a manifest may list
          MaxMoves      \* bound: changes on GitHub and of the manifest

PullRequestsAssumption == IsFiniteSet(Repo) /\ MaxMoves \in Nat

VARIABLES github,       \* each repository's version, 0 while GitHub has none to see
          editing,      \* the manifest's editing repositories
          cache,        \* the session's sessionPulls
          fetch,        \* the fetch under way
          moves         \* changes so far, for the bound

pullVars == <<github, editing, cache, fetch, moves>>

NoRows == [rows |-> 0, etag |-> 0]
Empty  == [order |-> {}, repos |-> [r \in Repo |-> NoRows], signedOut |-> FALSE]

\* Mutant: a repository GitHub does not show keeps its ETag.
GoneWithETag(cached) == [rows |-> 0, etag |-> cached.etag]

\* What is kept of a repository GitHub no longer shows.
Gone(cached) == NoRows

PullsInit ==
    /\ github \in [Repo -> {0, 1}]
    /\ editing \in SUBSET Repo
    /\ cache = Empty
    /\ fetch = [at |-> "idle", left |-> {}, next |-> Empty]
    /\ moves = 0

\* A pull request is opened, closed or renamed; the repository is hidden, or shown
\* again in the version it has.
Changes(r, v) ==
    /\ moves < MaxMoves
    /\ v # github[r]
    /\ github' = [github EXCEPT ![r] = v]
    /\ moves' = moves + 1
    /\ UNCHANGED <<editing, cache, fetch>>

ManifestChanges(repos) ==
    /\ moves < MaxMoves
    /\ editing' = repos
    /\ moves' = moves + 1
    /\ UNCHANGED <<github, cache, fetch>>

\* The manifest as it is read; repositories it does not list any more are left behind.
Starts ==
    /\ fetch.at = "idle"
    /\ fetch' = [at |-> "asking", left |-> editing,
                 next |-> [order |-> editing, signedOut |-> FALSE,
                           repos |-> [r \in Repo |-> IF r \in editing THEN cache.repos[r] ELSE NoRows]]]
    /\ UNCHANGED <<github, editing, cache, moves>>

\* The fetch's answer replaces the cache as a whole.
Ends(next) ==
    /\ cache' = next
    /\ fetch' = [at |-> "idle", left |-> {}, next |-> Empty]
    /\ UNCHANGED <<github, editing, moves>>

AllAsked == fetch.at = "asking" /\ fetch.left = {} /\ Ends(fetch.next)

\* No token, or one GitHub rejects part of the way through.
SignedOut ==
    /\ fetch.at = "asking" /\ fetch.left # {}
    /\ Ends([fetch.next EXCEPT !.signedOut = TRUE])

\* The workbench is closing: the answer is the cache the fetch was given.
Cancelled == fetch.at = "asking" /\ Ends(cache)

\* The answer to a request conditional on the ETag the rows came with.
ListPullRequests(r, cached) ==
    CASE github[r] = 0           -> Gone(cached)
      [] github[r] = cached.etag -> cached
      [] OTHER                   -> [rows |-> github[r], etag |-> github[r]]

Ask(r) ==
    LET cached == fetch.next.repos[r]
    IN /\ fetch.at = "asking" /\ r \in fetch.left
       /\ \E kept \in {ListPullRequests(r, cached), cached} :  \* any other failure keeps what there is
            fetch' = [fetch EXCEPT !.left = @ \ {r}, !.next.repos[r] = kept]
       /\ UNCHANGED <<github, editing, cache, moves>>

PullsNext ==
    \/ \E r \in Repo, v \in 0..2 : Changes(r, v)
    \/ \E repos \in SUBSET Repo : ManifestChanges(repos)
    \/ Starts \/ AllAsked \/ SignedOut \/ Cancelled
    \/ \E r \in Repo : Ask(r)

PullsSpec == PullsInit /\ [][PullsNext]_pullVars

-----------------------------------------------------------------------------
\* Rows and the ETag they are asked for again with belong together, whatever failed,
\* was hidden or was signed out in between: "not modified" can then be trusted to mean
\* that the rows on the screen are GitHub's; and only listed repositories have any.
NotModifiedIsTrue ==
    \A r \in Repo :
        /\ cache.repos[r].rows = cache.repos[r].etag
        /\ r \notin cache.order => cache.repos[r] = NoRows
=============================================================================
