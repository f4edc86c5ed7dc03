------------------------------- MODULE Paging -------------------------------
(***************************************************************************)
(* Lists that GitHub answers a page at a time: fetchOwnerRepos and         *)
(* ListBranches of internal/github/github.go.  The list is read while it   *)
(* may change, so a page is a slice of what is there when it is asked for. *)
(* A name stands for a repository or a branch; GitHub lists them in order. *)
(***************************************************************************)
EXTENDS Integers, Sequences, FiniteSets

CONSTANTS
    Name,           \* a set of integers, in the order GitHub lists them
    PageSize,
    MaxChanges      \* bound on the names made and removed meanwhile

PagingAssumption ==
    Name \subseteq Int /\ IsFiniteSet(Name) /\ PageSize \in Nat \ {0} /\ MaxChanges \in Nat

VARIABLES
    there,      \* what each endpoint lists
    foreign,    \* the names on the collaborator's list that another owner has
    ask,        \* the fetch: whose list, the endpoint and page to read, how it stands
    names,      \* what it has gathered: how often each name
    fromStart,  \* what was there all the while
    removed,    \* how many names went away meanwhile
    changes

pagingVars == <<there, foreign, ask, names, fromStart, removed, changes>>

Endpoint == {"their own", "collaborator"}
Whose    == {"organization", "signed in", "another user", "branches"}

\* Another user's repositories are those GitHub lists as theirs and those the
\* signed-in account collaborates on, of which other owners' are left out.
Endpoints(whose) ==
    IF whose = "another user" THEN <<"their own", "collaborator">> ELSE <<"their own">>

Init ==
    /\ there \in [Endpoint -> SUBSET Name]
    /\ foreign \in SUBSET there["collaborator"]
    /\ ask = [at |-> "idle", whose |-> "branches", endpoint |-> 1, page |-> 1]
    /\ names = [n \in Name |-> 0]
    /\ fromStart = [e \in Endpoint |-> {}]
    /\ removed = 0
    /\ changes = 0

\* Where a name stands in the order of the list, from 1.
Place(e, name) == Cardinality({n \in there[e] : n <= name})

Page(e, k) ==
    {n \in there[e] : (k - 1) * PageSize < Place(e, n) /\ Place(e, n) <= k * PageSize}

Ours(e, name) == e = "collaborator" => name \notin foreign

\* Mutant: repositories on both lists are shown twice.
KeptAll(e, name) == Ours(e, name)
\* Repositories of other owners are left out, and those seen already.
Kept(e, name) ==
    /\ Ours(e, name)
    /\ ask.whose # "branches" => names[name] = 0

\* Mutant: the page is judged by what was kept of it.
ShortOfKept(batch, kept) == Cardinality(kept) < PageSize
\* A short page is the last one.
Short(batch, kept) == Cardinality(batch) < PageSize

----------------------------------------------------------------------------

\* GitHub says what kind of account the owner is; one of no kind it knows, or
\* no answer, is an error.
Identify ==
    /\ ask.at = "idle"
    /\ \/ \E w \in Whose :
             /\ ask' = [ask EXCEPT !.at = "reading", !.whose = w]
             /\ fromStart' = there
       \/ /\ ask' = [ask EXCEPT !.at = "failed"]
          /\ UNCHANGED fromStart
    /\ UNCHANGED <<there, foreign, names, removed, changes>>

ReadPage ==
    /\ ask.at = "reading"
    /\ LET e     == Endpoints(ask.whose)[ask.endpoint]
           batch == Page(e, ask.page)
           kept  == {n \in batch : Kept(e, n)}
       IN  /\ names' = [n \in Name |-> names[n] + (IF n \in kept THEN 1 ELSE 0)]
           /\ ask' = IF ~Short(batch, kept) THEN [ask EXCEPT !.page = @ + 1]
                     ELSE IF ask.endpoint = Len(Endpoints(ask.whose))
                          THEN [ask EXCEPT !.at = "listed"]
                          ELSE [ask EXCEPT !.endpoint = @ + 1, !.page = 1]
    /\ UNCHANGED <<there, foreign, fromStart, removed, changes>>

\* Mutant: the pages read before the failure are what there is.
AfterFailureKeeps == [at |-> "listed", names |-> names]
\* A page that fails fails the list.
AfterFailure == [at |-> "failed", names |-> [n \in Name |-> 0]]

PageFails ==
    /\ ask.at = "reading"
    /\ ask' = [ask EXCEPT !.at = AfterFailure.at]
    /\ names' = AfterFailure.names
    /\ UNCHANGED <<there, foreign, fromStart, removed, changes>>

Changes(e) ==
    /\ ask.at = "reading"
    /\ changes < MaxChanges
    /\ changes' = changes + 1
    /\ \E n \in Name :
          IF n \in there[e]
          THEN /\ there' = [there EXCEPT ![e] = @ \ {n}]
               /\ fromStart' = [fromStart EXCEPT ![e] = @ \ {n}]
               /\ removed' = removed + 1
          ELSE /\ there' = [there EXCEPT ![e] = @ \cup {n}]
               /\ UNCHANGED <<fromStart, removed>>
    /\ UNCHANGED <<foreign, ask, names>>

Next == Identify \/ ReadPage \/ PageFails \/ \E e \in Endpoint : Changes(e)

PagingSpec == Init /\ [][Next]_pagingVars

----------------------------------------------------------------------------

\* A list that was read to its end holds the owner's names and no other's, no
\* repository twice, and, unless something was removed meanwhile, everything
\* that was there from first page to last: however the pages shifted, and
\* however much of a page was left out.
ListIsWhole ==
    ask.at = "listed" =>
        LET read == {Endpoints(ask.whose)[i] : i \in DOMAIN Endpoints(ask.whose)} IN
        /\ ask.whose # "branches" => \A n \in Name : names[n] <= 1
        /\ removed = 0 => \A e \in read : \A n \in fromStart[e] : Ours(e, n) => names[n] > 0
        /\ changes = 0 => \A n \in Name : names[n] > 0 => \E e \in read : n \in there[e] /\ Ours(e, n)
=============================================================================
