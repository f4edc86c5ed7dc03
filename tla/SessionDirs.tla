---------------------------- MODULE SessionDirs ----------------------------
(***************************************************************************)
(* A session's directory: assembled by session.Create, grown by the        *)
(* repository pickers (assembly.Confirm), taken off the disk by            *)
(* session.Remove.  Every one of them is a row of git commands and file    *)
(* writes that can fail at any of them, or end with the process.  The      *)
(* manifest is written last, so a directory is a session from then on.     *)
(*                                                                         *)
(* One slug is followed, from its assembly to its removal: a slug ends in  *)
(* random digits and is not taken twice.  The page has at most one         *)
(* assembly under way; two confirms may be.                                *)
(***************************************************************************)
EXTENDS Naturals, FiniteSets, Functions

CONSTANTS
    Repo,          \* repositories a session may hold
    Picker,        \* confirms under way
    Wanted,        \* what an assembly may be asked for: repository -> role
    Drafted,       \* what a confirm may be asked for: repositories to add, and to take up
    MaxCrashes,    \* bound: times the workbench dies
    MaxCommits     \* bound: commits the agent makes in pinned checkouts

Role == {"editing", "reference"}
Checkout == {"none", "detached", "branch"}
NoRepos == [r \in {} |-> "editing"]
Selection == UNION {[s -> Role] : s \in SUBSET Repo}

\* Check: an assembly without an editing repository is refused
SessionDirsAssumption ==
    /\ \A w \in Wanted : w \in Selection /\ \E r \in DOMAIN w : w[r] = "editing"
    /\ \A d \in Drafted : d.adds \in Selection /\ d.ups \subseteq Repo /\ (d.adds # NoRepos \/ d.ups # {})
    /\ {MaxCrashes, MaxCommits} \subseteq Nat

VARIABLES
    dir,           \* what the directory holds besides checkouts
    manifest,      \* the repositories the manifest lists, with their roles
    checkout,      \* how each repository is checked out under src
    ahead,         \* pinned checkouts with commits of their own
    create,        \* the assembly under way
    picker,        \* the confirms under way
    remove,        \* the removal under way
    removed,       \* a removal of this session has begun
    stranded,      \* commits that no branch reaches any more
    crashes

dirVars == <<dir, manifest, checkout, ahead, create, picker, remove, removed, stranded, crashes>>

NoDir == [there |-> FALSE, marker |-> FALSE, prompt |-> FALSE, link |-> FALSE, manifest |-> FALSE]
UserDir == [NoDir EXCEPT !.there = TRUE]
NoCheckouts == [r \in Repo |-> "none"]
NotPicking == [at |-> "idle", m |-> {}, adds |-> NoRepos, ups |-> {}, todo |-> {}, made |-> NoRepos]
NotCreating == [at |-> "idle", want |-> NoRepos, made |-> NoRepos]

DirTypeOK ==
    /\ DOMAIN dir = DOMAIN NoDir /\ manifest \in Selection
    /\ checkout \in [Repo -> Checkout] /\ ahead \subseteq Repo /\ stranded \subseteq Repo
    /\ create.want \in Selection /\ create.made \in Selection
    /\ \A p \in Picker : picker[p].adds \in Selection /\ picker[p].made \in Selection
    /\ remove \in {"idle", "worktrees", "dir"} /\ removed \in BOOLEAN /\ crashes \in 0..MaxCrashes

Init ==
    /\ dir \in {NoDir, UserDir} /\ manifest = NoRepos /\ checkout = NoCheckouts /\ ahead = {}
    /\ create = NotCreating /\ picker = [p \in Picker |-> NotPicking]
    /\ remove = "idle" /\ removed = FALSE /\ stranded = {} /\ crashes = 0

-----------------------------------------------------------------------------
(* git, and the rules the handlers share. *)

Listed == DOMAIN manifest

\* Mutant: the marker alone.
AbandonedByMarker == dir.marker

\* Abandoned: the marker of an assembly, and no manifest
Abandoned == dir.marker /\ ~dir.manifest

\* addWorktree and addDetachedWorktree: git refuses a path that is there
Free(r) == checkout[r] = "none"
AddedAs(role) == IF role = "editing" THEN "branch" ELSE "detached"

\* CheckAdditions
Sound(adds, ups) ==
    \/ \E r \in Listed : manifest[r] = "editing"
    \/ ups # {} \/ \E r \in DOMAIN adds : adds[r] = "editing"

\* upgradable: a reference that is missing, already moved, or where it was pinned
Upgradable(r) == manifest[r] = "reference" /\ ~(checkout[r] = "detached" /\ r \in ahead)

\* MergeRepos: entries that are there already stay as they are
Merged(old, new) == [r \in DOMAIN old \cup DOMAIN new |-> IF r \in DOMAIN old THEN old[r] ELSE new[r]]

\* os.RemoveAll of the session's directory
Clear == dir' = NoDir /\ manifest' = NoRepos /\ checkout' = NoCheckouts /\ ahead' = {}

-----------------------------------------------------------------------------
(* session.Create. *)

\* os.Mkdir: a directory that is there is reclaimed only if it was abandoned
Mkdir(want) ==
    /\ create.at = "idle" /\ ~removed
    /\ ~dir.there \/ Abandoned
    /\ dir' = [NoDir EXCEPT !.there = TRUE]
    /\ manifest' = NoRepos /\ checkout' = NoCheckouts /\ ahead' = {} /\ UNCHANGED removed
    /\ create' = [at |-> "mark", want |-> want, made |-> NoRepos]
    /\ UNCHANGED <<picker, remove, stranded, crashes>>

Mark ==
    /\ create.at = "mark"
    /\ dir' = [dir EXCEPT !.marker = TRUE] /\ create' = [create EXCEPT !.at = "stage"]
    /\ UNCHANGED <<manifest, checkout, ahead, picker, remove, removed, stranded, crashes>>

\* the notice for the agent and the opening prompt
Stage ==
    /\ create.at = "stage"
    /\ dir' = [dir EXCEPT !.prompt = TRUE] /\ create' = [create EXCEPT !.at = "repos"]
    /\ UNCHANGED <<manifest, checkout, ahead, picker, remove, removed, stranded, crashes>>

\* materialise: the mirror is fetched and the worktree cut
CreateRepo(r) ==
    /\ create.at = "repos" /\ r \in DOMAIN create.want \ DOMAIN create.made /\ Free(r)
    /\ checkout' = [checkout EXCEPT ![r] = AddedAs(create.want[r])]
    /\ create' = [create EXCEPT !.made = Merged(@, Restrict(create.want, {r}))]
    /\ UNCHANGED <<dir, manifest, ahead, picker, remove, removed, stranded, crashes>>

Scaffold ==
    /\ create.at = "repos" /\ create.made = create.want
    /\ dir' = [dir EXCEPT !.link = TRUE] /\ create' = [create EXCEPT !.at = "manifest"]
    /\ UNCHANGED <<manifest, checkout, ahead, picker, remove, removed, stranded, crashes>>

LandManifest ==
    /\ create.at = "manifest"
    /\ dir' = [dir EXCEPT !.manifest = TRUE] /\ manifest' = create.made
    /\ create' = [create EXCEPT !.at = "unmark"]
    /\ UNCHANGED <<checkout, ahead, picker, remove, removed, stranded, crashes>>

Unmark ==
    /\ create.at = "unmark"
    /\ dir' = [dir EXCEPT !.marker = FALSE] /\ create' = NotCreating
    /\ UNCHANGED <<manifest, checkout, ahead, picker, remove, removed, stranded, crashes>>

\* any step short of the manifest may fail; what was made is taken away again
CreateFails ==
    /\ create.at \in {"mark", "stage", "repos", "manifest"}
    /\ Clear /\ create' = NotCreating
    /\ UNCHANGED <<picker, remove, removed, stranded, crashes>>

-----------------------------------------------------------------------------
(* Picker.Confirm and assembly.Confirm. *)

Pick(p, to) == picker' = [picker EXCEPT ![p] = to]

\* the draft is checked against the manifest as it is loaded now
Begin(p, adds, ups) ==
    /\ picker[p].at = "idle" /\ dir.manifest
    /\ ups \subseteq {r \in Listed : manifest[r] = "reference"}
    /\ Sound(adds, ups)
    /\ Pick(p, [NotPicking EXCEPT !.at = IF ups = {} THEN "compose" ELSE "check",
                                  !.m = Listed, !.adds = adds, !.ups = ups])
    /\ UNCHANGED <<dir, manifest, checkout, ahead, create, remove, removed, stranded, crashes>>

\* UpgradeRepos: every reference is judged before any checkout is moved
CheckUpgrades(p) ==
    /\ picker[p].at = "check"
    /\ IF dir.manifest /\ picker[p].ups \subseteq Listed /\ \A r \in picker[p].ups : Upgradable(r)
       THEN Pick(p, [picker[p] EXCEPT !.at = "move",
                                      !.todo = {r \in picker[p].ups : checkout[r] # "branch"}])
       ELSE Pick(p, NotPicking)
    /\ UNCHANGED <<dir, manifest, checkout, ahead, create, remove, removed, stranded, crashes>>

\* upgradeRepo: after a fetch, the checkout is switched in place, or added if it is gone
Upgrade(p, r) ==
    /\ picker[p].at = "move" /\ r \in picker[p].todo
    /\ checkout' = [checkout EXCEPT ![r] = "branch"]
    /\ ahead' = ahead \ {r}
    /\ stranded' = stranded \cup (IF checkout[r] = "detached" THEN {r} \cap ahead ELSE {})
    /\ Pick(p, [picker[p] EXCEPT !.todo = @ \ {r}])
    /\ UNCHANGED <<dir, manifest, create, remove, removed, crashes>>

\* Mutant: the manifest says editing before the checkouts have moved.
ApplyUpgradesEarly(p) ==
    /\ picker[p].at = "move" /\ dir.manifest /\ picker[p].ups \subseteq Listed
    /\ manifest' = [r \in Listed |-> IF r \in picker[p].ups THEN "editing" ELSE manifest[r]]
    /\ Pick(p, [picker[p] EXCEPT !.at = "compose"])
    /\ UNCHANGED <<dir, checkout, ahead, create, remove, removed, stranded, crashes>>

\* ApplyUpgrades, under the manifest's lock, once every checkout has moved
ApplyUpgrades(p) ==
    /\ picker[p].at = "move" /\ picker[p].todo = {}
    /\ IF dir.manifest /\ picker[p].ups \subseteq Listed
       THEN /\ manifest' = [r \in Listed |-> IF r \in picker[p].ups THEN "editing" ELSE manifest[r]]
            /\ Pick(p, [picker[p] EXCEPT !.at = "compose"])
       ELSE UNCHANGED manifest /\ Pick(p, NotPicking)
    /\ UNCHANGED <<dir, checkout, ahead, create, remove, removed, stranded, crashes>>

ToAdd(p) == DOMAIN picker[p].adds \ (picker[p].m \cup DOMAIN picker[p].made)

\* ComposeRepos: outside the lock, one repository after the other
AddRepo(p, r) ==
    /\ picker[p].at = "compose" /\ r \in ToAdd(p) /\ Free(r)
    /\ dir' = [dir EXCEPT !.there = TRUE]
    /\ checkout' = [checkout EXCEPT ![r] = AddedAs(picker[p].adds[r])]
    /\ Pick(p, [picker[p] EXCEPT !.made = Merged(@, Restrict(picker[p].adds, {r}))])
    /\ UNCHANGED <<manifest, ahead, create, remove, removed, stranded, crashes>>

\* Mutant: a failure records nothing.
AddFailsForgetting(p) ==
    /\ picker[p].at = "compose" /\ ToAdd(p) # {}
    /\ Pick(p, NotPicking)
    /\ UNCHANGED <<dir, manifest, checkout, ahead, create, remove, removed, stranded, crashes>>

\* a clone, a fetch or a worktree fails: what was made so far is recorded all the same
AddFails(p) ==
    /\ picker[p].at = "compose" /\ ToAdd(p) # {}
    /\ Pick(p, IF picker[p].made = NoRepos THEN NotPicking ELSE [picker[p] EXCEPT !.at = "record"])
    /\ UNCHANGED <<dir, manifest, checkout, ahead, create, remove, removed, stranded, crashes>>

\* Mutant: the manifest of the beginning, with the new entries, is written back.
RecordedOver(p) == [r \in (picker[p].m \cap Listed) \cup DOMAIN picker[p].made |->
                      IF r \in Listed THEN manifest[r] ELSE picker[p].made[r]]

\* what UpdateManifest merges the new entries into is the manifest of this moment
Recorded(p) == Merged(manifest, picker[p].made)

\* the update: its lock's directory is made even where the session is gone
Record(p) ==
    /\ picker[p].at = "record" \/ (picker[p].at = "compose" /\ ToAdd(p) = {})
    /\ dir' = [dir EXCEPT !.there = TRUE]
    /\ manifest' = IF dir.manifest THEN Recorded(p) ELSE manifest
    /\ Pick(p, NotPicking)
    /\ UNCHANGED <<checkout, ahead, create, remove, removed, stranded, crashes>>

\* a fetch fails, or git refuses a checkout with work in it
UpgradeFails(p) ==
    /\ picker[p].at = "move" /\ picker[p].todo # {}
    /\ Pick(p, NotPicking)
    /\ UNCHANGED <<dir, manifest, checkout, ahead, create, remove, removed, stranded, crashes>>

-----------------------------------------------------------------------------
(* session.Remove. *)

Remove ==
    /\ remove = "idle" /\ dir.manifest /\ create.at = "idle"
    /\ remove' = "worktrees" /\ removed' = TRUE
    /\ UNCHANGED <<dir, manifest, checkout, ahead, create, picker, stranded, crashes>>

RemoveWorktree(r) ==
    /\ remove = "worktrees" /\ r \in Listed /\ checkout[r] # "none"
    /\ checkout' = [checkout EXCEPT ![r] = "none"] /\ ahead' = ahead \ {r}
    /\ UNCHANGED <<dir, manifest, create, picker, remove, removed, stranded, crashes>>

RemoveDir ==
    /\ remove = "worktrees" /\ \A r \in Listed : checkout[r] = "none"
    /\ Clear /\ remove' = "idle"
    /\ UNCHANGED <<create, picker, removed, stranded, crashes>>

-----------------------------------------------------------------------------
(* Everyone else. *)

\* the agent commits in a checkout that is on no branch
Commit(r) ==
    /\ checkout[r] = "detached" /\ r \in Listed /\ r \notin ahead
    /\ Cardinality(ahead \cup stranded) < MaxCommits
    /\ ahead' = ahead \cup {r}
    /\ UNCHANGED <<dir, manifest, checkout, create, picker, remove, removed, stranded, crashes>>

Crash ==
    /\ crashes < MaxCrashes /\ crashes' = crashes + 1
    /\ create' = NotCreating /\ picker' = [p \in Picker |-> NotPicking] /\ remove' = "idle"
    /\ UNCHANGED <<dir, manifest, checkout, ahead, removed, stranded>>

Next ==
    \/ \E want \in Wanted : Mkdir(want)
    \/ Mark \/ Stage \/ Scaffold \/ LandManifest \/ Unmark \/ CreateFails
    \/ \E r \in Repo : CreateRepo(r) \/ RemoveWorktree(r) \/ Commit(r)
    \/ \E p \in Picker :
         \/ \E d \in Drafted : Begin(p, d.adds, d.ups)
         \/ CheckUpgrades(p) \/ UpgradeFails(p) \/ ApplyUpgrades(p)
         \/ AddFails(p) \/ Record(p)
         \/ \E r \in Repo : Upgrade(p, r) \/ AddRepo(p, r)
    \/ Remove \/ RemoveDir
    \/ Crash

Spec == Init /\ [][Next]_dirVars

-----------------------------------------------------------------------------
(* Properties. *)

\* What has a manifest is a whole session, whatever failed or died on the way:
\* its thoughts are linked, and every repository it lists is checked out, on
\* the session's branch where the manifest says so.  Until it is being removed.
ManifestIsWhole ==
    dir.manifest /\ ~removed =>
       /\ dir.link
       /\ \A r \in Listed : /\ checkout[r] # "none"
                            /\ manifest[r] = "editing" => checkout[r] = "branch"

\* Nothing but a removal takes a repository off a session's list: two confirms
\* that overlap, each with the list it loaded, keep what the other added.
ForgetsNoRepo == dir.manifest /\ dir'.manifest => Listed \subseteq DOMAIN manifest'

NoRepoForgotten == [][ForgetsNoRepo]_dirVars

\* An assembly takes away only what an assembly left behind, never a session and
\* never a directory of the user's.
ReclaimsItsOwn ==
    create'.at = "mark" /\ create.at # "mark" /\ dir.there => dir.marker /\ ~dir.manifest

OnlyOwnDirsReclaimed == [][ReclaimsItsOwn]_dirVars

\* A checkout of a session is on its list, so that a retry finds it: also when
\* the confirm that made it failed at a later repository.  (Not when it died.)
CheckoutsAreListed ==
    dir.manifest /\ crashes = 0 /\ ~removed =>
       \A r \in Repo : checkout[r] # "none" =>
          r \in Listed \/ \E p \in Picker : r \in DOMAIN picker[p].made

\* A commit the agent made in a pinned checkout is not left behind by moving the
\* checkout to a branch: what the comment of upgradable says of such commits.
NoCommitStranded == stranded = {}
=============================================================================
