----------------------------- MODULE AgentsProofs -----------------------------
(***************************************************************************)
(* What a session holds and shows stays whole and true, for any repositories,   *)
(* launches, documents, runs, tabs, windows, pages and terminals, and any         *)
(* number of steps and crashes within the bounds:                             *)
(*   - its directory, its list of checkouts and the prompts a launch leaves in     *)
(*     it, and the numbers of its documents;                                  *)
(*   - the tree of a runner that reports only its agents' lives;               *)
(*   - its tabs, the names agents give their windows, the output of a terminal    *)
(*     and the speaker notes;                                                *)
(*   - the tree its agents' hooks draw and what is read in its documents, from     *)
(*     AgentReportsProofs.                                                   *)
(*                                                                         *)
(* Each part has an inductive invariant of its own: what it promises, with what    *)
(* those who are half-way through a change have read or done so far.  The joint     *)
(* one says that the part under check keeps its.                              *)
(***************************************************************************)
EXTENDS MCAgents, AgentReportsProofs, Sequences, FiniteSetTheorems, TLAPS

-----------------------------------------------------------------------------
(* The session's directory.  Until the manifest is there, what is checked out   *)
(* is what the assembly made, and nobody confirms; from then on, until the      *)
(* session is removed, what a confirm made or moved stays as it left it.        *)

\* The variables of SessionDirs, by their names there.
dir == v1
manifest == v2
checkout == v3
ahead == v4
create == v5
picker == v6
remove == v7
removed == v8
stranded == v9
crashes == v10
USE DEF dir, manifest, checkout, ahead, create, picker, remove, removed, stranded, crashes

Lists == SessionDirs!Selection
DirRecords == [there : BOOLEAN, marker : BOOLEAN, prompt : BOOLEAN, link : BOOLEAN, manifest : BOOLEAN]
Creates == [at : {"idle", "mark", "stage", "repos", "manifest", "unmark"}, want : Lists, made : Lists]
Pickers == [at : {"idle", "check", "move", "compose", "record"}, m : SUBSET Repo,
            adds : Lists, ups : SUBSET Repo, todo : SUBSET Repo, made : Lists]
Early == {"mark", "stage", "repos", "manifest"}

DirsTyped ==
    /\ dir \in DirRecords /\ manifest \in Lists
    /\ checkout \in [Repo -> SessionDirs!Checkout]
    /\ ahead \subseteq Repo /\ stranded \subseteq Repo
    /\ create \in Creates /\ picker \in [Picker -> Pickers]
    /\ remove \in {"idle", "worktrees", "dir"} /\ removed \in BOOLEAN
    /\ crashes \in 0..MaxCrashes

\* What was asked for and made so far, and nothing else, is checked out.
AssembledSoFar ==
    /\ create.at # "idle" => ~removed
    /\ create.at \in Early =>
          /\ dir.there /\ ~dir.manifest
          /\ \A r \in Repo :
                checkout[r] = IF r \in DOMAIN create.made
                              THEN SessionDirs!AddedAs(create.made[r]) ELSE "none"
    /\ create.at = "manifest" => dir.link

\* Nobody confirms before there is a manifest.
ConfirmsLater ==
    /\ ~dir.there => ~dir.manifest
    /\ remove # "idle" => removed
    /\ ~removed /\ ~dir.manifest => \A p \in Picker : picker[p].at = "idle"

\* A confirm moves before it adds, and what it did stands.
ConfirmsStand ==
    \A p \in Picker :
       /\ picker[p].at = "idle" => picker[p].made = SessionDirs!NoRepos
       /\ picker[p].at \in {"check", "move"} => picker[p].made = SessionDirs!NoRepos
       /\ picker[p].at = "move" /\ ~removed =>
             /\ picker[p].todo \subseteq DOMAIN manifest
             /\ \A r \in picker[p].ups \ picker[p].todo : checkout[r] = "branch"
       /\ ~removed => \A r \in DOMAIN picker[p].made :
                         /\ checkout[r] # "none"
                         /\ picker[p].made[r] = "editing" => checkout[r] = "branch"

DirsInv ==
    /\ DirsTyped /\ AssembledSoFar /\ ConfirmsLater /\ ConfirmsStand
    /\ SessionDirs!ManifestIsWhole /\ SessionDirs!CheckoutsAreListed

LEMMA ListsAre ==
    ASSUME NEW w \in Lists
    PROVE  /\ DOMAIN w \subseteq Repo
           /\ w = [r \in DOMAIN w |-> w[r]]
           /\ \A r \in DOMAIN w : w[r] \in SessionDirs!Role
  BY DEF Lists, SessionDirs!Selection

LEMMA ListsHold ==
    ASSUME NEW S \in SUBSET Repo, NEW w \in [S -> SessionDirs!Role]
    PROVE  w \in Lists
  BY DEF Lists, SessionDirs!Selection

LEMMA NoReposListed == SessionDirs!NoRepos \in Lists /\ DOMAIN SessionDirs!NoRepos = {}
<1>1. SessionDirs!NoRepos \in [{} -> SessionDirs!Role]
  BY DEF SessionDirs!NoRepos
<1>. QED
  BY <1>1, ListsHold

\* A list that has the entries of another, and of a third those the other has not.
Both(all, old, new) ==
    /\ all \in Lists
    /\ DOMAIN all = DOMAIN old \cup DOMAIN new
    /\ \A r \in DOMAIN old : all[r] = old[r]
    /\ \A r \in DOMAIN new \ DOMAIN old : all[r] = new[r]

LEMMA MergedIs ==
    ASSUME NEW old, old \in Lists, NEW new, new \in Lists
    PROVE  Both(SessionDirs!Merged(old, new), old, new)
<1> DEFINE all == SessionDirs!Merged(old, new)
<1>1. DOMAIN all = DOMAIN old \cup DOMAIN new /\ all = [r \in DOMAIN all |-> all[r]]
  BY DEF SessionDirs!Merged
<1>2. \A r \in DOMAIN old : all[r] = old[r]
  BY DEF SessionDirs!Merged
<1>3. \A r \in DOMAIN new \ DOMAIN old : all[r] = new[r]
  BY DEF SessionDirs!Merged
<1> HIDE DEF all
<1>4. DOMAIN all \subseteq Repo /\ \A r \in DOMAIN all : all[r] \in SessionDirs!Role
  BY <1>1, <1>2, <1>3, ListsAre
<1>5. all \in [DOMAIN all -> SessionDirs!Role]
  BY <1>1, <1>4
<1>6. all \in Lists
  BY <1>4, <1>5, ListsHold
<1>7. Both(all, old, new)
  BY <1>1, <1>2, <1>3, <1>6 DEF Both
<1>. QED
  BY <1>7 DEF all

\* A list with one entry of another.
OneMore(all, old, w, r) ==
    /\ all \in Lists
    /\ DOMAIN all = DOMAIN old \cup {r}
    /\ \A s \in DOMAIN old : all[s] = old[s]
    /\ all[r] = w[r]

LEMMA OneMoreIs ==
    ASSUME NEW old, old \in Lists, NEW w, w \in Lists, NEW r, r \in DOMAIN w, r \notin DOMAIN old
    PROVE  OneMore(SessionDirs!Merged(old, SessionDirs!Restrict(w, {r})), old, w, r)
<1> DEFINE one == SessionDirs!Restrict(w, {r})
<1>1. DOMAIN one = {r} /\ one[r] = w[r] /\ one = [s \in {r} |-> one[s]]
  BY DEF SessionDirs!Restrict
<1>2. r \in Repo /\ w[r] \in SessionDirs!Role
  BY ListsAre
<1> HIDE DEF one
<1>3. one \in Lists
  BY <1>1, <1>2, ListsHold
<1>4. Both(SessionDirs!Merged(old, one), old, one)
  BY <1>3, MergedIs, Zenon
<1>5. OneMore(SessionDirs!Merged(old, one), old, w, r)
  BY <1>1, <1>4 DEF Both, OneMore
<1>. QED
  BY <1>5 DEF one

LEMMA DirsBounds == MaxCrashes \in Nat
<1>1. SessionDirs!SessionDirsAssumption
  BY PartsAssumption
<1>2. {MaxCrashes, MaxCommits} \subseteq Nat
  BY <1>1, Zenon DEF SessionDirs!SessionDirsAssumption
<1>. QED
  BY <1>2

LEMMA DirsInputs ==
    /\ \A w \in Wanted : w \in Lists
    /\ \A d \in Drafted : d.adds \in Lists /\ d.ups \subseteq Repo
<1>1. SessionDirs!SessionDirsAssumption
  BY PartsAssumption
<1>3. \A w \in Wanted : w \in Lists
  BY <1>1, Zenon DEF SessionDirs!SessionDirsAssumption, Lists
<1>4. \A d \in Drafted : d.adds \in Lists /\ d.ups \subseteq Repo
  BY <1>1, Zenon DEF SessionDirs!SessionDirsAssumption, Lists
<1>. QED
  BY <1>3, <1>4

\* One field of the directory's record set, the others as they were.
LEMMA DirFields ==
    ASSUME NEW d \in DirRecords
    PROVE  /\ LET e == [d EXCEPT !.there = TRUE] IN
                /\ e \in DirRecords /\ e.there /\ (e.manifest <=> d.manifest) /\ (e.link <=> d.link)
           /\ LET e == [d EXCEPT !.marker = TRUE] IN
                /\ e \in DirRecords /\ (e.there <=> d.there) /\ (e.manifest <=> d.manifest) /\ (e.link <=> d.link)
           /\ LET e == [d EXCEPT !.marker = FALSE] IN
                /\ e \in DirRecords /\ (e.there <=> d.there) /\ (e.manifest <=> d.manifest) /\ (e.link <=> d.link)
           /\ LET e == [d EXCEPT !.prompt = TRUE] IN
                /\ e \in DirRecords /\ (e.there <=> d.there) /\ (e.manifest <=> d.manifest) /\ (e.link <=> d.link)
           /\ LET e == [d EXCEPT !.link = TRUE] IN
                /\ e \in DirRecords /\ (e.there <=> d.there) /\ (e.manifest <=> d.manifest) /\ e.link
           /\ LET e == [d EXCEPT !.manifest = TRUE] IN
                /\ e \in DirRecords /\ (e.there <=> d.there) /\ e.manifest /\ (e.link <=> d.link)
  BY DEF DirRecords

LEMMA DirsInit == SessionDirs!Init => DirsInv
<1>. SUFFICES ASSUME SessionDirs!Init PROVE DirsInv
  OBVIOUS
<1>1. MaxCrashes \in Nat
  BY DirsBounds
<1>2. /\ dir \in DirRecords /\ ~dir.manifest
  <2>1. /\ SessionDirs!NoDir \in DirRecords /\ ~SessionDirs!NoDir.manifest
    BY DEF SessionDirs!NoDir, DirRecords
  <2>2. /\ SessionDirs!UserDir \in DirRecords /\ ~SessionDirs!UserDir.manifest
    BY <2>1, DirFields DEF SessionDirs!UserDir
  <2>. QED
    BY <2>1, <2>2 DEF SessionDirs!Init
<1>3. create \in Creates /\ create.at = "idle"
  BY NoReposListed DEF SessionDirs!Init, SessionDirs!NotCreating, Creates
<1>4. SessionDirs!NotPicking \in Pickers
  BY NoReposListed DEF SessionDirs!NotPicking, Pickers
<1>5. /\ picker \in [Picker -> Pickers]
      /\ \A p \in Picker : picker[p].at = "idle" /\ picker[p].made = SessionDirs!NoRepos
  BY <1>4 DEF SessionDirs!Init, SessionDirs!NotPicking
<1>6. checkout \in [Repo -> SessionDirs!Checkout]
  BY DEF SessionDirs!Init, SessionDirs!NoCheckouts, SessionDirs!Checkout
<1>7. DirsTyped
  <2>1. manifest \in Lists /\ crashes \in 0..MaxCrashes
    BY <1>1, NoReposListed DEF SessionDirs!Init
  <2>. QED
    BY <1>2, <1>3, <1>5, <1>6, <2>1 DEF SessionDirs!Init, DirsTyped
<1>8. AssembledSoFar /\ ConfirmsLater
  BY <1>2, <1>3, <1>5 DEF SessionDirs!Init, AssembledSoFar, ConfirmsLater, Early
<1>9. ConfirmsStand
  BY <1>5, NoReposListed DEF ConfirmsStand
<1>. QED
  BY <1>2, <1>7, <1>8, <1>9 DEF DirsInv, SessionDirs!ManifestIsWhole, SessionDirs!CheckoutsAreListed

\* A step of an assembly that has no manifest yet: nobody confirms meanwhile.
LEMMA AssemblyKeeps ==
    ASSUME DirsInv, DirsTyped', AssembledSoFar',
           UNCHANGED <<picker, remove, removed, crashes>>,
           ~removed, ~dir.manifest, ~dir'.manifest
    PROVE  DirsInv'
<1>1. \A p \in Picker : picker[p].at = "idle" /\ picker[p].made = SessionDirs!NoRepos
  BY DEF DirsInv, ConfirmsLater, ConfirmsStand
<1>2. ConfirmsLater'
  BY <1>1 DEF DirsInv, ConfirmsLater
<1>3. ConfirmsStand'
  BY <1>1, NoReposListed DEF ConfirmsStand
<1>. QED
  BY <1>2, <1>3 DEF DirsInv, SessionDirs!ManifestIsWhole, SessionDirs!CheckoutsAreListed

\* What is cleared, and what is cleared and made anew, has no manifest.
LEMMA ClearedDir ==
    /\ SessionDirs!NoDir \in DirRecords /\ ~SessionDirs!NoDir.manifest /\ ~SessionDirs!NoDir.there
    /\ [SessionDirs!NoDir EXCEPT !.there = TRUE] \in DirRecords
    /\ [SessionDirs!NoDir EXCEPT !.there = TRUE].there
    /\ ~[SessionDirs!NoDir EXCEPT !.there = TRUE].manifest
    /\ SessionDirs!NoCheckouts \in [Repo -> SessionDirs!Checkout]
    /\ \A r \in Repo : SessionDirs!NoCheckouts[r] = "none"
    /\ SessionDirs!NotCreating \in Creates /\ SessionDirs!NotCreating.at = "idle"
<1>1. SessionDirs!NoDir \in DirRecords /\ ~SessionDirs!NoDir.manifest /\ ~SessionDirs!NoDir.there
  BY DEF SessionDirs!NoDir, DirRecords
<1>2. /\ [SessionDirs!NoDir EXCEPT !.there = TRUE] \in DirRecords
      /\ [SessionDirs!NoDir EXCEPT !.there = TRUE].there
    /\ ~[SessionDirs!NoDir EXCEPT !.there = TRUE].manifest
  BY <1>1, DirFields
<1>3. /\ SessionDirs!NoCheckouts \in [Repo -> SessionDirs!Checkout]
      /\ \A r \in Repo : SessionDirs!NoCheckouts[r] = "none"
  BY DEF SessionDirs!NoCheckouts, SessionDirs!Checkout
<1>4. SessionDirs!NotCreating \in Creates /\ SessionDirs!NotCreating.at = "idle"
  BY NoReposListed DEF SessionDirs!NotCreating, Creates
<1>. QED
  BY <1>1, <1>2, <1>3, <1>4

LEMMA MkdirKeeps ==
    ASSUME DirsInv, NEW want \in Wanted, SessionDirs!Mkdir(want) PROVE DirsInv'
<1>1. ~removed /\ ~dir.manifest
  BY DEF SessionDirs!Mkdir, SessionDirs!Abandoned, DirsInv, ConfirmsLater
<1>2. dir' \in DirRecords /\ dir'.there /\ ~dir'.manifest
  BY ClearedDir DEF SessionDirs!Mkdir
<1>3. /\ create' \in Creates /\ create'.at = "mark" /\ create'.made = SessionDirs!NoRepos
  BY DirsInputs, NoReposListed DEF SessionDirs!Mkdir, Creates
<1>4. /\ checkout' \in [Repo -> SessionDirs!Checkout]
      /\ \A r \in Repo : checkout'[r] = "none"
  BY ClearedDir DEF SessionDirs!Mkdir
<1>5. DirsTyped'
  BY <1>2, <1>3, <1>4, NoReposListed DEF SessionDirs!Mkdir, DirsInv, DirsTyped
<1>6. AssembledSoFar'
  BY <1>1, <1>2, <1>3, <1>4, NoReposListed DEF SessionDirs!Mkdir, AssembledSoFar
<1>. QED
  BY <1>1, <1>2, <1>5, <1>6, AssemblyKeeps DEF SessionDirs!Mkdir

\* The step of an assembly alone: its create moves on, or is over.
LEMMA CreateFields ==
    ASSUME NEW c \in Creates
    PROVE  /\ \A at \in {"idle", "mark", "stage", "repos", "manifest", "unmark"} :
                 LET d == [c EXCEPT !.at = at] IN
                 d \in Creates /\ d.at = at /\ d.made = c.made
           /\ \A w \in Lists :
                 LET d == [c EXCEPT !.made = w] IN
                 d \in Creates /\ d.at = c.at /\ d.made = w
  BY DEF Creates

LEMMA MarkKeeps ==
    ASSUME DirsInv, SessionDirs!Mark \/ SessionDirs!Stage \/ SessionDirs!Scaffold PROVE DirsInv'
<1>1. ~removed /\ dir.there /\ ~dir.manifest
  BY DEF SessionDirs!Mark, SessionDirs!Stage, SessionDirs!Scaffold, DirsInv, AssembledSoFar, Early
<1>2. dir' \in DirRecords /\ dir'.there /\ ~dir'.manifest /\ (SessionDirs!Scaffold => dir'.link)
  <2>1. dir \in DirRecords
    BY DEF DirsInv, DirsTyped
  <2>. QED
    BY <1>1, <2>1 DEF SessionDirs!Mark, SessionDirs!Stage, SessionDirs!Scaffold, DirRecords
<1>3. /\ create' \in Creates /\ create'.made = create.made
      /\ create.at \in Early /\ create'.at \in Early
      /\ create'.at = "manifest" => SessionDirs!Scaffold
  <2>1. create \in Creates /\ create.made \in Lists
    BY DEF DirsInv, DirsTyped, Creates
  <2>2. PICK at \in Early : create' = [create EXCEPT !.at = at] /\ (at = "manifest" => SessionDirs!Scaffold)
    BY DEF SessionDirs!Mark, SessionDirs!Stage, SessionDirs!Scaffold, Early
  <2>3. create' \in Creates /\ create'.at = at /\ create'.made = create.made
    BY <2>1, <2>2 DEF Creates, Early
  <2>. QED
    BY <2>2, <2>3 DEF SessionDirs!Mark, SessionDirs!Stage, SessionDirs!Scaffold, Early
<1>4. UNCHANGED <<manifest, checkout, ahead, picker, remove, removed, stranded, crashes>>
  BY DEF SessionDirs!Mark, SessionDirs!Stage, SessionDirs!Scaffold
<1>5. DirsTyped'
  BY <1>2, <1>3, <1>4 DEF DirsInv, DirsTyped
<1>6. AssembledSoFar'
  BY <1>1, <1>2, <1>3, <1>4 DEF DirsInv, AssembledSoFar
<1>. QED
  BY <1>1, <1>2, <1>4, <1>5, <1>6, AssemblyKeeps

LEMMA CreateRepoKeeps ==
    ASSUME DirsInv, NEW r \in Repo, SessionDirs!CreateRepo(r) PROVE DirsInv'
<1>0. /\ create \in Creates /\ create.made \in Lists /\ create.want \in Lists
      /\ checkout \in [Repo -> SessionDirs!Checkout]
  BY DEF DirsInv, DirsTyped, Creates
<1>1. ~removed /\ dir.there /\ ~dir.manifest /\ create.at = "repos" /\ r \in DOMAIN create.want \ DOMAIN create.made
  BY DEF SessionDirs!CreateRepo, DirsInv, AssembledSoFar, Early
<1> DEFINE all == SessionDirs!Merged(create.made, SessionDirs!Restrict(create.want, {r}))
<1>2. /\ all \in Lists /\ DOMAIN all = DOMAIN create.made \cup {r}
      /\ \A s \in DOMAIN create.made : all[s] = create.made[s]
      /\ all[r] = create.want[r]
  <2>1. create.made \in Lists /\ create.want \in Lists /\ r \in DOMAIN create.want /\ r \notin DOMAIN create.made
    BY <1>0, <1>1
  <2>2. OneMore(all, create.made, create.want, r)
    BY <2>1, OneMoreIs, Zenon
  <2> HIDE DEF all
  <2>. QED
    BY <2>2 DEF OneMore
<1>3. create' = [create EXCEPT !.made = all]
  BY Zenon DEF SessionDirs!CreateRepo
<1> HIDE DEF all
<1>4. create' \in Creates /\ create'.at = "repos" /\ create'.made = all
  <2>1. create'.at = create.at /\ create' \in Creates /\ create'.made = all
    BY <1>0, <1>2, <1>3 DEF Creates
  <2>. QED
    BY <1>1, <2>1
<1>5. SessionDirs!AddedAs(create.want[r]) \in SessionDirs!Checkout
  BY DEF SessionDirs!AddedAs, SessionDirs!Checkout
<1>6. /\ checkout' \in [Repo -> SessionDirs!Checkout]
      /\ checkout'[r] = SessionDirs!AddedAs(create.want[r])
      /\ \A s \in Repo \ {r} : checkout'[s] = checkout[s]
  BY <1>0, <1>5 DEF SessionDirs!CreateRepo
<1>7. UNCHANGED <<dir, manifest, ahead, picker, remove, removed, stranded, crashes>>
  BY DEF SessionDirs!CreateRepo
<1>8. DirsTyped'
  BY <1>4, <1>6, <1>7 DEF DirsInv, DirsTyped
<1>9. AssembledSoFar'
  <2>1. \A s \in Repo : checkout[s] = IF s \in DOMAIN create.made
                                      THEN SessionDirs!AddedAs(create.made[s]) ELSE "none"
    BY <1>1 DEF DirsInv, AssembledSoFar, Early
  <2>. QED
    BY <2>1, <1>1, <1>2, <1>4, <1>6, <1>7 DEF AssembledSoFar
<1>. QED
  BY <1>1, <1>7, <1>8, <1>9, AssemblyKeeps

LEMMA CreateFailsKeeps ==
    ASSUME DirsInv, SessionDirs!CreateFails PROVE DirsInv'
<1>1. ~removed /\ ~dir.manifest
  BY DEF SessionDirs!CreateFails, DirsInv, AssembledSoFar, Early
<1>2. /\ dir' \in DirRecords /\ ~dir'.manifest /\ create' \in Creates /\ create'.at = "idle"
      /\ checkout' \in [Repo -> SessionDirs!Checkout]
  BY ClearedDir DEF SessionDirs!CreateFails, SessionDirs!Clear
<1>3. DirsTyped'
  BY <1>2, NoReposListed DEF SessionDirs!CreateFails, SessionDirs!Clear, DirsInv, DirsTyped
<1>4. AssembledSoFar'
  BY <1>2 DEF AssembledSoFar, Early
<1>. QED
  BY <1>1, <1>2, <1>3, <1>4, AssemblyKeeps DEF SessionDirs!CreateFails

LEMMA LandManifestKeeps ==
    ASSUME DirsInv, SessionDirs!LandManifest PROVE DirsInv'
<1>1. /\ ~removed /\ dir.there /\ ~dir.manifest /\ dir.link
      /\ \A r \in Repo : checkout[r] = IF r \in DOMAIN create.made
                                       THEN SessionDirs!AddedAs(create.made[r]) ELSE "none"
  BY DEF SessionDirs!LandManifest, DirsInv, AssembledSoFar, Early
<1>2. dir' \in DirRecords /\ dir'.manifest /\ dir'.link /\ dir'.there
  <2>1. dir \in DirRecords
    BY DEF DirsInv, DirsTyped
  <2>. QED
    BY <1>1, <2>1, DirFields DEF SessionDirs!LandManifest
<1>3. create' \in Creates /\ create'.at = "unmark"
  BY CreateFields DEF SessionDirs!LandManifest, DirsInv, DirsTyped
<1>4. manifest' = create.made /\ create.made \in Lists
  BY DEF SessionDirs!LandManifest, DirsInv, DirsTyped, Creates
<1>5. UNCHANGED <<checkout, ahead, picker, remove, removed, stranded, crashes>>
  BY DEF SessionDirs!LandManifest
<1>6. \A p \in Picker : picker[p].at = "idle" /\ picker[p].made = SessionDirs!NoRepos
  BY <1>1 DEF DirsInv, ConfirmsLater, ConfirmsStand
<1>7. DirsTyped'
  BY <1>2, <1>3, <1>4, <1>5 DEF DirsInv, DirsTyped
<1>8. AssembledSoFar'
  BY <1>1, <1>3, <1>5 DEF AssembledSoFar, Early
<1>9. ConfirmsLater'
  BY <1>1, <1>2, <1>5, <1>8 DEF DirsInv, ConfirmsLater
<1>10. ConfirmsStand'
  BY <1>5, <1>6, NoReposListed DEF ConfirmsStand
<1>11. SessionDirs!ManifestIsWhole' /\ SessionDirs!CheckoutsAreListed'
  <2>1. \A r \in DOMAIN create.made : r \in Repo
    BY <1>4, ListsAre
  <2>. QED
    BY <2>1, <1>1, <1>2, <1>4, <1>5 DEF SessionDirs!ManifestIsWhole, SessionDirs!CheckoutsAreListed,
      SessionDirs!Listed, SessionDirs!AddedAs
<1>. QED
  BY <1>7, <1>8, <1>9, <1>10, <1>11 DEF DirsInv

LEMMA UnmarkKeeps ==
    ASSUME DirsInv, SessionDirs!Unmark PROVE DirsInv'
<1>1. /\ dir' \in DirRecords /\ (dir'.manifest <=> dir.manifest) /\ (dir'.link <=> dir.link)
      /\ (dir'.there <=> dir.there)
  <2>1. dir \in DirRecords
    BY DEF DirsInv, DirsTyped
  <2>. QED
    BY <2>1 DEF SessionDirs!Unmark, DirRecords
<1>2. create' \in Creates /\ create'.at = "idle"
  BY ClearedDir DEF SessionDirs!Unmark
<1>3. UNCHANGED <<manifest, checkout, ahead, picker, remove, removed, stranded, crashes>>
  BY DEF SessionDirs!Unmark
<1>4. DirsTyped'
  BY <1>1, <1>2, <1>3 DEF DirsInv, DirsTyped
<1>5. AssembledSoFar' /\ ConfirmsLater' /\ ConfirmsStand'
  BY <1>1, <1>2, <1>3 DEF DirsInv, AssembledSoFar, ConfirmsLater, ConfirmsStand, Early
<1>6. SessionDirs!ManifestIsWhole' /\ SessionDirs!CheckoutsAreListed'
  BY <1>1, <1>3 DEF DirsInv, SessionDirs!ManifestIsWhole, SessionDirs!CheckoutsAreListed, SessionDirs!Listed
<1>. QED
  BY <1>4, <1>5, <1>6 DEF DirsInv

\* What one confirm does: it takes nothing off the list or off the disk, and what it
\* leaves behind is on the list or what it says it made.
LEMMA PickerConfirmKeeps ==
    ASSUME DirsInv, NEW p \in Picker, NEW to \in Pickers, picker' = [picker EXCEPT ![p] = to],
           picker[p].at # "idle" \/ dir.manifest,
           dir' = dir \/ dir' = [dir EXCEPT !.there = TRUE],
           manifest' \in Lists, checkout' \in [Repo -> SessionDirs!Checkout],
           ahead' \subseteq Repo, stranded' \subseteq Repo,
           UNCHANGED <<create, remove, removed, crashes>>,
           DOMAIN manifest \subseteq DOMAIN manifest',
           \A r \in Repo : /\ checkout[r] # "none" => checkout'[r] # "none"
                           /\ checkout[r] = "branch" => checkout'[r] = "branch",
           to.at \in {"idle", "check", "move"} => to.made = SessionDirs!NoRepos,
           to.at = "move" /\ ~removed =>
              /\ to.todo \subseteq DOMAIN manifest
              /\ \A r \in to.ups \ to.todo : checkout'[r] = "branch",
           ~removed => \A r \in DOMAIN to.made :
                          /\ checkout'[r] # "none"
                          /\ to.made[r] = "editing" => checkout'[r] = "branch",
           \A r \in Repo : checkout'[r] # "none" /\ checkout[r] = "none" /\ dir.manifest /\ ~removed =>
                              r \in DOMAIN manifest' \cup DOMAIN to.made,
           dir.manifest /\ ~removed =>
              DOMAIN picker[p].made \subseteq DOMAIN manifest' \cup DOMAIN to.made,
           dir.manifest /\ ~removed =>
              \A r \in DOMAIN manifest' : manifest'[r] = "editing" => checkout'[r] = "branch",
           dir.manifest /\ ~removed => \A r \in DOMAIN manifest' : checkout'[r] # "none"
    PROVE  DirsInv'
<1>1. /\ dir' \in DirRecords /\ (dir'.manifest <=> dir.manifest) /\ (dir'.link <=> dir.link)
      /\ (dir.there => dir'.there)
  <2>1. dir \in DirRecords
    BY DEF DirsInv, DirsTyped
  <2>. QED
    BY <2>1 DEF DirRecords
<1>2. picker' \in [Picker -> Pickers] /\ picker'[p] = to /\ \A q \in Picker \ {p} : picker'[q] = picker[q]
  BY DEF DirsInv, DirsTyped
<1>3. removed \/ dir.manifest
  BY DEF DirsInv, ConfirmsLater
<1>4. DirsTyped'
  BY <1>1, <1>2 DEF DirsInv, DirsTyped
<1>5. AssembledSoFar'
  BY <1>1, <1>3 DEF DirsInv, AssembledSoFar, Early
<1>6. ConfirmsLater'
  BY <1>1, <1>3 DEF DirsInv, ConfirmsLater
<1>7. ConfirmsStand'
  <2>1. \A q \in Picker : picker[q].made \in Lists /\ picker[q].ups \subseteq Repo
    BY DEF DirsInv, DirsTyped, Pickers
  <2>2. \A q \in Picker : \A r \in DOMAIN picker[q].made : r \in Repo
    BY <2>1, ListsAre
  <2>3. to.made \in Lists
    BY DEF Pickers
  <2>4. ASSUME NEW q \in Picker, q # p
        PROVE  /\ picker'[q].at = "idle" => picker'[q].made = SessionDirs!NoRepos
               /\ picker'[q].at \in {"check", "move"} => picker'[q].made = SessionDirs!NoRepos
               /\ picker'[q].at = "move" /\ ~removed' =>
                     /\ picker'[q].todo \subseteq DOMAIN manifest'
                     /\ \A r \in picker'[q].ups \ picker'[q].todo : checkout'[r] = "branch"
               /\ ~removed' => \A r \in DOMAIN picker'[q].made :
                                 /\ checkout'[r] # "none"
                                 /\ picker'[q].made[r] = "editing" => checkout'[r] = "branch"
    <3>1. picker'[q] = picker[q]
      BY <1>2, <2>4
    <3>. QED
      BY <3>1, <2>1, <2>2, <2>4 DEF DirsInv, ConfirmsStand
  <2>. QED
    BY <1>2, <2>4 DEF ConfirmsStand
<1>8. SessionDirs!ManifestIsWhole'
  BY <1>1 DEF DirsInv, SessionDirs!ManifestIsWhole, SessionDirs!Listed
<1>9. SessionDirs!CheckoutsAreListed'
  <2>1. SUFFICES ASSUME dir.manifest, crashes = 0, ~removed, NEW r \in Repo, checkout'[r] # "none"
                 PROVE  r \in DOMAIN manifest' \/ \E q \in Picker : r \in DOMAIN picker'[q].made
    BY <1>1 DEF SessionDirs!CheckoutsAreListed, SessionDirs!Listed
  <2>2. CASE checkout[r] = "none"
    BY <2>1, <2>2, <1>2
  <2>3. CASE checkout[r] # "none"
    <3>1. r \in DOMAIN manifest \/ \E q \in Picker : r \in DOMAIN picker[q].made
      BY <2>1, <2>3 DEF DirsInv, SessionDirs!CheckoutsAreListed, SessionDirs!Listed
    <3>. QED
      BY <3>1, <2>1, <1>2
  <2>. QED
    BY <2>2, <2>3
<1>. QED
  BY <1>4, <1>5, <1>6, <1>7, <1>8, <1>9 DEF DirsInv

\* Nothing on the list or on the disk changes.
LEMMA PicksKeep ==
    ASSUME DirsInv, NEW p \in Picker, NEW to \in Pickers, picker' = [picker EXCEPT ![p] = to],
           picker[p].at # "idle" \/ dir.manifest,
           UNCHANGED <<dir, manifest, checkout, ahead, create, remove, removed, stranded, crashes>>,
           to.at \in {"idle", "check", "move"} => to.made = SessionDirs!NoRepos,
           to.at = "move" /\ ~removed =>
              /\ to.todo \subseteq DOMAIN manifest
              /\ \A r \in to.ups \ to.todo : checkout[r] = "branch",
           to.made = picker[p].made \/ (to.made = SessionDirs!NoRepos /\ picker[p].made = SessionDirs!NoRepos)
    PROVE  DirsInv'
<1>1. /\ manifest' \in Lists /\ checkout' \in [Repo -> SessionDirs!Checkout]
      /\ ahead' \subseteq Repo /\ stranded' \subseteq Repo
  BY DEF DirsInv, DirsTyped
<1>2. ~removed => \A r \in DOMAIN to.made :
                     /\ checkout'[r] # "none"
                     /\ to.made[r] = "editing" => checkout'[r] = "branch"
  BY DEF DirsInv, ConfirmsStand
<1>3. dir.manifest /\ ~removed =>
         \A r \in DOMAIN manifest' : /\ checkout'[r] # "none"
                                     /\ manifest'[r] = "editing" => checkout'[r] = "branch"
  BY DEF DirsInv, SessionDirs!ManifestIsWhole, SessionDirs!Listed
<1>4. DOMAIN picker[p].made \subseteq DOMAIN to.made
  OBVIOUS
<1>. QED
  BY <1>1, <1>2, <1>3, <1>4, PickerConfirmKeeps

LEMMA NotPickingIs ==
    /\ SessionDirs!NotPicking \in Pickers /\ SessionDirs!NotPicking.at = "idle"
    /\ SessionDirs!NotPicking.made = SessionDirs!NoRepos
  BY NoReposListed DEF SessionDirs!NotPicking, Pickers

LEMMA BeginKeeps ==
    ASSUME DirsInv, NEW p \in Picker, NEW d \in Drafted, SessionDirs!Begin(p, d.adds, d.ups)
    PROVE  DirsInv'
<1>1. d.adds \in Lists /\ d.ups \subseteq Repo
  BY DirsInputs
<1>2. manifest \in Lists /\ DOMAIN manifest \subseteq Repo
  BY ListsAre DEF DirsInv, DirsTyped
<1> DEFINE to == [SessionDirs!NotPicking EXCEPT !.at = IF d.ups = {} THEN "compose" ELSE "check",
                     !.m = SessionDirs!Listed, !.adds = d.adds, !.ups = d.ups]
<1>3. to \in Pickers /\ to.at \in {"compose", "check"} /\ to.made = SessionDirs!NoRepos
  BY <1>1, <1>2, NotPickingIs DEF Pickers, SessionDirs!Listed
<1>4. /\ picker' = [picker EXCEPT ![p] = to] /\ dir.manifest /\ picker[p].at = "idle"
      /\ UNCHANGED <<dir, manifest, checkout, ahead, create, remove, removed, stranded, crashes>>
  BY Zenon DEF SessionDirs!Begin, SessionDirs!Pick
<1>5. picker[p].made = SessionDirs!NoRepos
  BY <1>4 DEF DirsInv, ConfirmsStand
<1> HIDE DEF to
<1>. QED
  BY <1>3, <1>4, <1>5, PicksKeep

\* A confirm's own fields.
LEMMA PickerFields ==
    ASSUME DirsInv, NEW p \in Picker
    PROVE  /\ picker[p] \in Pickers
           /\ picker[p].made \in Lists /\ picker[p].adds \in Lists
           /\ picker[p].at \in {"check", "move"} => picker[p].made = SessionDirs!NoRepos
  BY DEF DirsInv, DirsTyped, Pickers, ConfirmsStand

LEMMA CheckUpgradesKeeps ==
    ASSUME DirsInv, NEW p \in Picker, SessionDirs!CheckUpgrades(p) PROVE DirsInv'
<1>1. /\ picker[p] \in Pickers /\ picker[p].at = "check" /\ picker[p].made = SessionDirs!NoRepos
      /\ UNCHANGED <<dir, manifest, checkout, ahead, create, remove, removed, stranded, crashes>>
  BY PickerFields DEF SessionDirs!CheckUpgrades
<1>2. CASE picker' = [picker EXCEPT ![p] = SessionDirs!NotPicking]
  BY <1>1, <1>2, NotPickingIs, PicksKeep
<1> DEFINE to == [picker[p] EXCEPT !.at = "move", !.todo = {r \in picker[p].ups : checkout[r] # "branch"}]
<1>3. CASE picker[p].ups \subseteq DOMAIN manifest /\ picker' = [picker EXCEPT ![p] = to]
  <2>1. /\ to \in Pickers /\ to.at = "move" /\ to.made = SessionDirs!NoRepos
        /\ to.todo \subseteq DOMAIN manifest
        /\ \A r \in to.ups \ to.todo : checkout[r] = "branch"
    BY <1>1, <1>3 DEF Pickers
  <2> HIDE DEF to
  <2>. QED
    BY <1>1, <1>3, <2>1, PicksKeep
<1>. QED
  BY <1>2, <1>3 DEF SessionDirs!CheckUpgrades, SessionDirs!Pick, SessionDirs!Listed

LEMMA UpgradeFailsKeeps ==
    ASSUME DirsInv, NEW p \in Picker, SessionDirs!UpgradeFails(p) PROVE DirsInv'
<1>1. /\ picker[p] \in Pickers /\ picker[p].at = "move" /\ picker[p].made = SessionDirs!NoRepos
      /\ UNCHANGED <<dir, manifest, checkout, ahead, create, remove, removed, stranded, crashes>>
      /\ picker' = [picker EXCEPT ![p] = SessionDirs!NotPicking]
  BY PickerFields DEF SessionDirs!UpgradeFails, SessionDirs!Pick
<1>. QED
  BY <1>1, NotPickingIs, PicksKeep

LEMMA AddFailsKeeps ==
    ASSUME DirsInv, NEW p \in Picker, SessionDirs!AddFails(p) PROVE DirsInv'
<1>1. /\ picker[p] \in Pickers /\ picker[p].at = "compose" /\ picker[p].made \in Lists
      /\ UNCHANGED <<dir, manifest, checkout, ahead, create, remove, removed, stranded, crashes>>
  BY PickerFields DEF SessionDirs!AddFails
<1>2. CASE picker[p].made = SessionDirs!NoRepos /\ picker' = [picker EXCEPT ![p] = SessionDirs!NotPicking]
  BY <1>1, <1>2, NotPickingIs, PicksKeep
<1> DEFINE to == [picker[p] EXCEPT !.at = "record"]
<1>3. CASE picker' = [picker EXCEPT ![p] = to]
  <2>1. to \in Pickers /\ to.at = "record" /\ to.made = picker[p].made
    BY <1>1 DEF Pickers
  <2> HIDE DEF to
  <2>. QED
    BY <1>1, <1>3, <2>1, PicksKeep
<1>4. picker' = [picker EXCEPT ![p] = IF picker[p].made = SessionDirs!NoRepos THEN SessionDirs!NotPicking ELSE to]
  BY Zenon DEF SessionDirs!AddFails, SessionDirs!Pick
<1> HIDE DEF to
<1>. QED
  BY <1>2, <1>3, <1>4

\* The manifest as it stands, for a step that leaves it.
LEMMA AsListed ==
    ASSUME DirsInv
    PROVE  /\ manifest \in Lists /\ DOMAIN manifest \subseteq Repo
           /\ checkout \in [Repo -> SessionDirs!Checkout]
           /\ ahead \subseteq Repo /\ stranded \subseteq Repo
           /\ dir.manifest /\ ~removed =>
                 \A r \in DOMAIN manifest : /\ checkout[r] # "none"
                                            /\ manifest[r] = "editing" => checkout[r] = "branch"
<1>1. manifest \in Lists
  BY DEF DirsInv, DirsTyped
<1>2. DOMAIN manifest \subseteq Repo
  BY <1>1, ListsAre
<1>. QED
  BY <1>1, <1>2 DEF DirsInv, DirsTyped, SessionDirs!ManifestIsWhole, SessionDirs!Listed

LEMMA UpgradeKeeps ==
    ASSUME DirsInv, NEW p \in Picker, NEW r \in Repo, SessionDirs!Upgrade(p, r) PROVE DirsInv'
<1>1. /\ picker[p] \in Pickers /\ picker[p].at = "move" /\ picker[p].made = SessionDirs!NoRepos
      /\ r \in picker[p].todo
      /\ UNCHANGED <<dir, manifest, create, remove, removed, crashes>>
  BY PickerFields DEF SessionDirs!Upgrade
<1> DEFINE to == [picker[p] EXCEPT !.todo = picker[p].todo \ {r}]
<1>2. picker' = [picker EXCEPT ![p] = to]
  BY Zenon DEF SessionDirs!Upgrade, SessionDirs!Pick
<1>3. /\ to \in Pickers /\ to.at = "move" /\ to.made = SessionDirs!NoRepos
      /\ to.todo = picker[p].todo \ {r} /\ to.ups = picker[p].ups
  BY <1>1 DEF Pickers
<1> HIDE DEF to
<1>4. /\ checkout' \in [Repo -> SessionDirs!Checkout] /\ checkout'[r] = "branch"
      /\ \A s \in Repo \ {r} : checkout'[s] = checkout[s]
  BY AsListed DEF SessionDirs!Upgrade, SessionDirs!Checkout
<1>5. ahead' \subseteq Repo /\ stranded' \subseteq Repo
  BY AsListed DEF SessionDirs!Upgrade
<1>6. ~removed => /\ picker[p].todo \subseteq DOMAIN manifest
                  /\ \A s \in picker[p].ups \ picker[p].todo : checkout[s] = "branch"
  BY <1>1 DEF DirsInv, ConfirmsStand
<1>7. picker[p].ups \subseteq Repo
  BY <1>1 DEF Pickers
<1>8. to.at = "move" /\ ~removed =>
         /\ to.todo \subseteq DOMAIN manifest
         /\ \A s \in to.ups \ to.todo : checkout'[s] = "branch"
  BY <1>3, <1>4, <1>6, <1>7
<1>9. \A s \in Repo : /\ checkout[s] # "none" => checkout'[s] # "none"
                      /\ checkout[s] = "branch" => checkout'[s] = "branch"
  BY <1>4
<1>10. \A s \in Repo : checkout'[s] # "none" /\ checkout[s] = "none" /\ dir.manifest /\ ~removed =>
                          s \in DOMAIN manifest' \cup DOMAIN to.made
  BY <1>1, <1>4, <1>6
<1>11. dir.manifest /\ ~removed =>
         \A s \in DOMAIN manifest' : /\ checkout'[s] # "none"
                                     /\ manifest'[s] = "editing" => checkout'[s] = "branch"
  BY <1>1, <1>9, AsListed
<1>12. manifest' \in Lists /\ DOMAIN to.made = {}
  BY <1>1, <1>3, AsListed, NoReposListed
<1>. QED
  BY <1>1, <1>2, <1>3, <1>4, <1>5, <1>8, <1>9, <1>10, <1>11, <1>12, PickerConfirmKeeps

LEMMA ApplyUpgradesKeeps ==
    ASSUME DirsInv, NEW p \in Picker, SessionDirs!ApplyUpgrades(p) PROVE DirsInv'
<1>1. /\ picker[p] \in Pickers /\ picker[p].at = "move" /\ picker[p].made = SessionDirs!NoRepos
      /\ picker[p].todo = {}
      /\ UNCHANGED <<dir, checkout, ahead, create, remove, removed, stranded, crashes>>
  BY PickerFields DEF SessionDirs!ApplyUpgrades
<1>2. CASE UNCHANGED manifest /\ picker' = [picker EXCEPT ![p] = SessionDirs!NotPicking]
  BY <1>1, <1>2, NotPickingIs, PicksKeep
<1> DEFINE to == [picker[p] EXCEPT !.at = "compose"]
           mode == [r \in DOMAIN manifest |-> IF r \in picker[p].ups THEN "editing" ELSE manifest[r]]
<1>3. CASE manifest' = mode /\ picker' = [picker EXCEPT ![p] = to]
  <2>1. to \in Pickers /\ to.at = "compose" /\ to.made = SessionDirs!NoRepos
    BY <1>1 DEF Pickers
  <2>2. /\ mode \in [DOMAIN manifest -> SessionDirs!Role] /\ DOMAIN mode = DOMAIN manifest
        /\ \A r \in DOMAIN manifest : mode[r] = "editing" => r \in picker[p].ups \/ manifest[r] = "editing"
    BY AsListed, ListsAre DEF SessionDirs!Role
  <2>3. mode \in Lists
    BY <2>2, AsListed, ListsHold
  <2> HIDE DEF to, mode
  <2>4. ~removed => \A s \in picker[p].ups : checkout[s] = "branch"
    BY <1>1 DEF DirsInv, ConfirmsStand
  <2>5. dir.manifest /\ ~removed =>
          \A s \in DOMAIN manifest' : /\ checkout'[s] # "none"
                                      /\ manifest'[s] = "editing" => checkout'[s] = "branch"
    BY <1>1, <1>3, <2>2, <2>4, AsListed
  <2>6. DOMAIN to.made = {} /\ DOMAIN picker[p].made = {}
    BY <1>1, <2>1, NoReposListed
  <2>7. /\ checkout' \in [Repo -> SessionDirs!Checkout]
        /\ ahead' \subseteq Repo /\ stranded' \subseteq Repo
    BY <1>1, AsListed
  <2>. QED
    BY <1>1, <1>3, <2>1, <2>2, <2>3, <2>5, <2>6, <2>7, PickerConfirmKeeps
<1>. QED
  BY <1>2, <1>3, Zenon DEF SessionDirs!ApplyUpgrades, SessionDirs!Pick, SessionDirs!Listed

LEMMA AddRepoKeeps ==
    ASSUME DirsInv, NEW p \in Picker, NEW r \in Repo, SessionDirs!AddRepo(p, r) PROVE DirsInv'
<1>1. /\ picker[p] \in Pickers /\ picker[p].at = "compose"
      /\ picker[p].made \in Lists /\ picker[p].adds \in Lists
      /\ r \in DOMAIN picker[p].adds /\ r \notin DOMAIN picker[p].made /\ checkout[r] = "none"
      /\ UNCHANGED <<manifest, ahead, create, remove, removed, stranded, crashes>>
      /\ dir' = [dir EXCEPT !.there = TRUE]
  BY PickerFields DEF SessionDirs!AddRepo, SessionDirs!ToAdd, SessionDirs!Free
<1> DEFINE all == SessionDirs!Merged(picker[p].made, SessionDirs!Restrict(picker[p].adds, {r}))
           to == [picker[p] EXCEPT !.made = all]
<1>2. picker' = [picker EXCEPT ![p] = to]
  BY Zenon DEF SessionDirs!AddRepo, SessionDirs!Pick
<1>3. /\ all \in Lists /\ DOMAIN all = DOMAIN picker[p].made \cup {r}
      /\ \A s \in DOMAIN picker[p].made : all[s] = picker[p].made[s]
      /\ all[r] = picker[p].adds[r]
  <2>1. OneMore(all, picker[p].made, picker[p].adds, r)
    BY <1>1, OneMoreIs, Zenon
  <2> HIDE DEF all
  <2>. QED
    BY <2>1 DEF OneMore
<1> HIDE DEF all
<1>4. to \in Pickers /\ to.at = "compose" /\ to.made = all
  BY <1>1, <1>3 DEF Pickers
<1> HIDE DEF to
<1>5. /\ SessionDirs!AddedAs(picker[p].adds[r]) \in SessionDirs!Checkout \ {"none"}
      /\ picker[p].adds[r] = "editing" => SessionDirs!AddedAs(picker[p].adds[r]) = "branch"
  BY DEF SessionDirs!AddedAs, SessionDirs!Checkout
<1>6. /\ checkout' \in [Repo -> SessionDirs!Checkout]
      /\ checkout'[r] = SessionDirs!AddedAs(picker[p].adds[r])
      /\ \A s \in Repo \ {r} : checkout'[s] = checkout[s]
  BY <1>5, AsListed DEF SessionDirs!AddRepo
<1>7. \A s \in Repo : /\ checkout[s] # "none" => checkout'[s] # "none"
                      /\ checkout[s] = "branch" => checkout'[s] = "branch"
  BY <1>1, <1>5, <1>6
<1>8. ~removed => \A s \in DOMAIN to.made :
                     /\ checkout'[s] # "none"
                     /\ to.made[s] = "editing" => checkout'[s] = "branch"
  <2>1. ~removed => \A s \in DOMAIN picker[p].made :
                       /\ checkout[s] # "none"
                       /\ picker[p].made[s] = "editing" => checkout[s] = "branch"
    BY DEF DirsInv, ConfirmsStand
  <2>2. \A s \in DOMAIN picker[p].made : s \in Repo
    BY <1>1, ListsAre
  <2>. QED
    BY <2>1, <2>2, <1>3, <1>4, <1>5, <1>6, <1>7
<1>9. \A s \in Repo : checkout'[s] # "none" /\ checkout[s] = "none" => s \in DOMAIN to.made
  BY <1>3, <1>4, <1>6
<1>10. DOMAIN picker[p].made \subseteq DOMAIN to.made
  BY <1>3, <1>4
<1>11. dir.manifest /\ ~removed =>
         \A s \in DOMAIN manifest' : /\ checkout'[s] # "none"
                                     /\ manifest'[s] = "editing" => checkout'[s] = "branch"
  BY <1>1, <1>7, AsListed
<1>12. manifest' \in Lists /\ ahead' \subseteq Repo /\ stranded' \subseteq Repo
  BY <1>1, AsListed
<1>. QED
  BY <1>1, <1>2, <1>4, <1>6, <1>7, <1>8, <1>9, <1>10, <1>11, <1>12, PickerConfirmKeeps

LEMMA PickerRecordKeeps ==
    ASSUME DirsInv, NEW p \in Picker, SessionDirs!Record(p) PROVE DirsInv'
<1>1. /\ picker[p] \in Pickers /\ picker[p].at # "idle" /\ picker[p].made \in Lists
      /\ UNCHANGED <<checkout, ahead, create, remove, removed, stranded, crashes>>
      /\ dir' = [dir EXCEPT !.there = TRUE]
      /\ picker' = [picker EXCEPT ![p] = SessionDirs!NotPicking]
  BY PickerFields DEF SessionDirs!Record, SessionDirs!Pick
<1> DEFINE all == SessionDirs!Merged(manifest, picker[p].made)
<1>2. manifest' = IF dir.manifest THEN all ELSE manifest
  BY Zenon DEF SessionDirs!Record, SessionDirs!Recorded
<1>3. Both(all, manifest, picker[p].made)
  BY <1>1, AsListed, MergedIs, Zenon
<1> HIDE DEF all
<1>4. /\ manifest' \in Lists /\ DOMAIN manifest \subseteq DOMAIN manifest'
      /\ dir.manifest => DOMAIN picker[p].made \subseteq DOMAIN manifest'
  BY <1>2, <1>3, AsListed DEF Both
<1>5. ~removed => \A s \in DOMAIN picker[p].made :
                       /\ checkout[s] # "none"
                       /\ picker[p].made[s] = "editing" => checkout[s] = "branch"
  BY DEF DirsInv, ConfirmsStand
<1>6. dir.manifest /\ ~removed =>
         \A s \in DOMAIN manifest' : /\ checkout'[s] # "none"
                                     /\ manifest'[s] = "editing" => checkout'[s] = "branch"
  BY <1>1, <1>2, <1>3, <1>5, AsListed DEF Both
<1>7. /\ checkout' \in [Repo -> SessionDirs!Checkout]
      /\ ahead' \subseteq Repo /\ stranded' \subseteq Repo
  BY <1>1, AsListed
<1>8. DOMAIN SessionDirs!NotPicking.made = {}
  BY NotPickingIs, NoReposListed
<1>. QED
  BY <1>1, <1>4, <1>6, <1>7, <1>8, NotPickingIs, PickerConfirmKeeps

\* A removal leaves the properties of a session to whoever assembles the next.
LEMMA RemovalKeeps ==
    ASSUME DirsInv, SessionDirs!Remove \/ SessionDirs!RemoveDir \/ \E r \in Repo : SessionDirs!RemoveWorktree(r)
    PROVE  DirsInv'
<1>1. removed' /\ create.at = "idle"
  BY DEF SessionDirs!Remove, SessionDirs!RemoveDir, SessionDirs!RemoveWorktree, DirsInv, ConfirmsLater, AssembledSoFar, DirsTyped
<1>2. UNCHANGED <<create, picker, stranded, crashes>> /\ removed' \in BOOLEAN
  BY DEF SessionDirs!Remove, SessionDirs!RemoveDir, SessionDirs!RemoveWorktree, DirsInv, DirsTyped
<1>3. dir' \in DirRecords /\ (~dir'.there => ~dir'.manifest)
  BY ClearedDir DEF SessionDirs!Remove, SessionDirs!RemoveDir, SessionDirs!RemoveWorktree, SessionDirs!Clear,
     DirsInv, DirsTyped, ConfirmsLater
<1>4. /\ checkout' \in [Repo -> SessionDirs!Checkout] /\ ahead' \subseteq Repo
      /\ manifest' \in Lists /\ remove' \in {"idle", "worktrees", "dir"}
  <2>1. ASSUME NEW r \in Repo, SessionDirs!RemoveWorktree(r)
        PROVE  /\ checkout' \in [Repo -> SessionDirs!Checkout] /\ ahead' \subseteq Repo
               /\ UNCHANGED <<manifest, remove>>
    BY <2>1, AsListed DEF SessionDirs!RemoveWorktree, SessionDirs!Checkout
  <2>2. CASE SessionDirs!Remove
    BY <2>2, AsListed DEF SessionDirs!Remove
  <2>3. CASE SessionDirs!RemoveDir
    BY <2>3, ClearedDir, NoReposListed DEF SessionDirs!RemoveDir, SessionDirs!Clear
  <2>. QED
    BY <2>1, <2>2, <2>3 DEF DirsInv, DirsTyped
<1>5. DirsTyped'
  BY <1>2, <1>3, <1>4 DEF DirsInv, DirsTyped
<1>6. AssembledSoFar' /\ ConfirmsLater'
  BY <1>1, <1>2, <1>3 DEF AssembledSoFar, ConfirmsLater, Early
<1>7. ConfirmsStand'
  BY <1>1, <1>2 DEF DirsInv, ConfirmsStand
<1>. QED
  BY <1>1, <1>5, <1>6, <1>7 DEF DirsInv, SessionDirs!ManifestIsWhole, SessionDirs!CheckoutsAreListed

LEMMA CommitKeeps ==
    ASSUME DirsInv, NEW r \in Repo, SessionDirs!Commit(r) PROVE DirsInv'
<1>1. /\ UNCHANGED <<dir, manifest, checkout, create, picker, remove, removed, stranded, crashes>>
      /\ ahead' \subseteq Repo
  BY DEF SessionDirs!Commit, DirsInv, DirsTyped
<1>. QED
  BY <1>1 DEF DirsInv, DirsTyped, AssembledSoFar, ConfirmsLater, ConfirmsStand,
     SessionDirs!ManifestIsWhole, SessionDirs!CheckoutsAreListed, SessionDirs!Listed

LEMMA CrashKeeps ==
    ASSUME DirsInv, SessionDirs!Crash PROVE DirsInv'
<1>1. UNCHANGED <<dir, manifest, checkout, ahead, removed, stranded>> /\ remove' = "idle"
  BY DEF SessionDirs!Crash
<1>2. crashes' \in 0..MaxCrashes /\ crashes' # 0
  BY DirsBounds DEF SessionDirs!Crash, DirsInv, DirsTyped
<1>3. create' \in Creates /\ create'.at = "idle"
  BY ClearedDir DEF SessionDirs!Crash
<1>4. /\ picker' \in [Picker -> Pickers]
      /\ \A p \in Picker : picker'[p].at = "idle" /\ picker'[p].made = SessionDirs!NoRepos
  BY NotPickingIs DEF SessionDirs!Crash
<1>5. DirsTyped'
  BY <1>1, <1>2, <1>3, <1>4 DEF DirsInv, DirsTyped
<1>6. AssembledSoFar' /\ ConfirmsLater'
  BY <1>1, <1>3, <1>4 DEF DirsInv, AssembledSoFar, ConfirmsLater, Early
<1>7. ConfirmsStand'
  BY <1>4, NoReposListed DEF ConfirmsStand
<1>. QED
  BY <1>1, <1>2, <1>5, <1>6, <1>7 DEF DirsInv, SessionDirs!ManifestIsWhole, SessionDirs!CheckoutsAreListed,
     SessionDirs!Listed

LEMMA DirsStep == DirsInv /\ [SessionDirs!Next]_(SessionDirs!dirVars) => DirsInv'
<1>. SUFFICES ASSUME DirsInv, [SessionDirs!Next]_(SessionDirs!dirVars) PROVE DirsInv'
  OBVIOUS
<1>1. ASSUME NEW want \in Wanted, SessionDirs!Mkdir(want) PROVE DirsInv'
  BY <1>1, MkdirKeeps
<1>2. CASE SessionDirs!Mark \/ SessionDirs!Stage \/ SessionDirs!Scaffold
  BY <1>2, MarkKeeps
<1>3. CASE SessionDirs!LandManifest \/ SessionDirs!Unmark \/ SessionDirs!CreateFails
  BY <1>3, LandManifestKeeps, UnmarkKeeps, CreateFailsKeeps
<1>4. ASSUME NEW r \in Repo, SessionDirs!CreateRepo(r) \/ SessionDirs!RemoveWorktree(r) \/ SessionDirs!Commit(r)
      PROVE  DirsInv'
  BY <1>4, CreateRepoKeeps, RemovalKeeps, CommitKeeps
<1>5. ASSUME NEW p \in Picker, NEW d \in Drafted, SessionDirs!Begin(p, d.adds, d.ups) PROVE DirsInv'
  BY <1>5, BeginKeeps
<1>6. ASSUME NEW p \in Picker,
             \/ SessionDirs!CheckUpgrades(p) \/ SessionDirs!UpgradeFails(p) \/ SessionDirs!ApplyUpgrades(p)
             \/ SessionDirs!AddFails(p) \/ SessionDirs!Record(p)
      PROVE  DirsInv'
  BY <1>6, CheckUpgradesKeeps, UpgradeFailsKeeps, ApplyUpgradesKeeps, AddFailsKeeps, PickerRecordKeeps
<1>7. ASSUME NEW p \in Picker, NEW r \in Repo, SessionDirs!Upgrade(p, r) \/ SessionDirs!AddRepo(p, r)
      PROVE  DirsInv'
  BY <1>7, UpgradeKeeps, AddRepoKeeps
<1>8. CASE SessionDirs!Remove \/ SessionDirs!RemoveDir
  BY <1>8, RemovalKeeps
<1>9. CASE SessionDirs!Crash
  BY <1>9, CrashKeeps
<1>10. CASE UNCHANGED SessionDirs!dirVars
  BY <1>10 DEF SessionDirs!dirVars, DirsInv, DirsTyped, AssembledSoFar, ConfirmsLater, ConfirmsStand,
     SessionDirs!ManifestIsWhole, SessionDirs!CheckoutsAreListed, SessionDirs!Listed
<1>. QED
  BY <1>1, <1>2, <1>3, <1>4, <1>5, <1>6, <1>7, <1>8, <1>9, <1>10, Zenon DEF SessionDirs!Next

LEMMA DirsShows ==
    DirsInv => SessionDirs!DirTypeOK /\ SessionDirs!ManifestIsWhole /\ SessionDirs!CheckoutsAreListed
<1>. SUFFICES ASSUME DirsInv PROVE SessionDirs!DirTypeOK
  BY DEF DirsInv
<1>1. DOMAIN dir = DOMAIN SessionDirs!NoDir
  BY DEF DirsInv, DirsTyped, DirRecords, SessionDirs!NoDir
<1>2. \A p \in Picker : picker[p].adds \in Lists /\ picker[p].made \in Lists
  BY PickerFields
<1>3. create.want \in Lists /\ create.made \in Lists
  BY DEF DirsInv, DirsTyped, Creates
<1>. QED
  BY <1>1, <1>2, <1>3 DEF DirsInv, DirsTyped, Lists, SessionDirs!DirTypeOK

\* The list only grows while there is one, and what an assembly clears an assembly left.
LEMMA DirsMoves ==
    ASSUME DirsInv, [SessionDirs!Next]_(SessionDirs!dirVars)
    PROVE  SessionDirs!ForgetsNoRepo /\ SessionDirs!ReclaimsItsOwn
<1>. USE DEF SessionDirs!ForgetsNoRepo, SessionDirs!ReclaimsItsOwn, SessionDirs!Listed
<1>0. create \in Creates
  BY DEF DirsInv, DirsTyped
<1>1. ASSUME NEW want \in Wanted, SessionDirs!Mkdir(want)
      PROVE  SessionDirs!ForgetsNoRepo /\ SessionDirs!ReclaimsItsOwn
  BY <1>1, ClearedDir DEF SessionDirs!Mkdir, SessionDirs!Abandoned
<1>2. CASE \/ SessionDirs!CreateFails \/ SessionDirs!RemoveDir
  BY <1>2, ClearedDir DEF SessionDirs!CreateFails, SessionDirs!RemoveDir, SessionDirs!Clear
<1>3. CASE SessionDirs!LandManifest
  <2>1. ~dir.manifest
    BY <1>3 DEF SessionDirs!LandManifest, DirsInv, AssembledSoFar, Early
  <2>. QED
    BY <1>0, <1>3, <2>1 DEF SessionDirs!LandManifest, Creates
<1>4. CASE SessionDirs!Mark \/ SessionDirs!Stage \/ SessionDirs!Scaffold \/ SessionDirs!Unmark
  BY <1>0, <1>4, ClearedDir DEF SessionDirs!Mark, SessionDirs!Stage, SessionDirs!Scaffold, SessionDirs!Unmark, Creates
<1>5. ASSUME NEW r \in Repo, SessionDirs!CreateRepo(r) \/ SessionDirs!RemoveWorktree(r) \/ SessionDirs!Commit(r)
      PROVE  SessionDirs!ForgetsNoRepo /\ SessionDirs!ReclaimsItsOwn
  BY <1>0, <1>5 DEF SessionDirs!CreateRepo, SessionDirs!RemoveWorktree, SessionDirs!Commit, Creates
<1>6. ASSUME NEW p \in Picker, SessionDirs!ApplyUpgrades(p)
      PROVE  SessionDirs!ForgetsNoRepo /\ SessionDirs!ReclaimsItsOwn
  BY <1>6 DEF SessionDirs!ApplyUpgrades
<1>7. ASSUME NEW p \in Picker, SessionDirs!Record(p)
      PROVE  SessionDirs!ForgetsNoRepo /\ SessionDirs!ReclaimsItsOwn
  <2>1. Both(SessionDirs!Merged(manifest, picker[p].made), manifest, picker[p].made)
    BY AsListed, PickerFields, MergedIs, Zenon
  <2>. QED
    BY <1>7, <2>1 DEF SessionDirs!Record, SessionDirs!Recorded, Both
<1>8. ASSUME NEW p \in Picker,
             \/ \E d \in Drafted : SessionDirs!Begin(p, d.adds, d.ups)
             \/ SessionDirs!CheckUpgrades(p) \/ SessionDirs!UpgradeFails(p) \/ SessionDirs!AddFails(p)
             \/ \E r \in Repo : SessionDirs!Upgrade(p, r) \/ SessionDirs!AddRepo(p, r)
      PROVE  SessionDirs!ForgetsNoRepo /\ SessionDirs!ReclaimsItsOwn
  <2>1. UNCHANGED <<manifest, create>>
    BY <1>8, Zenon DEF SessionDirs!Begin, SessionDirs!CheckUpgrades, SessionDirs!UpgradeFails, SessionDirs!AddFails,
       SessionDirs!Upgrade, SessionDirs!AddRepo
  <2>. QED
    BY <2>1
<1>9. CASE SessionDirs!Remove \/ SessionDirs!Crash
  BY <1>9, ClearedDir DEF SessionDirs!Remove, SessionDirs!Crash
<1>10. CASE UNCHANGED SessionDirs!dirVars
  BY <1>10 DEF SessionDirs!dirVars
<1>. QED
  BY <1>1, <1>2, <1>3, <1>4, <1>5, <1>6, <1>7, <1>8, <1>9, <1>10, Zenon DEF SessionDirs!Next
-----------------------------------------------------------------------------
(* The prompts of a launch.  What a launch has done to a path stands at its     *)
(* later steps, unless the user has edited the path since it was judged.       *)

\* The variables of Stamps, by their names there.
agent == v1
canonical == v2
link == v3
outside == v4
stamp == v5
touched == v6
lastLaunch == v7
launches == v8
edits == v9
USE DEF agent, canonical, link, outside, stamp, touched, lastLaunch, launches, edits

Endings == {"never", "running", "agent refused", "link refused", "link failed", "stamped", "crashed"}

StampsTyped ==
    /\ agent \in Stamps!Users \cup {Stamps!Nothing, Stamps!Marked, Stamps!Torn}
    /\ canonical \in {Stamps!Nothing, Stamps!LinkOut, Stamps!Torn, Stamps!Marked}
    /\ link \in [Stamps!Site -> Stamps!Users \cup Stamps!Stamped \cup {Stamps!Nothing, Stamps!UsersDir, Stamps!OldTree}]
    /\ outside \in {"theirs", "overwritten"}
    /\ stamp \in [step : 0..13, primary : Primary]
    /\ touched \subseteq {"agent", "canonical"} \cup Stamps!Site
    /\ lastLaunch \in [how : Endings, primary : Primary]

\* How far the launch has come with each path nobody edited.
AgentSoFar ==
    "agent" \notin touched =>
       /\ stamp.step \in {2, 3} => agent \in {Stamps!Nothing, Stamps!Marked}
       /\ stamp.step = 4 => agent = Stamps!Torn
       /\ stamp.step \in 5..13 => agent = Stamps!Marked
CanonicalSoFar ==
    "canonical" \notin touched =>
       /\ stamp.step = 6 => canonical # Stamps!LinkOut
       /\ stamp.step = 7 => canonical = Stamps!Torn
       /\ stamp.step \in 8..13 => canonical = Stamps!Marked
DiscoverySoFar ==
    "discovery" \notin touched =>
       /\ stamp.step = 9 => Stamps!linkSiteOurs(link["discovery"])
       /\ stamp.step = 10 => link["discovery"] = Stamps!Nothing
       /\ stamp.step \in 11..13 => link["discovery"] = <<"ours", stamp.primary>>
SkillSoFar ==
    "skill" \notin touched =>
       /\ stamp.step = 12 => Stamps!linkSiteOurs(link["skill"])
       /\ stamp.step = 13 => link["skill"] = Stamps!Nothing

StampsInv ==
    /\ StampsTyped
    /\ stamp.step # 0 => lastLaunch.how = "running"
    /\ AgentSoFar /\ CanonicalSoFar /\ DiscoverySoFar /\ SkillSoFar
    /\ Stamps!RunnerFindsItsPrompt

LEMMA StampSteps ==
    ASSUME stamp.step \in 0..13
    PROVE
    /\ Stamps!Doing("check agent") => stamp.step = 1
    /\ Stamps!Doing("clear agent") => stamp.step = 2
    /\ Stamps!Doing("empty agent") => stamp.step = 3
    /\ Stamps!Doing("write agent") => stamp.step = 4
    /\ Stamps!Doing("clear canonical") => stamp.step = 5
    /\ Stamps!Doing("empty canonical") => stamp.step = 6
    /\ Stamps!Doing("write canonical") => stamp.step = 7
    /\ Stamps!Doing("check discovery") => stamp.step = 8
    /\ Stamps!Doing("remove discovery") => stamp.step = 9
    /\ Stamps!Doing("link discovery") => stamp.step = 10
    /\ Stamps!Doing("check skill") => stamp.step = 11
    /\ Stamps!Doing("remove skill") => stamp.step = 12
    /\ Stamps!Doing("link skill") => stamp.step = 13
<1>1. ASSUME NEW k \in 1..13
      PROVE
      /\ Stamps!Steps[k] = "check agent" => k = 1
      /\ Stamps!Steps[k] = "clear agent" => k = 2
      /\ Stamps!Steps[k] = "empty agent" => k = 3
      /\ Stamps!Steps[k] = "write agent" => k = 4
      /\ Stamps!Steps[k] = "clear canonical" => k = 5
      /\ Stamps!Steps[k] = "empty canonical" => k = 6
      /\ Stamps!Steps[k] = "write canonical" => k = 7
      /\ Stamps!Steps[k] = "check discovery" => k = 8
      /\ Stamps!Steps[k] = "remove discovery" => k = 9
      /\ Stamps!Steps[k] = "link discovery" => k = 10
      /\ Stamps!Steps[k] = "check skill" => k = 11
      /\ Stamps!Steps[k] = "remove skill" => k = 12
      /\ Stamps!Steps[k] = "link skill" => k = 13
  <2>1. /\ Stamps!Steps[1] = "check agent" /\ Stamps!Steps[2] = "clear agent" /\ Stamps!Steps[3] = "empty agent"
        /\ Stamps!Steps[4] = "write agent" /\ Stamps!Steps[5] = "clear canonical"
        /\ Stamps!Steps[6] = "empty canonical" /\ Stamps!Steps[7] = "write canonical"
        /\ Stamps!Steps[8] = "check discovery" /\ Stamps!Steps[9] = "remove discovery"
        /\ Stamps!Steps[10] = "link discovery" /\ Stamps!Steps[11] = "check skill"
        /\ Stamps!Steps[12] = "remove skill" /\ Stamps!Steps[13] = "link skill"
    BY DEF Stamps!Steps
  <2>2. k \in {1, 2, 3, 4, 5, 6, 7, 8, 9, 10, 11, 12, 13}
    OBVIOUS
  <2>. QED
    BY <2>1, <2>2, Zenon
<1>2. CASE stamp.step = 0
  BY <1>2 DEF Stamps!Doing
<1>3. CASE stamp.step > 0
  <2>1. stamp.step \in 1..13
    BY <1>3
  <2>. QED
    BY <1>1, <2>1, Zenon DEF Stamps!Doing
<1>4. stamp.step = 0 \/ stamp.step > 0
  OBVIOUS
<1>. QED
  BY <1>2, <1>3, <1>4, Zenon

\* The things at a path are told apart.
LEMMA ThingsDiffer ==
    /\ \A u \in Stamps!Users \cup {Stamps!UsersDir} :
          u \notin {Stamps!Nothing, Stamps!Marked, Stamps!Torn, Stamps!OldTree, Stamps!LinkOut} \cup Stamps!Stamped
    /\ \A s \in Stamps!Stamped : s \notin {Stamps!Nothing, Stamps!Marked, Stamps!Torn, Stamps!OldTree, Stamps!LinkOut}
    /\ Stamps!Nothing # Stamps!Marked /\ Stamps!Nothing # Stamps!Torn /\ Stamps!Nothing # Stamps!LinkOut
    /\ Stamps!Nothing # Stamps!OldTree /\ Stamps!Marked # Stamps!OldTree
    /\ Stamps!Marked # Stamps!Torn /\ Stamps!Marked # Stamps!LinkOut /\ Stamps!Torn # Stamps!LinkOut
<1>1. \A u \in Stamps!Users \cup {Stamps!UsersDir} : u[1] = "theirs"
  BY DEF Stamps!Users, Stamps!UsersDir
<1>2. ASSUME NEW s \in Stamps!Stamped PROVE s[1] = "ours"
  <2>1. PICK t : s = <<"ours", t>>
    BY Zenon DEF Stamps!Stamped
  <2>. QED
    BY <2>1
<1>3. /\ Stamps!Nothing[1] = "nothing" /\ Stamps!Marked[1] = "marked" /\ Stamps!Torn[1] = "torn"
      /\ Stamps!OldTree[1] = "our links" /\ Stamps!LinkOut[1] = "link"
  BY DEF Stamps!Nothing, Stamps!Marked, Stamps!Torn, Stamps!OldTree, Stamps!LinkOut
<1>. QED
  BY <1>1, <1>2, <1>3

LEMMA StampsInit == Stamps!Init => StampsInv
<1>. SUFFICES ASSUME Stamps!Init PROVE StampsInv
  OBVIOUS
<1>1. Stamps!NotRunning \in [step : 0..13, primary : Primary] /\ Stamps!NotRunning.step = 0
  <2>1. (CHOOSE p \in Primary : TRUE) \in Primary
    BY PartsAssumption DEF Stamps!StampsAssumption
  <2>. QED
    BY <2>1 DEF Stamps!NotRunning
<1>2. lastLaunch \in [how : Endings, primary : Primary] /\ lastLaunch.how = "never"
  BY <1>1 DEF Stamps!Init, Endings
<1>3. link \in [Stamps!Site -> {Stamps!Nothing}]
  BY DEF Stamps!Init
<1>4. StampsTyped
  BY <1>1, <1>2, <1>3 DEF Stamps!Init, StampsTyped
<1>. QED
  BY <1>1, <1>2, <1>4 DEF Stamps!Init, StampsInv, AgentSoFar, CanonicalSoFar, DiscoverySoFar, SkillSoFar,
     Stamps!RunnerFindsItsPrompt

\* The launch goes on to its next step, or is over.
LEMMA StampGoes ==
    ASSUME StampsInv
    PROVE  /\ stamp.step \in 0..13 /\ stamp.primary \in Primary
           /\ \A k \in 1..12 : Stamps!NextStep /\ stamp.step = k =>
                 /\ stamp' \in [step : 0..13, primary : Primary]
                 /\ stamp'.step = k + 1 /\ stamp'.primary = stamp.primary
           /\ \A how \in Endings : Stamps!Stop(how) =>
                 /\ stamp' \in [step : 0..13, primary : Primary]
                 /\ stamp'.step = 0
                 /\ lastLaunch' \in [how : Endings, primary : Primary]
                 /\ lastLaunch'.how = how /\ lastLaunch'.primary = stamp.primary
<1>1. stamp \in [step : 0..13, primary : Primary]
  BY DEF StampsInv, StampsTyped
<1>. QED
  BY <1>1 DEF Stamps!NextStep, Stamps!Stop

\* What follows of a step that goes on: nothing is said of a launch under way.
LEMMA StampKeeps ==
    ASSUME StampsInv, StampsTyped', stamp.step # 0, UNCHANGED lastLaunch,
           AgentSoFar', CanonicalSoFar', DiscoverySoFar', SkillSoFar'
    PROVE  StampsInv'
  BY DEF StampsInv, Stamps!RunnerFindsItsPrompt

\* What follows of a step that ends the launch short of its end.
LEMMA StopKeeps ==
    ASSUME StampsInv, NEW how \in Endings \ {"stamped"}, Stamps!Stop(how), touched' \subseteq touched,
           UNCHANGED <<agent, canonical, link, outside>>
    PROVE  StampsInv'
<1>1. /\ stamp' \in [step : 0..13, primary : Primary] /\ stamp'.step = 0
      /\ lastLaunch' \in [how : Endings, primary : Primary] /\ lastLaunch'.how # "stamped"
  BY StampGoes
<1>2. StampsTyped'
  BY <1>1 DEF StampsInv, StampsTyped
<1>3. AgentSoFar' /\ CanonicalSoFar' /\ DiscoverySoFar' /\ SkillSoFar'
  BY <1>1 DEF AgentSoFar, CanonicalSoFar, DiscoverySoFar, SkillSoFar
<1>. QED
  BY <1>1, <1>2, <1>3 DEF StampsInv, Stamps!RunnerFindsItsPrompt

LEMMA LaunchKeeps == StampsInv /\ Stamps!Launch => StampsInv'
<1>. SUFFICES ASSUME StampsInv, Stamps!Launch PROVE StampsInv'
  OBVIOUS
<1>1. stamp' \in [step : 0..13, primary : Primary] /\ stamp'.step = 1
  BY DEF Stamps!Launch
<1>2. lastLaunch' \in [how : Endings, primary : Primary] /\ lastLaunch'.how = "running"
  BY DEF Stamps!Launch, StampsInv, StampsTyped, Endings
<1>3. StampsTyped'
  BY <1>1, <1>2 DEF Stamps!Launch, StampsInv, StampsTyped
<1>4. AgentSoFar' /\ CanonicalSoFar' /\ DiscoverySoFar' /\ SkillSoFar'
  BY <1>1 DEF AgentSoFar, CanonicalSoFar, DiscoverySoFar, SkillSoFar
<1>. QED
  BY <1>2, <1>3, <1>4 DEF StampsInv, Stamps!RunnerFindsItsPrompt

LEMMA CheckAgentKeeps == StampsInv /\ Stamps!CheckAgent => StampsInv'
<1>. SUFFICES ASSUME StampsInv, Stamps!CheckAgent PROVE StampsInv'
  OBVIOUS
<1>1. stamp.step = 1 /\ touched' \subseteq touched /\ UNCHANGED <<agent, canonical, link, outside>>
  BY StampGoes, StampSteps DEF Stamps!CheckAgent
<1>2. CASE Stamps!Stop("agent refused")
  BY <1>1, <1>2, StopKeeps DEF Endings
<1>3. CASE Stamps!AgentIsOurs /\ Stamps!NextStep /\ UNCHANGED lastLaunch
  <2>1. stamp' \in [step : 0..13, primary : Primary] /\ stamp'.step = 2
    BY <1>1, <1>3, StampGoes
  <2>2. StampsTyped'
    BY <1>1, <1>3, <2>1 DEF StampsInv, StampsTyped
  <2>3. agent \in {Stamps!Nothing, Stamps!Marked}
    BY <1>3, ThingsDiffer DEF StampsInv, StampsTyped, Stamps!AgentIsOurs, Stamps!ownedByUs
  <2>4. AgentSoFar' /\ CanonicalSoFar' /\ DiscoverySoFar' /\ SkillSoFar'
    BY <1>1, <2>1, <2>3 DEF AgentSoFar, CanonicalSoFar, DiscoverySoFar, SkillSoFar
  <2>. QED
    BY <1>1, <1>3, <2>2, <2>4, StampKeeps
<1>. QED
  BY <1>2, <1>3 DEF Stamps!CheckAgent

\* A step on the agent's file alone.
LEMMA AgentStepKeeps ==
    ASSUME StampsInv, NEW k \in 2..4, stamp.step = k, Stamps!NextStep,
           UNCHANGED <<canonical, link, touched, lastLaunch>>,
           agent' \in Stamps!Users \cup {Stamps!Nothing, Stamps!Marked, Stamps!Torn},
           outside' \in {"theirs", "overwritten"},
           "agent" \notin touched =>
              /\ k = 2 => agent' \in {Stamps!Nothing, Stamps!Marked}
              /\ k = 3 => agent' = Stamps!Torn
              /\ k = 4 => agent' = Stamps!Marked
    PROVE  StampsInv'
<1>1. stamp' \in [step : 0..13, primary : Primary] /\ stamp'.step = k + 1
  BY StampGoes
<1>2. StampsTyped'
  BY <1>1 DEF StampsInv, StampsTyped
<1>3. AgentSoFar'
  BY <1>1 DEF AgentSoFar
<1>4. CanonicalSoFar' /\ DiscoverySoFar' /\ SkillSoFar'
  BY <1>1 DEF CanonicalSoFar, DiscoverySoFar, SkillSoFar
<1>. QED
  BY <1>2, <1>3, <1>4, StampKeeps

LEMMA AgentStepsKeep ==
    StampsInv /\ (Stamps!ClearAgent \/ Stamps!EmptyAgent \/ Stamps!WriteAgent) => StampsInv'
<1>. SUFFICES ASSUME StampsInv, Stamps!ClearAgent \/ Stamps!EmptyAgent \/ Stamps!WriteAgent PROVE StampsInv'
  OBVIOUS
<1>1. /\ agent \in Stamps!Users \cup {Stamps!Nothing, Stamps!Marked, Stamps!Torn}
      /\ outside \in {"theirs", "overwritten"}
      /\ "agent" \notin touched => /\ stamp.step \in {2, 3} => agent \in {Stamps!Nothing, Stamps!Marked}
                                   /\ stamp.step = 4 => agent = Stamps!Torn
  BY DEF StampsInv, StampsTyped, AgentSoFar
<1>2. CASE Stamps!ClearAgent
  <2>1. stamp.step = 2
    BY <1>2, StampGoes, StampSteps DEF Stamps!ClearAgent
  <2>2. agent' \in {agent, Stamps!Nothing}
    BY <1>2 DEF Stamps!ClearAgent, Stamps!Cleared
  <2>3. Stamps!NextStep /\ UNCHANGED <<canonical, link, touched, lastLaunch, outside>>
    BY <1>2 DEF Stamps!ClearAgent
  <2>. QED
    BY <1>1, <2>1, <2>2, <2>3, AgentStepKeeps
<1>3. CASE Stamps!EmptyAgent
  <2>1. stamp.step = 3
    BY <1>3, StampGoes, StampSteps DEF Stamps!EmptyAgent
  <2>2. /\ agent' = Stamps!Torn \/ (agent' = agent /\ agent \in Stamps!Users)
        /\ outside' \in {"overwritten", outside}
    BY <1>3 DEF Stamps!EmptyAgent, Stamps!Users
  <2>3. Stamps!NextStep /\ UNCHANGED <<canonical, link, touched, lastLaunch>>
    BY <1>3 DEF Stamps!EmptyAgent
  <2>4. "agent" \notin touched => agent' = Stamps!Torn
    BY <1>1, <2>1, <2>2, ThingsDiffer
  <2>. QED
    BY <1>1, <2>1, <2>2, <2>3, <2>4, AgentStepKeeps
<1>4. CASE Stamps!WriteAgent
  <2>1. stamp.step = 4
    BY <1>4, StampGoes, StampSteps DEF Stamps!WriteAgent
  <2>2. agent' = IF agent = Stamps!Torn THEN Stamps!Marked ELSE agent
    BY <1>4 DEF Stamps!WriteAgent
  <2>3. Stamps!NextStep /\ UNCHANGED <<canonical, link, touched, lastLaunch, outside>>
    BY <1>4 DEF Stamps!WriteAgent
  <2>. QED
    BY <1>1, <2>1, <2>2, <2>3, AgentStepKeeps
<1>. QED
  BY <1>2, <1>3, <1>4

\* A step on the canonical prompt alone.
LEMMA CanonicalStepKeeps ==
    ASSUME StampsInv, NEW k \in 5..7, stamp.step = k, Stamps!NextStep,
           UNCHANGED <<agent, link, lastLaunch>>,
           touched' = touched \/ touched' = touched \ {"canonical"},
           canonical' \in {Stamps!Nothing, Stamps!LinkOut, Stamps!Torn, Stamps!Marked},
           outside' \in {"theirs", "overwritten"},
           "canonical" \notin touched' =>
              /\ k = 5 => canonical' # Stamps!LinkOut
              /\ k = 6 => canonical' = Stamps!Torn
              /\ k = 7 => canonical' = Stamps!Marked
    PROVE  StampsInv'
<1>1. stamp' \in [step : 0..13, primary : Primary] /\ stamp'.step = k + 1
  BY StampGoes
<1>2. StampsTyped'
  BY <1>1 DEF StampsInv, StampsTyped
<1>3. CanonicalSoFar'
  BY <1>1 DEF CanonicalSoFar
<1>4. AgentSoFar'
  <2>1. "agent" \in touched' <=> "agent" \in touched
    OBVIOUS
  <2>. QED
    BY <1>1, <2>1 DEF StampsInv, AgentSoFar
<1>5. DiscoverySoFar' /\ SkillSoFar'
  BY <1>1 DEF DiscoverySoFar, SkillSoFar
<1>. QED
  BY <1>2, <1>3, <1>4, <1>5, StampKeeps

LEMMA CanonicalStepsKeep ==
    StampsInv /\ (Stamps!ClearCanonical \/ Stamps!EmptyCanonical \/ Stamps!WriteCanonical) => StampsInv'
<1>. SUFFICES ASSUME StampsInv, Stamps!ClearCanonical \/ Stamps!EmptyCanonical \/ Stamps!WriteCanonical
              PROVE  StampsInv'
  OBVIOUS
<1>1. /\ canonical \in {Stamps!Nothing, Stamps!LinkOut, Stamps!Torn, Stamps!Marked}
      /\ outside \in {"theirs", "overwritten"}
      /\ "canonical" \notin touched => /\ stamp.step = 6 => canonical # Stamps!LinkOut
                                       /\ stamp.step = 7 => canonical = Stamps!Torn
  BY DEF StampsInv, StampsTyped, CanonicalSoFar
<1>2. CASE Stamps!ClearCanonical
  <2>1. stamp.step = 5
    BY <1>2, StampGoes, StampSteps DEF Stamps!ClearCanonical
  <2>2. canonical' \in {canonical, Stamps!Nothing} /\ canonical' # Stamps!LinkOut
    BY <1>2, ThingsDiffer DEF Stamps!ClearCanonical, Stamps!Cleared, Stamps!IsLink
  <2>3. /\ Stamps!NextStep /\ UNCHANGED <<agent, link, lastLaunch, outside>>
        /\ touched' = touched \ {"canonical"}
    BY <1>2 DEF Stamps!ClearCanonical
  <2>. QED
    BY <1>1, <2>1, <2>2, <2>3, CanonicalStepKeeps
<1>3. CASE Stamps!EmptyCanonical
  <2>1. stamp.step = 6
    BY <1>3, StampGoes, StampSteps DEF Stamps!EmptyCanonical
  <2>2. /\ canonical' = Stamps!Torn \/ (canonical' = canonical /\ canonical = Stamps!LinkOut)
        /\ outside' \in {"overwritten", outside}
    BY <1>3 DEF Stamps!EmptyCanonical
  <2>3. Stamps!NextStep /\ UNCHANGED <<agent, link, touched, lastLaunch>>
    BY <1>3 DEF Stamps!EmptyCanonical
  <2>. QED
    BY <1>1, <2>1, <2>2, <2>3, CanonicalStepKeeps
<1>4. CASE Stamps!WriteCanonical
  <2>1. stamp.step = 7
    BY <1>4, StampGoes, StampSteps DEF Stamps!WriteCanonical
  <2>2. canonical' = IF canonical = Stamps!Torn THEN Stamps!Marked ELSE canonical
    BY <1>4 DEF Stamps!WriteCanonical
  <2>3. Stamps!NextStep /\ UNCHANGED <<agent, link, touched, lastLaunch, outside>>
    BY <1>4 DEF Stamps!WriteCanonical
  <2>. QED
    BY <1>1, <2>1, <2>2, <2>3, CanonicalStepKeeps
<1>. QED
  BY <1>2, <1>3, <1>4

Links == Stamps!Users \cup Stamps!Stamped \cup {Stamps!Nothing, Stamps!UsersDir, Stamps!OldTree}

\* A step on one link, with what it leaves at the link's path.
LEMMA LinkStepKeeps ==
    ASSUME StampsInv, NEW k \in 8..12, stamp.step = k, Stamps!NextStep,
           UNCHANGED <<agent, canonical, outside, lastLaunch>>,
           NEW s \in Stamps!Site, IF s = "discovery" THEN k \in 8..10 ELSE k \in 11..12,
           touched' = touched \/ touched' = touched \ {s},
           link' \in [Stamps!Site -> Links], \A q \in Stamps!Site \ {s} : link'[q] = link[q],
           s \notin touched' => /\ k \in {8, 11} => Stamps!linkSiteOurs(link'[s])
                                /\ k \in {9, 12} => link'[s] = Stamps!Nothing
                                /\ k = 10 => link'[s] = <<"ours", stamp.primary>>
    PROVE  StampsInv'
<1>1. stamp' \in [step : 0..13, primary : Primary] /\ stamp'.step = k + 1 /\ stamp'.primary = stamp.primary
  BY StampGoes
<1>4. StampsTyped'
  BY <1>1 DEF StampsInv, StampsTyped, Links
<1>5. /\ "agent" \in touched' <=> "agent" \in touched
      /\ "canonical" \in touched' <=> "canonical" \in touched
      /\ \A q \in Stamps!Site \ {s} : q \in touched' <=> q \in touched
  BY DEF Stamps!Site
<1>6. AgentSoFar' /\ CanonicalSoFar'
  <2>1. "agent" \notin touched => agent = Stamps!Marked
    BY DEF StampsInv, AgentSoFar
  <2>2. "canonical" \notin touched => canonical = Stamps!Marked
    BY DEF StampsInv, CanonicalSoFar
  <2>. QED
    BY <1>1, <1>5, <2>1, <2>2 DEF AgentSoFar, CanonicalSoFar
<1>7. CASE s = "discovery"
  <2>1. DiscoverySoFar'
    BY <1>1, <1>7 DEF DiscoverySoFar
  <2>2. SkillSoFar'
    BY <1>1, <1>7 DEF SkillSoFar
  <2>. QED
    BY <1>4, <1>6, <2>1, <2>2, StampKeeps
<1>8. CASE s = "skill"
  <2>1. "discovery" \notin touched => link["discovery"] = <<"ours", stamp.primary>>
    BY <1>8 DEF StampsInv, DiscoverySoFar
  <2>2. DiscoverySoFar'
    <3>1. "discovery" \in Stamps!Site \ {s}
      BY <1>8 DEF Stamps!Site
    <3>2. link'["discovery"] = link["discovery"] /\ ("discovery" \in touched' <=> "discovery" \in touched)
      BY <1>5, <3>1
    <3>3. k \in 11..12
      BY <1>8
    <3>. QED
      BY <1>1, <2>1, <3>2, <3>3 DEF DiscoverySoFar
  <2>3. SkillSoFar'
    BY <1>1, <1>8 DEF SkillSoFar
  <2>. QED
    BY <1>4, <1>6, <2>2, <2>3, StampKeeps
<1>. QED
  BY <1>7, <1>8 DEF Stamps!Site

LEMMA CheckLinkKeeps ==
    ASSUME StampsInv, NEW s \in Stamps!Site, Stamps!CheckLink(s) PROVE StampsInv'
<1>1. stamp.step = IF s = "discovery" THEN 8 ELSE 11
  BY StampGoes, StampSteps DEF Stamps!CheckLink
<1>2. UNCHANGED <<agent, canonical, link, outside>> /\ touched' = touched \ {s}
  BY DEF Stamps!CheckLink
<1>3. CASE Stamps!Stop("link refused")
  BY <1>2, <1>3, StopKeeps DEF Endings
<1>4. CASE Stamps!linkSiteOurs(link[s]) /\ Stamps!NextStep /\ UNCHANGED lastLaunch
  <2>1. link \in [Stamps!Site -> Links]
    BY DEF StampsInv, StampsTyped, Links
  <2>2. stamp.step \in 8..12
    BY <1>1
  <2>. QED
    BY <1>1, <1>2, <1>4, <2>1, <2>2, LinkStepKeeps
<1>. QED
  BY <1>3, <1>4 DEF Stamps!CheckLink

LEMMA RemoveLinkKeeps ==
    ASSUME StampsInv, NEW s \in Stamps!Site, Stamps!RemoveLink(s) PROVE StampsInv'
<1>1. stamp.step = IF s = "discovery" THEN 9 ELSE 12
  BY StampGoes, StampSteps DEF Stamps!RemoveLink
<1>2. /\ UNCHANGED <<agent, canonical, outside, lastLaunch, touched>> /\ Stamps!NextStep
      /\ link' = [link EXCEPT ![s] = Stamps!Nothing] /\ Stamps!Nothing \in Links
  BY DEF Stamps!RemoveLink, Links
<1>3. link \in [Stamps!Site -> Links]
  BY DEF StampsInv, StampsTyped, Links
<1>4. /\ link' \in [Stamps!Site -> Links] /\ link'[s] = Stamps!Nothing
      /\ \A q \in Stamps!Site \ {s} : link'[q] = link[q]
  BY <1>2, <1>3
<1>5. stamp.step \in 8..12
  BY <1>1
<1>. QED
  BY <1>1, <1>2, <1>4, <1>5, LinkStepKeeps

LEMMA MakeLinkKeeps ==
    ASSUME StampsInv, NEW s \in Stamps!Site, Stamps!MakeLink(s) PROVE StampsInv'
<1>1. stamp.step = IF s = "discovery" THEN 10 ELSE 13
  BY StampGoes, StampSteps DEF Stamps!MakeLink
<1>2. UNCHANGED <<agent, canonical, outside, touched>>
  BY DEF Stamps!MakeLink
<1> DEFINE thing == IF link[s] = Stamps!Nothing THEN <<"ours", Stamps!Target(s, stamp.primary)>> ELSE link[s]
<1>3. link' = [link EXCEPT ![s] = thing]
  BY DEF Stamps!MakeLink
<1>4. link \in [Stamps!Site -> Links] /\ stamp.primary \in Primary
  BY StampGoes DEF StampsInv, StampsTyped, Links
<1>5. thing \in Links
  <2>1. Stamps!Target(s, stamp.primary) \in Primary \cup {"skill directory"}
    BY <1>4 DEF Stamps!Target
  <2>2. <<"ours", Stamps!Target(s, stamp.primary)>> \in Stamps!Stamped
    BY <2>1, Zenon DEF Stamps!Stamped
  <2>. QED
    BY <1>4, <2>2 DEF Links
<1>6. link[s] # Stamps!Nothing => link' = link
  BY <1>3, <1>4
<1>7. CASE link[s] # Stamps!Nothing
  <2>1. Stamps!Stop("link failed")
    BY <1>7 DEF Stamps!MakeLink
  <2>. QED
    BY <1>2, <1>6, <1>7, <2>1, StopKeeps DEF Endings
<1>8. CASE link[s] = Stamps!Nothing /\ s = "discovery"
  <2>1. Stamps!NextStep /\ UNCHANGED lastLaunch
    BY <1>8 DEF Stamps!MakeLink
  <2>2. thing = <<"ours", stamp.primary>>
    BY <1>8 DEF Stamps!Target
  <2> HIDE DEF thing
  <2>3. /\ link' \in [Stamps!Site -> Links] /\ link'[s] = thing
        /\ \A q \in Stamps!Site \ {s} : link'[q] = link[q]
    BY <1>3, <1>4, <1>5
  <2>4. PICK k \in 8..12 : k = 10
    OBVIOUS
  <2>5. stamp.step = k /\ s = "discovery" /\ k \in 8..10
    BY <1>1, <1>8, <2>4
  <2>6. /\ k \notin {8, 11} /\ k \notin {9, 12}
        /\ link'[s] = <<"ours", stamp.primary>>
    BY <2>2, <2>3, <2>4
  <2>7. UNCHANGED <<agent, canonical, outside, lastLaunch>> /\ touched' = touched
    BY <1>2, <2>1
  <2>. QED
    BY <2>1, <2>3, <2>5, <2>6, <2>7, LinkStepKeeps
<1>9. CASE link[s] = Stamps!Nothing /\ s = "skill"
  <2>1. Stamps!Stop("stamped")
    BY <1>9 DEF Stamps!MakeLink
  <2>2. /\ stamp' \in [step : 0..13, primary : Primary] /\ stamp'.step = 0
        /\ lastLaunch' \in [how : Endings, primary : Primary] /\ lastLaunch'.primary = stamp.primary
    BY <2>1, StampGoes DEF Endings
  <2>3. thing = <<"ours", "skill directory">>
    BY <1>9 DEF Stamps!Target
  <2> HIDE DEF thing
  <2>4. /\ link' \in [Stamps!Site -> Links] /\ link'["skill"] = thing
        /\ link'["discovery"] = link["discovery"]
    BY <1>3, <1>4, <1>5, <1>9 DEF Stamps!Site
  <2>5. StampsTyped'
    BY <1>2, <2>2, <2>4 DEF StampsInv, StampsTyped, Links
  <2>6. AgentSoFar' /\ CanonicalSoFar' /\ DiscoverySoFar' /\ SkillSoFar'
    BY <2>2 DEF AgentSoFar, CanonicalSoFar, DiscoverySoFar, SkillSoFar
  <2>7. stamp.step = 13
    BY <1>1, <1>9
  <2>8. /\ "agent" \notin touched => agent = Stamps!Marked
        /\ "canonical" \notin touched => canonical = Stamps!Marked
        /\ "discovery" \notin touched => link["discovery"] = <<"ours", stamp.primary>>
    BY <2>7 DEF StampsInv, AgentSoFar, CanonicalSoFar, DiscoverySoFar
  <2>9. Stamps!RunnerFindsItsPrompt'
    BY <1>2, <2>2, <2>3, <2>4, <2>8 DEF Stamps!RunnerFindsItsPrompt
  <2>. QED
    BY <2>2, <2>5, <2>6, <2>9 DEF StampsInv
<1>. QED
  BY <1>7, <1>8, <1>9 DEF Stamps!Site

LEMMA StampCrashKeeps == StampsInv /\ Stamps!Crash => StampsInv'
  BY StopKeeps DEF Stamps!Crash, Endings

\* The user's edit of a path is no launch's.
LEMMA UserKeeps ==
    ASSUME StampsInv,
           Stamps!UserAtAgent \/ Stamps!UserAtCanonical \/ \E s \in Stamps!Site : Stamps!UserAtLink(s)
    PROVE  StampsInv'
<1>0. /\ agent \in Stamps!Users \cup {Stamps!Nothing, Stamps!Marked, Stamps!Torn}
      /\ canonical \in {Stamps!Nothing, Stamps!LinkOut, Stamps!Torn, Stamps!Marked}
      /\ link \in [Stamps!Site -> Links] /\ touched \subseteq {"agent", "canonical"} \cup Stamps!Site
  BY DEF StampsInv, StampsTyped, Links
<1>1. UNCHANGED <<outside, stamp, lastLaunch>>
  BY DEF Stamps!UserAtAgent, Stamps!UserAtCanonical, Stamps!UserAtLink, Stamps!Edit
<1>2. CASE Stamps!UserAtAgent
  <2>1. /\ touched' = touched \cup {"agent"} /\ UNCHANGED <<canonical, link>>
        /\ agent' \in Stamps!Users \cup {Stamps!Nothing}
    BY <1>2 DEF Stamps!UserAtAgent, Stamps!Edit
  <2>2. StampsTyped'
    BY <1>0, <1>1, <2>1 DEF StampsInv, StampsTyped
  <2>. QED
    BY <1>1, <2>1, <2>2 DEF StampsInv, AgentSoFar, CanonicalSoFar, DiscoverySoFar, SkillSoFar, Stamps!RunnerFindsItsPrompt
<1>3. CASE Stamps!UserAtCanonical
  <2>1. /\ touched' = touched \cup {"canonical"} /\ UNCHANGED <<agent, link>>
        /\ canonical' = Stamps!LinkOut
    BY <1>3 DEF Stamps!UserAtCanonical, Stamps!Edit
  <2>2. StampsTyped'
    BY <1>0, <1>1, <2>1 DEF StampsInv, StampsTyped
  <2>. QED
    BY <1>1, <2>1, <2>2 DEF StampsInv, AgentSoFar, CanonicalSoFar, DiscoverySoFar, SkillSoFar, Stamps!RunnerFindsItsPrompt
<1>4. ASSUME NEW s \in Stamps!Site, Stamps!UserAtLink(s) PROVE StampsInv'
  <2>1. /\ touched' = touched \cup {s} /\ UNCHANGED <<agent, canonical>>
        /\ \E thing \in Links : link' = [link EXCEPT ![s] = thing]
    BY <1>4 DEF Stamps!UserAtLink, Stamps!Edit, Links
  <2>2. link' \in [Stamps!Site -> Links] /\ \A q \in Stamps!Site \ {s} : link'[q] = link[q]
    BY <1>0, <2>1
  <2>3. StampsTyped'
    BY <1>0, <1>1, <2>1, <2>2 DEF StampsInv, StampsTyped, Links
  <2>4. \A q \in Stamps!Site : q \notin touched' => link'[q] = link[q] /\ q \notin touched
    BY <2>1, <2>2
  <2>5. "discovery" \in Stamps!Site /\ "skill" \in Stamps!Site /\ s \notin {"agent", "canonical"}
    BY DEF Stamps!Site
  <2>6. /\ "agent" \notin touched' => "agent" \notin touched
        /\ "canonical" \notin touched' => "canonical" \notin touched
        /\ "discovery" \notin touched' => "discovery" \notin touched /\ link'["discovery"] = link["discovery"]
        /\ "skill" \notin touched' => "skill" \notin touched /\ link'["skill"] = link["skill"]
    BY <2>1, <2>4, <2>5
  <2>7. AgentSoFar' /\ CanonicalSoFar'
    BY <1>1, <2>1, <2>6, Zenon DEF StampsInv, AgentSoFar, CanonicalSoFar
  <2>8. DiscoverySoFar' /\ SkillSoFar'
    BY <1>1, <2>6, Zenon DEF StampsInv, DiscoverySoFar, SkillSoFar
  <2>9. Stamps!RunnerFindsItsPrompt'
    BY <1>1, <2>1, <2>6, Zenon DEF StampsInv, Stamps!RunnerFindsItsPrompt
  <2>. QED
    BY <1>1, <2>3, <2>7, <2>8, <2>9 DEF StampsInv
<1>. QED
  BY <1>2, <1>3, <1>4

LEMMA StampsInvStep == StampsInv /\ [Stamps!Next]_(Stamps!stampVars) => StampsInv'
<1>. SUFFICES ASSUME StampsInv, [Stamps!Next]_(Stamps!stampVars) PROVE StampsInv'
  OBVIOUS
<1>1. CASE UNCHANGED Stamps!stampVars
  <2>1. UNCHANGED <<agent, canonical, link, outside, stamp, touched, lastLaunch>>
    BY <1>1 DEF Stamps!stampVars
  <2>2. StampsTyped' /\ (stamp'.step # 0 => lastLaunch'.how = "running")
    BY <2>1 DEF StampsInv, StampsTyped
  <2>3. AgentSoFar' /\ CanonicalSoFar' /\ DiscoverySoFar' /\ SkillSoFar'
    BY <2>1, Zenon DEF StampsInv, AgentSoFar, CanonicalSoFar, DiscoverySoFar, SkillSoFar
  <2>4. Stamps!RunnerFindsItsPrompt'
    BY <2>1, Zenon DEF StampsInv, Stamps!RunnerFindsItsPrompt
  <2>. QED
    BY <2>2, <2>3, <2>4 DEF StampsInv
<1>2. CASE Stamps!StampStep
  BY <1>2, LaunchKeeps, CheckAgentKeeps, AgentStepsKeep, CanonicalStepsKeep, CheckLinkKeeps, RemoveLinkKeeps,
     MakeLinkKeeps, StampCrashKeeps DEF Stamps!StampStep
<1>3. CASE Stamps!UserAtAgent \/ Stamps!UserAtCanonical \/ \E s \in Stamps!Site : Stamps!UserAtLink(s)
  BY <1>3, UserKeeps
<1>. QED
  BY <1>1, <1>2, <1>3 DEF Stamps!Next

\* With the count of the user's edits.
StampsKept == StampsInv /\ edits \in Nat

LEMMA StampsKeptInit == Stamps!Init => StampsKept
  BY StampsInit DEF StampsKept, Stamps!Init

LEMMA StampsStep == StampsKept /\ [Stamps!Next]_(Stamps!stampVars) => StampsKept'
<1>. SUFFICES ASSUME StampsKept, [Stamps!Next]_(Stamps!stampVars) PROVE edits' \in Nat
  BY StampsInvStep DEF StampsKept
<1>1. edits' = edits \/ edits' = edits + 1
  BY Zenon DEF Stamps!Next, Stamps!StampStep, Stamps!stampVars, Stamps!Launch, Stamps!CheckAgent, Stamps!ClearAgent,
     Stamps!EmptyAgent, Stamps!WriteAgent, Stamps!ClearCanonical, Stamps!EmptyCanonical,
     Stamps!WriteCanonical, Stamps!CheckLink, Stamps!RemoveLink, Stamps!MakeLink, Stamps!Crash,
     Stamps!UserAtAgent, Stamps!UserAtCanonical, Stamps!UserAtLink, Stamps!Edit
<1>. QED
  BY <1>1 DEF StampsKept

LEMMA StampsShows == StampsKept => Stamps!StampsTypeOK /\ Stamps!RunnerFindsItsPrompt
  BY DEF StampsKept, StampsInv, StampsTyped, Stamps!StampsTypeOK, Stamps!Thing

\* A launch takes nothing of the user's that it has not judged, and is refused over
\* nothing but what is the user's.
LEMMA StampsMoves ==
    ASSUME StampsKept, [Stamps!Next]_(Stamps!stampVars)
    PROVE  Stamps!LeavesTheUsers /\ Stamps!RefusesTheUsers
<1>. DEFINE Goal == Stamps!LeavesTheUsers /\ Stamps!RefusesTheUsers
<1>0. /\ agent \in Stamps!Users \cup {Stamps!Nothing, Stamps!Marked, Stamps!Torn}
      /\ link \in [Stamps!Site -> Links] /\ lastLaunch \in [how : Endings, primary : Primary]
      /\ StampsInv
  BY DEF StampsKept, StampsInv, StampsTyped, Links
<1>1. \A t : Stamps!IsTheirs(t) => /\ t \notin {Stamps!Nothing, Stamps!Marked, Stamps!Torn}
                                   /\ ~Stamps!linkSiteOurs(t)
  BY ThingsDiffer DEF Stamps!IsTheirs, Stamps!linkSiteOurs, Stamps!ownedByUs, Stamps!stampedTree
\* what a step that neither refuses nor touches a path need not show
<1>2. ASSUME lastLaunch' = lastLaunch \/ lastLaunch'.how \notin {"agent refused", "link refused"}
      PROVE  Stamps!RefusesTheUsers
  BY <1>2 DEF Stamps!RefusesTheUsers
<1>3. ASSUME UNCHANGED <<agent, link, outside>> PROVE Stamps!LeavesTheUsers
  BY <1>3 DEF Stamps!LeavesTheUsers
<1>4. ASSUME NEW how \in Endings, Stamps!Stop(how) PROVE lastLaunch'.how = how
  BY <1>0, <1>4, StampGoes
<1>5. CASE UNCHANGED Stamps!stampVars
  BY <1>2, <1>3, <1>5 DEF Stamps!stampVars
<1>6. CASE Stamps!UserAtAgent \/ Stamps!UserAtCanonical \/ \E s \in Stamps!Site : Stamps!UserAtLink(s)
  <2>1. edits' = edits + 1 /\ UNCHANGED lastLaunch
    BY <1>6 DEF Stamps!UserAtAgent, Stamps!UserAtCanonical, Stamps!UserAtLink, Stamps!Edit
  <2>2. edits' # edits
    BY <2>1 DEF StampsKept
  <2>. QED
    BY <1>2, <2>1, <2>2 DEF Stamps!LeavesTheUsers
<1>7. CASE Stamps!Launch
  <2>1. lastLaunch'.how = "running"
    BY <1>0, <1>7 DEF Stamps!Launch
  <2>. QED
    BY <1>2, <1>3, <1>7, <2>1 DEF Stamps!Launch
<1>8. CASE Stamps!CheckAgent
  <2>1. Stamps!LeavesTheUsers
    BY <1>3, <1>8 DEF Stamps!CheckAgent
  <2>2. CASE UNCHANGED lastLaunch
    BY <1>2, <2>1, <2>2
  <2>3. CASE ~Stamps!AgentIsOurs /\ Stamps!Stop("agent refused")
    <3>1. lastLaunch'.how = "agent refused"
      BY <1>4, <2>3 DEF Endings
    <3>2. agent \in Stamps!Users \/ agent = Stamps!Torn
      BY <1>0, <2>3 DEF Stamps!AgentIsOurs, Stamps!ownedByUs
    <3>. QED
      BY <2>1, <3>1, <3>2 DEF Stamps!RefusesTheUsers, Stamps!IsTheirs
  <2>. QED
    BY <1>8, <2>2, <2>3 DEF Stamps!CheckAgent
<1>9. CASE Stamps!ClearAgent \/ Stamps!EmptyAgent \/ Stamps!WriteAgent
  <2>1. stamp.step \in {2, 3, 4}
    BY <1>0, <1>9, StampGoes, StampSteps DEF Stamps!ClearAgent, Stamps!EmptyAgent, Stamps!WriteAgent
  <2>2. "agent" \notin touched => agent \in {Stamps!Nothing, Stamps!Marked, Stamps!Torn}
    BY <2>1, <1>0 DEF StampsInv, AgentSoFar
  <2>3. UNCHANGED <<link, lastLaunch>>
    BY <1>9 DEF Stamps!ClearAgent, Stamps!EmptyAgent, Stamps!WriteAgent
  <2>4. outside' # outside => agent \in Stamps!Users
    BY <1>9 DEF Stamps!ClearAgent, Stamps!EmptyAgent, Stamps!WriteAgent, Stamps!Users
  <2>5. outside' # outside => "agent" \in touched
    BY <2>2, <2>4, ThingsDiffer
  <2>. QED
    BY <1>1, <1>2, <2>2, <2>3, <2>5 DEF Stamps!LeavesTheUsers
<1>10. CASE Stamps!ClearCanonical \/ Stamps!EmptyCanonical \/ Stamps!WriteCanonical
  <2>1. UNCHANGED <<agent, link, lastLaunch>>
    BY <1>10 DEF Stamps!ClearCanonical, Stamps!EmptyCanonical, Stamps!WriteCanonical
  <2>2. outside' # outside => Stamps!EmptyCanonical /\ canonical = Stamps!LinkOut
    BY <1>10 DEF Stamps!ClearCanonical, Stamps!EmptyCanonical, Stamps!WriteCanonical
  <2>3. Stamps!EmptyCanonical => stamp.step = 6
    BY <1>0, StampGoes, StampSteps DEF Stamps!EmptyCanonical
  <2>4. outside' # outside => "canonical" \in touched
    BY <1>0, <2>2, <2>3 DEF StampsInv, CanonicalSoFar
  <2>. QED
    BY <1>2, <2>1, <2>4 DEF Stamps!LeavesTheUsers
<1>11. ASSUME NEW s \in Stamps!Site, Stamps!CheckLink(s) PROVE Goal
  <2>1. Stamps!LeavesTheUsers
    BY <1>3, <1>11 DEF Stamps!CheckLink
  <2>2. CASE UNCHANGED lastLaunch
    BY <1>2, <2>1, <2>2
  <2>3. CASE ~Stamps!linkSiteOurs(link[s]) /\ Stamps!Stop("link refused")
    <3>1. lastLaunch'.how = "link refused"
      BY <1>4, <2>3 DEF Endings
    <3>2. link[s] \in Stamps!Users \cup {Stamps!UsersDir}
      BY <1>0, <2>3 DEF Links, Stamps!linkSiteOurs, Stamps!ownedByUs, Stamps!stampedTree
    <3>. QED
      BY <2>1, <3>1, <3>2 DEF Stamps!RefusesTheUsers, Stamps!IsTheirs
  <2>. QED
    BY <1>11, <2>2, <2>3 DEF Stamps!CheckLink
<1>12. ASSUME NEW s \in Stamps!Site, Stamps!RemoveLink(s) PROVE Goal
  <2>1. stamp.step = IF s = "discovery" THEN 9 ELSE 12
    BY <1>0, <1>12, StampGoes, StampSteps DEF Stamps!RemoveLink
  <2>2. s \notin touched => Stamps!linkSiteOurs(link[s])
    BY <1>0, <2>1 DEF StampsInv, DiscoverySoFar, SkillSoFar, Stamps!Site
  <2>3. /\ UNCHANGED <<agent, outside, lastLaunch>>
        /\ \A q \in Stamps!Site \ {s} : link'[q] = link[q]
    BY <1>0, <1>12 DEF Stamps!RemoveLink
  <2>. QED
    BY <1>1, <1>2, <2>2, <2>3 DEF Stamps!LeavesTheUsers
<1>13. ASSUME NEW s \in Stamps!Site, Stamps!MakeLink(s) PROVE Goal
  <2>1. /\ UNCHANGED <<agent, outside>>
        /\ \A q \in Stamps!Site : link[q] # Stamps!Nothing => link'[q] = link[q]
    BY <1>0, <1>13 DEF Stamps!MakeLink
  <2>2. \/ UNCHANGED lastLaunch \/ Stamps!Stop("stamped") \/ Stamps!Stop("link failed")
    BY <1>13 DEF Stamps!MakeLink
  <2>3. lastLaunch' = lastLaunch \/ lastLaunch'.how \notin {"agent refused", "link refused"}
    BY <1>4, <2>2 DEF Endings
  <2>. QED
    BY <1>1, <1>2, <2>1, <2>3 DEF Stamps!LeavesTheUsers
<1>14. CASE Stamps!Crash
  <2>1. UNCHANGED <<agent, link, outside>> /\ Stamps!Stop("crashed")
    BY <1>14 DEF Stamps!Crash
  <2>2. lastLaunch'.how = "crashed"
    BY <1>4, <2>1 DEF Endings
  <2>. QED
    BY <1>2, <1>3, <2>1, <2>2
<1>. QED
  BY <1>5, <1>6, <1>7, <1>8, <1>9, <1>10, <1>11, <1>12, <1>13, <1>14, Zenon DEF Stamps!Next, Stamps!StampStep
-----------------------------------------------------------------------------
(* The numbered documents.  One creator at a time has a number, above that of   *)
(* every document made here before, and no number runs ahead of the files made. *)

folder == v1
creator == v2
folderLock == v3
filesMade == v4
USE DEF folder, creator, folderLock, filesMade

Holding == {"locked", "picked", "writing"}
Creators == [at : Holding \cup {"idle", "done"}, number : Nat, tries : Nat, title : Title]

FilesTyped ==
    /\ folder \subseteq Artefacts!File
    /\ creator \in [Creator -> Creators]
    /\ folderLock \subseteq Creator
    /\ filesMade \in 0..MaxFiles

NumbersKeepPace ==
    /\ \A f \in folder : f.number <= MaxFiles + filesMade /\ f.at <= filesMade
    /\ \A c \in Creator : creator[c].number <= MaxFiles + filesMade + 1

LockIsHeld == \A c \in Creator : creator[c].at \in Holding => folderLock = {c}

PickedIsAbove ==
    \A c \in Creator : creator[c].at = "picked" => \A f \in folder : f.ours => f.number < creator[c].number

LaterIsHigher == \A f, g \in folder : f.ours /\ g.ours /\ f.at < g.at => f.number < g.number

FilesInv == FilesTyped /\ NumbersKeepPace /\ LockIsHeld /\ PickedIsAbove /\ LaterIsHigher

LEMMA FilesBounds ==
    MaxFiles \in Nat /\ MaxTries \in Nat \ {0} /\ Artefacts!Waiting \in Creators /\ Artefacts!Waiting.at = "idle"
    /\ Artefacts!Waiting.number = 0
<1>1. Title # {} /\ MaxFiles \in Nat /\ MaxTries \in Nat \ {0}
  BY PartsAssumption DEF Artefacts!ArtefactsAssumption
<1>2. (CHOOSE t \in Title : TRUE) \in Title
  BY <1>1
<1>. QED
  BY <1>1, <1>2 DEF Artefacts!Waiting, Creators

LEMMA FilesInit == Artefacts!ArtefactsInit => FilesInv
<1>. SUFFICES ASSUME Artefacts!ArtefactsInit PROVE FilesInv
  OBVIOUS
<1>1. folder = {} /\ folderLock = {} /\ filesMade = 0
  BY DEF Artefacts!ArtefactsInit
<1>2. creator \in [Creator -> Creators] /\ \A c \in Creator : creator[c].at = "idle" /\ creator[c].number = 0
  BY FilesBounds DEF Artefacts!ArtefactsInit
<1>. QED
  BY <1>1, <1>2, FilesBounds
  DEF FilesInv, FilesTyped, NumbersKeepPace, LockIsHeld, PickedIsAbove, LaterIsHigher, Holding

\* The next number is above every number of the folder, by one above the greatest.
LEMMA NextNumberIs ==
    ASSUME FilesInv
    PROVE  /\ Artefacts!NextNumber(folder) \in 1..(MaxFiles + filesMade + 1)
           /\ \A f \in folder : f.number < Artefacts!NextNumber(folder)
<1>. DEFINE nums == {0} \cup Artefacts!Numbers(folder)
            top == MaxFiles + filesMade
<1>0. top \in Nat /\ \A f \in folder : f.number \in Int /\ f.number >= -1 /\ f.number <= top
  BY FilesBounds DEF FilesInv, FilesTyped, NumbersKeepPace, Artefacts!File
<1>1. nums \subseteq -1..top /\ nums # {} /\ 0 \in nums /\ \A f \in folder : f.number \in nums
  BY <1>0 DEF Artefacts!Numbers
<1>2. Artefacts!NextNumber(folder) = Artefacts!Max(nums) + 1
  BY DEF Artefacts!NextNumber
<1>. HIDE DEF nums, top
<1>3. \E u \in nums : \A v \in nums : u >= v
  BY <1>0, <1>1, GreatestIs
<1>4. Artefacts!Max(nums) \in nums /\ \A v \in nums : Artefacts!Max(nums) >= v
  BY <1>3 DEF Artefacts!Max
<1>. PICK m : m = Artefacts!Max(nums)
  OBVIOUS
<1>5. Artefacts!Max(nums) \in 0..top
  <2>1. m \in -1..top /\ m >= 0
    BY <1>1, <1>4
  <2>. QED
    BY <1>0, <2>1
<1>6. \A f \in folder : f.number < Artefacts!Max(nums) + 1
  BY <1>0, <1>1, <1>4, <1>5
<1>. QED
  BY <1>0, <1>2, <1>5, <1>6 DEF top

\* A file made now is the newest, and the next number above it keeps pace.
LEMMA MakesKeep ==
    ASSUME FilesInv, filesMade < MaxFiles, filesMade' = filesMade + 1,
           NEW new \in Artefacts!File, folder' = folder \cup {new}, new.at = filesMade + 1,
           new.number <= MaxFiles + filesMade + 1,
           new.ours => \A f \in folder : f.ours => f.number < new.number,
           creator' \in [Creator -> Creators],
           \A c \in Creator : creator'[c].number = creator[c].number,
           \A c \in Creator : creator'[c].at \in Holding => creator[c].at \in Holding,
           \A c \in Creator : creator'[c].at = "picked" =>
              creator[c].at = "picked" /\ (new.ours => new.number < creator[c].number),
           UNCHANGED folderLock
    PROVE  FilesInv'
<1>0. /\ MaxFiles \in Nat /\ filesMade \in Nat /\ filesMade' \in 0..MaxFiles
      /\ \A f \in folder' : f \in Artefacts!File /\ f.number \in Int /\ f.at \in Nat
      /\ \A c \in Creator : creator[c].number \in Nat
  BY FilesBounds DEF FilesInv, FilesTyped, Artefacts!File, Creators
<1>1. FilesTyped'
  BY <1>0 DEF FilesInv, FilesTyped
<1>2. NumbersKeepPace'
  <2>1. \A f \in folder' : f.number <= MaxFiles + filesMade' /\ f.at <= filesMade'
    <3>. SUFFICES ASSUME NEW f \in folder' PROVE f.number <= MaxFiles + filesMade' /\ f.at <= filesMade'
      OBVIOUS
    <3>1. CASE f \in folder
      <4>1. f.number <= MaxFiles + filesMade /\ f.at <= filesMade
        BY <3>1 DEF FilesInv, NumbersKeepPace
      <4>. QED
        BY <1>0, <4>1
    <3>2. CASE f = new
      BY <1>0, <3>2
    <3>. QED
      BY <3>1, <3>2
  <2>2. ASSUME NEW c \in Creator PROVE creator'[c].number <= MaxFiles + filesMade' + 1
    <3>1. creator[c].number <= MaxFiles + filesMade + 1
      BY DEF FilesInv, NumbersKeepPace
    <3>. QED
      BY <1>0, <3>1
  <2>. QED
    BY <2>1, <2>2 DEF NumbersKeepPace
<1>3. LockIsHeld'
  BY DEF FilesInv, LockIsHeld
<1>4. PickedIsAbove'
  BY DEF FilesInv, PickedIsAbove
<1>5. LaterIsHigher'
  <2>. SUFFICES ASSUME NEW f \in folder', NEW g \in folder', f.ours, g.ours, f.at < g.at
                PROVE  f.number < g.number
    BY DEF LaterIsHigher
  <2>1. CASE f \in folder /\ g \in folder
    BY <2>1 DEF FilesInv, LaterIsHigher
  <2>2. CASE f \in folder /\ g = new
    BY <2>2
  <2>3. CASE f = new
    <3>1. g.at <= filesMade + 1
      BY <1>0 DEF FilesInv, NumbersKeepPace
    <3>. QED
      BY <1>0, <2>3, <3>1
  <2>. QED
    BY <2>1, <2>2, <2>3
<1>. QED
  BY <1>1, <1>2, <1>3, <1>4, <1>5 DEF FilesInv

LEMMA FilesStep == FilesInv /\ [Artefacts!ArtefactsNext]_(Artefacts!artVars) => FilesInv'
<1>. SUFFICES ASSUME FilesInv, [Artefacts!ArtefactsNext]_(Artefacts!artVars)
              PROVE  FilesInv'
  OBVIOUS
<1>0. /\ MaxFiles \in Nat /\ MaxTries \in Nat \ {0} /\ filesMade \in 0..MaxFiles
      /\ creator \in [Creator -> Creators] /\ folder \subseteq Artefacts!File /\ folderLock \subseteq Creator
  BY FilesBounds DEF FilesInv, FilesTyped
<1>. USE DEF Holding
\* A creator moves on, by itself, to what keeps its number above what was made here.
<1>1. ASSUME NEW c \in Creator, NEW to \in Creators, creator' = [creator EXCEPT ![c] = to],
             UNCHANGED <<folder, filesMade>>, to.number <= MaxFiles + filesMade + 1,
             folderLock' \subseteq Creator,
             to.at = "picked" => \A f \in folder : f.ours => f.number < to.number,
             \A d \in Creator : d # c /\ creator[d].at \in Holding => folderLock' = {d},
             to.at \in Holding => folderLock' = {c}
      PROVE  FilesInv'
  <2>1. \A d \in Creator : creator'[d] = IF d = c THEN to ELSE creator[d]
    BY <1>0, <1>1
  <2>2. creator' \in [Creator -> Creators]
    BY <1>0, <1>1
  <2>3. FilesTyped'
    BY <1>0, <1>1, <2>2 DEF FilesTyped
  <2>4. NumbersKeepPace'
    BY <1>1, <2>1 DEF FilesInv, NumbersKeepPace
  <2>5. LockIsHeld'
    BY <1>1, <2>1 DEF LockIsHeld
  <2>6. PickedIsAbove' /\ LaterIsHigher'
    BY <1>1, <2>1 DEF FilesInv, PickedIsAbove, LaterIsHigher
  <2>. QED
    BY <2>3, <2>4, <2>5, <2>6 DEF FilesInv
<1>2. ASSUME NEW c \in Creator
      PROVE  /\ creator[c] \in Creators /\ creator[c].number \in Nat /\ creator[c].number <= MaxFiles + filesMade + 1
             /\ creator[c].at \in Holding => folderLock = {c} /\ \A d \in Creator : d # c => creator[d].at \notin Holding
             /\ \A d \in Creator : creator[d].at \in Holding => folderLock = {d}
  <2>1. creator[c] \in Creators
    BY <1>0
  <2>2. creator[c].at \in Holding => \A d \in Creator : d # c => creator[d].at \notin Holding
    BY DEF FilesInv, LockIsHeld
  <2>. QED
    BY <2>1, <2>2 DEF FilesInv, NumbersKeepPace, LockIsHeld, Creators
<1>3. ASSUME NEW c \in Creator, NEW t \in Title, Artefacts!Begin(c, t)
      PROVE  FilesInv'
  <2>. DEFINE to == [Artefacts!Waiting EXCEPT !.at = "locked", !.title = t]
  <2>1. to \in Creators /\ to.at = "locked" /\ to.number = 0
    BY FilesBounds DEF Creators
  <2>2. /\ creator' = [creator EXCEPT ![c] = to] /\ folderLock = {} /\ folderLock' = {c}
        /\ UNCHANGED <<folder, filesMade>>
    BY <1>3 DEF Artefacts!Begin, Artefacts!LockFree
  <2>3. \A d \in Creator : creator[d].at \notin Holding
    BY <1>2, <2>2
  <2>4. 0 <= MaxFiles + filesMade + 1
    BY <1>0
  <2>. HIDE DEF to
  <2>. QED
    BY <1>1, <2>1, <2>2, <2>3, <2>4
<1>4. ASSUME NEW c \in Creator, Artefacts!Pick(c)
      PROVE  FilesInv'
  <2>. DEFINE n == Artefacts!NextNumber(folder)
              to == [creator[c] EXCEPT !.at = "picked", !.number = n]
  <2>0. n \in Nat /\ n <= MaxFiles + filesMade + 1 /\ \A f \in folder : f.number < n
    BY <1>0, NextNumberIs
  <2>1. creator[c].at = "locked" /\ creator' = [creator EXCEPT ![c] = to] /\ UNCHANGED <<folder, folderLock, filesMade>>
    BY <1>0, <1>4 DEF Artefacts!Pick
  <2>. HIDE DEF n
  <2>2. to \in Creators /\ to.at = "picked" /\ to.number = n
    BY <1>2, <2>0 DEF Creators
  <2>. HIDE DEF to
  <2>. QED
    BY <1>0, <1>1, <1>2, <2>0, <2>1, <2>2
<1>5. ASSUME NEW c \in Creator, Artefacts!Create(c)
      PROVE  FilesInv'
  <2>. DEFINE new == [number |-> creator[c].number, title |-> creator[c].title,
                      at |-> filesMade + 1, ours |-> TRUE, whole |-> FALSE]
              to == [creator[c] EXCEPT !.at = "writing"]
  <2>1. /\ creator[c].at = "picked" /\ filesMade < MaxFiles /\ filesMade' = filesMade + 1
        /\ folder' = folder \cup {new} /\ creator' = [creator EXCEPT ![c] = to] /\ UNCHANGED folderLock
    BY <1>0, <1>5 DEF Artefacts!Create
  <2>2. to \in Creators /\ to.at = "writing" /\ to.number = creator[c].number
    BY <1>2 DEF Creators
  <2>3. /\ new \in Artefacts!File /\ new.at = filesMade + 1 /\ new.number = creator[c].number /\ new.ours = TRUE
    <3>1. creator[c].number \in -1..(2 * MaxFiles + MaxTries) /\ creator[c].title \in Title
          /\ filesMade + 1 \in 1..MaxFiles
      BY <1>0, <1>2, <2>1 DEF Creators
    <3>. QED
      BY <3>1 DEF Artefacts!File
  <2>4. \A f \in folder : f.ours => f.number < creator[c].number
    BY <2>1 DEF FilesInv, PickedIsAbove
  <2>. HIDE DEF new, to
  <2>5. creator' \in [Creator -> Creators] /\ \A d \in Creator : creator'[d] = IF d = c THEN to ELSE creator[d]
    BY <1>0, <2>1, <2>2
  <2>6. \A d \in Creator : /\ creator'[d].number = creator[d].number
                           /\ creator'[d].at \in Holding => creator[d].at \in Holding
                           /\ creator'[d].at # "picked"
    BY <1>2, <2>1, <2>2, <2>5
  <2>7. new.number <= MaxFiles + filesMade + 1
    BY <1>2, <2>3
  <2>. QED
    BY <2>1, <2>3, <2>4, <2>5, <2>6, <2>7, MakesKeep
<1>6. ASSUME NEW c \in Creator, Artefacts!TryNext(c)
      PROVE  FilesInv'
  <2>1. /\ creator[c].at = "picked" /\ UNCHANGED <<folder, filesMade>>
        /\ \E f \in folder : f.number = creator[c].number
    BY <1>6 DEF Artefacts!TryNext, Artefacts!Taken
  <2>2. creator[c].tries \in Nat /\ creator[c].number + 1 <= MaxFiles + filesMade + 1
    BY <1>0, <1>2, <2>1 DEF FilesInv, NumbersKeepPace, Creators
  <2>3. CASE creator[c].tries + 1 < MaxTries
    <3>. DEFINE to == [creator[c] EXCEPT !.number = creator[c].number + 1, !.tries = creator[c].tries + 1]
    <3>1. creator' = [creator EXCEPT ![c] = to] /\ UNCHANGED folderLock
      BY <1>0, <1>6, <2>3 DEF Artefacts!TryNext
    <3>2. to \in Creators /\ to.number = creator[c].number + 1 /\ to.at = "picked"
      <4>1. creator[c].number + 1 \in Nat /\ creator[c].tries + 1 \in Nat
        BY <1>2, <2>2
      <4>. QED
        BY <1>2, <2>1, <4>1 DEF Creators
    <3>3. \A f \in folder : f.ours => f.number < creator[c].number + 1
      <4>. SUFFICES ASSUME NEW f \in folder, f.ours PROVE f.number < creator[c].number + 1
        OBVIOUS
      <4>1. f.number < creator[c].number /\ f.number \in Int
        BY <1>0, <2>1 DEF FilesInv, PickedIsAbove, Artefacts!File
      <4>. QED
        BY <1>2, <4>1
    <3>. HIDE DEF to
    <3>4. to.number <= MaxFiles + filesMade + 1 /\ \A f \in folder : f.ours => f.number < to.number
      BY <2>2, <3>2, <3>3
    <3>5. folderLock' = {c} /\ folderLock' \subseteq Creator /\ \A d \in Creator : d # c => creator[d].at \notin Holding
      BY <1>2, <2>1, <3>1
    <3>. QED
      BY <1>1, <2>1, <3>1, <3>2, <3>4, <3>5
  <2>4. CASE ~(creator[c].tries + 1 < MaxTries)
    <3>. DEFINE to == [creator[c] EXCEPT !.at = "done"]
    <3>1. creator' = [creator EXCEPT ![c] = to] /\ folderLock' = {}
      BY <1>0, <1>6, <2>4 DEF Artefacts!TryNext
    <3>2. to \in Creators /\ to.number = creator[c].number /\ to.at = "done"
      BY <1>2 DEF Creators
    <3>. HIDE DEF to
    <3>. QED
      BY <1>1, <1>2, <2>1, <3>1, <3>2
  <2>. QED
    BY <2>3, <2>4
<1>7. ASSUME NEW c \in Creator, Artefacts!Write(c)
      PROVE  FilesInv'
  <2>. DEFINE to == [creator[c] EXCEPT !.at = "done"]
              written1(f) == IF f.number = creator[c].number /\ f.title = creator[c].title
                               THEN [f EXCEPT !.whole = TRUE] ELSE f
  <2>1. /\ creator[c].at = "writing" /\ creator' = [creator EXCEPT ![c] = to] /\ folderLock' = {} /\ UNCHANGED filesMade
        /\ folder' = {written1(f) : f \in folder}
    BY <1>0, <1>7 DEF Artefacts!Write
  <2>2. to \in Creators /\ to.number = creator[c].number /\ to.at = "done"
    BY <1>2 DEF Creators
  <2>3. ASSUME NEW f \in folder
        PROVE  /\ written1(f) \in Artefacts!File /\ written1(f).number = f.number /\ written1(f).at = f.at
               /\ written1(f).ours = f.ours
    BY <1>0 DEF Artefacts!File
  <2>. HIDE DEF to, written1
  <2>4. \A g \in folder' : g \in Artefacts!File /\ \E f \in folder : g.number = f.number /\ g.at = f.at /\ g.ours = f.ours
    BY <2>1, <2>3
  <2>5. creator' \in [Creator -> Creators] /\ \A d \in Creator : creator'[d] = IF d = c THEN to ELSE creator[d]
    BY <1>0, <2>1, <2>2
  <2>6. \A d \in Creator : creator'[d].at \notin Holding /\ creator'[d].number = creator[d].number
    BY <1>2, <2>1, <2>2, <2>5
  <2>7. FilesTyped'
    BY <1>0, <2>1, <2>4, <2>5 DEF FilesTyped
  <2>8. NumbersKeepPace'
    BY <2>1, <2>4, <2>6 DEF FilesInv, NumbersKeepPace
  <2>9. LockIsHeld' /\ PickedIsAbove'
    BY <2>6 DEF LockIsHeld, PickedIsAbove
  <2>10. LaterIsHigher'
    BY <2>4 DEF FilesInv, LaterIsHigher
  <2>. QED
    BY <2>7, <2>8, <2>9, <2>10 DEF FilesInv
<1>8. ASSUME NEW c \in Creator, Artefacts!Ends(c)
      PROVE  FilesInv'
  <2>1. creator' = [creator EXCEPT ![c] = Artefacts!Waiting] /\ folderLock' = folderLock \ {c}
        /\ UNCHANGED <<folder, filesMade>>
    BY <1>8 DEF Artefacts!Ends
  <2>2. 0 <= MaxFiles + filesMade + 1
    BY <1>0
  <2>3. folderLock' \subseteq Creator /\ \A d \in Creator : d # c /\ creator[d].at \in Holding => folderLock' = {d}
    BY <1>0, <1>2, <2>1
  <2>4. Artefacts!Waiting \in Creators /\ Artefacts!Waiting.at \notin Holding /\ Artefacts!Waiting.at # "picked"
        /\ Artefacts!Waiting.number <= MaxFiles + filesMade + 1
    BY <2>2, FilesBounds
  <2>. QED
    BY <1>1, <2>1, <2>3, <2>4
<1>9. ASSUME NEW n \in {-1} \cup 1..MaxFiles, NEW t \in Title, Artefacts!Deliver(n, t)
      PROVE  FilesInv'
  <2>. DEFINE new == [number |-> n, title |-> t, at |-> filesMade + 1, ours |-> FALSE, whole |-> TRUE]
  <2>1. /\ filesMade < MaxFiles /\ filesMade' = filesMade + 1 /\ folder' = folder \cup {new}
        /\ UNCHANGED <<creator, folderLock>>
    BY <1>9 DEF Artefacts!Deliver
  <2>2. /\ new \in Artefacts!File /\ new.at = filesMade + 1 /\ new.number = n /\ ~new.ours
    <3>1. n \in -1..(2 * MaxFiles + MaxTries) /\ filesMade + 1 \in 1..MaxFiles
      BY <1>0, <2>1
    <3>. QED
      BY <3>1 DEF Artefacts!File
  <2>3. n <= MaxFiles + filesMade + 1
    BY <1>0
  <2>. HIDE DEF new
  <2>. QED
    BY <1>0, <2>1, <2>2, <2>3, MakesKeep
<1>10. ASSUME NEW f \in folder, Artefacts!Remove(f)
       PROVE  FilesInv'
  <2>1. folder' \subseteq folder /\ UNCHANGED <<creator, folderLock, filesMade>>
    BY <1>10 DEF Artefacts!Remove
  <2>. QED
    BY <2>1 DEF FilesInv, FilesTyped, NumbersKeepPace, LockIsHeld, PickedIsAbove, LaterIsHigher
<1>11. CASE UNCHANGED Artefacts!artVars
  BY <1>11 DEF Artefacts!artVars, FilesInv, FilesTyped, NumbersKeepPace, LockIsHeld, PickedIsAbove, LaterIsHigher
<1>. QED
  BY <1>3, <1>4, <1>5, <1>6, <1>7, <1>8, <1>9, <1>10, <1>11, Zenon DEF Artefacts!ArtefactsNext

\* Of a folder with a file in it one file is the latest.
LEMMA LatestFileIs ==
    ASSUME FilesInv, folder # {}
    PROVE  /\ Artefacts!Latest(folder) \in folder
           /\ \A g \in folder : \/ Artefacts!Latest(folder).number > g.number
                                \/ Artefacts!Latest(folder).number = g.number /\ Artefacts!Latest(folder).at >= g.at
<1>. DEFINE top == MaxFiles + filesMade
            nums == {f.number : f \in folder}
<1>0. MaxFiles \in Nat /\ top \in Nat /\ \A f \in folder : f.number \in -1..top /\ f.at \in -1..MaxFiles
  BY FilesBounds DEF FilesInv, FilesTyped, NumbersKeepPace, Artefacts!File
<1>1. nums \subseteq -1..top /\ nums # {}
  BY <1>0
<1>2. PICK n \in nums : \A m \in nums : n >= m
  <2>. HIDE DEF nums, top
  <2>. QED
    BY <1>0, <1>1, GreatestIs
<1>. DEFINE times == {f.at : f \in {g \in folder : g.number = n}}
<1>3. times \subseteq -1..MaxFiles /\ times # {}
  BY <1>0
<1>4. PICK last \in times : \A m \in times : last >= m
  <2>. HIDE DEF nums, top, times
  <2>. QED
    BY <1>0, <1>3, GreatestIs
<1>5. PICK f \in folder : f.number = n /\ f.at = last
  OBVIOUS
<1>6. \A g \in folder : f.number > g.number \/ (f.number = g.number /\ f.at >= g.at)
  BY <1>0, <1>2, <1>4, <1>5
<1>7. \E f1 \in folder : \A g \in folder : \/ f1.number > g.number
                                           \/ f1.number = g.number /\ f1.at >= g.at
  BY <1>6
<1>. QED
  BY <1>7, Zenon DEF Artefacts!Latest

LEMMA FilesShow == FilesInv => Artefacts!ArtefactsTypeOK /\ Artefacts!LatestIsTheNewest
<1>. SUFFICES ASSUME FilesInv PROVE Artefacts!ArtefactsTypeOK /\ Artefacts!LatestIsTheNewest
  OBVIOUS
<1>1. Artefacts!ArtefactsTypeOK
  BY FilesBounds DEF FilesInv, FilesTyped, NumbersKeepPace, Artefacts!ArtefactsTypeOK, Creators
<1>2. ASSUME NEW f \in folder, f.ours
      PROVE  Artefacts!Latest(folder).at >= f.at \/ ~Artefacts!Latest(folder).ours
  <2>1. PICK l \in folder : /\ l = Artefacts!Latest(folder)
                            /\ l.number > f.number \/ (l.number = f.number /\ l.at >= f.at)
    BY LatestFileIs
  <2>2. l.number \in Int /\ l.at \in Nat /\ f.number \in Int /\ f.at \in Nat
    BY DEF FilesInv, FilesTyped, Artefacts!File
  <2>3. l.ours /\ l.at < f.at => l.number < f.number
    BY <1>2 DEF FilesInv, LaterIsHigher
  <2>. QED
    BY <2>1, <2>2, <2>3
<1>. QED
  BY <1>1, <1>2 DEF FilesInv, LaterIsHigher, Artefacts!LatestIsTheNewest

-----------------------------------------------------------------------------
(* The activity of a runner that reports only its agents' lives.               *)

generation == v1
setupRuns == v2
lastRun == v3
isRunning == v4
waiting == v5
unread == v6
rung == v7
records == v8
shown == v9
revealing == v10
notify == v11
USE DEF generation, setupRuns, lastRun, isRunning, waiting, unread, rung, records, shown, revealing, notify

Notices == {"idle", "changed", "alerted", "seeing", "seeing then ringing", "ringing"}

ActivityTyped ==
    /\ generation \in 0..MaxGen /\ setupRuns \in 0..MaxSetups /\ lastRun \in Activity!Runs
    /\ records \subseteq Activity!Record
    /\ isRunning \in BOOLEAN /\ waiting \in BOOLEAN /\ unread \in BOOLEAN
    /\ rung \in BOOLEAN /\ shown \in BOOLEAN /\ revealing \in BOOLEAN
    /\ notify \in [Handler -> Notices]

\* Every record hangs off one of its run, and is of that run's generation.
Whole(recs) ==
    \A r \in recs :
        /\ \E p \in recs : p.run = r.run /\ p.id = r.parent
        /\ r.gen = Activity!Generation(r.run)
Rooted(recs, run) == \E p \in recs : p.run = run /\ p.id = Activity!RootAgent
LiveIn(recs, run) == \A r \in recs : r.state = "live" => r.run = run

ActivityInv ==
    /\ ActivityTyped
    /\ Whole(records)
    /\ isRunning => generation > 0 /\ lastRun = generation /\ Rooted(records, generation) /\ LiveIn(records, generation)
    /\ ~isRunning => \A r \in records : r.state # "live"
    /\ Activity!UnreadMeansAway

LEMMA ActivityBounds ==
    /\ MaxGen \in Nat /\ MaxSetups \in Nat /\ 0..MaxGen \subseteq Activity!Runs
    /\ \A g \in 0..MaxGen : Activity!Generation(g) = g
    /\ \A n \in 1..MaxSetups : Activity!Setup(n) \in Activity!Runs /\ Activity!Generation(Activity!Setup(n)) = 0
<1>1. MaxGen \in Nat /\ MaxSetups \in Nat
  BY PartsAssumption DEF Activity!ActivityAssumption
<1>. QED
  BY <1>1 DEF Activity!Runs, Activity!Generation, Activity!Setup

LEMMA ActivityInit == Activity!ActivityInit => ActivityInv
<1>. SUFFICES ASSUME Activity!ActivityInit PROVE ActivityInv
  OBVIOUS
<1>1. /\ generation = 0 /\ setupRuns = 0 /\ lastRun = 0 /\ records = {}
      /\ isRunning = FALSE /\ waiting = FALSE /\ unread = FALSE /\ rung = FALSE /\ shown = FALSE /\ revealing = FALSE
  BY DEF Activity!ActivityInit
<1>2. /\ isRunning \in BOOLEAN /\ waiting \in BOOLEAN /\ unread \in BOOLEAN
      /\ rung \in BOOLEAN /\ shown \in BOOLEAN /\ revealing \in BOOLEAN
  BY <1>1, Zenon
<1>3. notify \in [Handler -> Notices]
  BY DEF Activity!ActivityInit, Notices
<1>4. generation \in 0..MaxGen /\ setupRuns \in 0..MaxSetups /\ lastRun \in Activity!Runs
  BY <1>1, ActivityBounds
<1>5. ActivityTyped
  BY <1>1, <1>2, <1>3, <1>4 DEF ActivityTyped
<1>6. ~isRunning /\ ~unread
  BY <1>1, Zenon
<1>. QED
  BY <1>1, <1>5, <1>6 DEF ActivityInv, Whole, Activity!UnreadMeansAway

\* What the cap takes are leaves, so it leaves a tree with its root.
LEMMA CappedIs ==
    ASSUME NEW recs, NEW left \in Activity!Capped(recs)
    PROVE  left \subseteq recs /\ \A r \in recs \ left : r \in Activity!Leaves(recs)
  BY DEF Activity!Capped

LEMMA CappedKeeps ==
    ASSUME NEW recs, NEW run, NEW left \in Activity!Capped(recs),
           Whole(recs), Rooted(recs, run), LiveIn(recs, run)
    PROVE  Whole(left) /\ Rooted(left, run) /\ LiveIn(left, run)
<1>1. left \subseteq recs /\ \A r \in recs \ left : r \in Activity!Leaves(recs)
  BY CappedIs
<1>2. Whole(left)
  <2>. SUFFICES ASSUME NEW r \in left
                PROVE  /\ \E p \in left : p.run = r.run /\ p.id = r.parent
                       /\ r.gen = Activity!Generation(r.run)
    BY DEF Whole
  <2>1. PICK p \in recs : p.run = r.run /\ p.id = r.parent
    BY <1>1 DEF Whole
  <2>2. CASE p \in left
    BY <1>1, <2>1, <2>2 DEF Whole
  <2>3. CASE p \notin left
    BY <1>1, <2>1, <2>3 DEF Activity!Leaves, Activity!HasChildren
  <2>. QED
    BY <2>2, <2>3
<1>3. Rooted(left, run)
  BY <1>1 DEF Rooted, Activity!Leaves
<1>. QED
  BY <1>1, <1>2, <1>3 DEF LiveIn

\* The records that change hands keep their run, id, parent and generation.
LEMMA FinishedIs ==
    ASSUME NEW recs \in SUBSET Activity!Record
    PROVE  /\ Activity!Finished(recs) \subseteq Activity!Record
           /\ \A r \in Activity!Finished(recs) :
                r.state # "live" /\ \E q \in recs : q.run = r.run /\ q.id = r.id /\ q.parent = r.parent /\ q.gen = r.gen
           /\ \A q \in recs : \E r \in Activity!Finished(recs) : q.run = r.run /\ q.id = r.id
<1>1. ASSUME NEW q \in recs
      PROVE  /\ q \in Activity!Record /\ [q EXCEPT !.state = "ended"] \in Activity!Record
             /\ [q EXCEPT !.state = "ended"].state = "ended"
             /\ [q EXCEPT !.state = "ended"].run = q.run /\ [q EXCEPT !.state = "ended"].id = q.id
             /\ [q EXCEPT !.state = "ended"].parent = q.parent /\ [q EXCEPT !.state = "ended"].gen = q.gen
  BY DEF Activity!Record
<1>. QED
  BY <1>1 DEF Activity!Finished

LEMMA RootIs ==
    ASSUME NEW run \in Activity!Runs, NEW how \in {"live", "done", "failed"}
    PROVE  /\ Activity!RootOf(run, how) \in Activity!Record
           /\ Activity!RootOf(run, how).run = run /\ Activity!RootOf(run, how).id = Activity!RootAgent
           /\ Activity!RootOf(run, how).parent = Activity!RootAgent /\ Activity!RootOf(run, how).state = how
           /\ Activity!RootOf(run, how).gen = Activity!Generation(run)
<1>1. Activity!Generation(run) \in Activity!Runs
  BY ActivityBounds DEF Activity!Generation, Activity!Runs
<1>. QED
  BY <1>1 DEF Activity!RootOf, Activity!Record

\* What the reports do to the tree.
LEMMA AgentBeginKeeps ==
    ASSUME ActivityInv, NEW g \in 1..MaxGen, Activity!Begin(g)
    PROVE  ActivityInv'
<1>. DEFINE kept == {r \in Activity!KeepOnly(Activity!Finished(records), lastRun) :
                       <<r.run, r.id>> # <<g, Activity!RootAgent>>}
            root == Activity!RootOf(g, "live")
<1>0. /\ generation' = g /\ lastRun' = g /\ isRunning' = TRUE /\ waiting' = FALSE /\ unread' = FALSE /\ rung' = FALSE
      /\ UNCHANGED <<setupRuns, shown, revealing, notify>> /\ records' = kept \cup {root}
      /\ g \in 0..MaxGen /\ g \in Activity!Runs /\ g > 0
  BY ActivityBounds DEF Activity!Begin
<1>1. /\ root \in Activity!Record /\ root.run = g /\ root.id = Activity!RootAgent /\ root.parent = Activity!RootAgent
      /\ root.gen = Activity!Generation(g) /\ root.state = "live"
  BY <1>0, RootIs
<1>2. /\ Activity!Finished(records) \subseteq Activity!Record
      /\ \A r \in Activity!Finished(records) :
           r.state # "live" /\ \E q \in records : q.run = r.run /\ q.id = r.id /\ q.parent = r.parent /\ q.gen = r.gen
      /\ \A q \in records : \E r \in Activity!Finished(records) : q.run = r.run /\ q.id = r.id
  BY FinishedIs DEF ActivityInv, ActivityTyped
<1>3. /\ kept \subseteq Activity!Record /\ \A r \in kept : r.state # "live" /\ r.gen = Activity!Generation(r.run)
      /\ \A r \in kept : (\E p \in kept : p.run = r.run /\ p.id = r.parent) \/ (r.run = g /\ r.parent = Activity!RootAgent)
  <2>0. \A r \in Activity!Finished(records) : r \in kept <=> r.run = lastRun /\ (r.run # g \/ r.id # Activity!RootAgent)
    BY DEF Activity!KeepOnly
  <2>1. kept \subseteq Activity!Finished(records) /\ \A r \in kept : r.run = lastRun
    BY DEF Activity!KeepOnly
  <2>. HIDE DEF kept
  <2>2. \A r \in kept : r.state # "live" /\ r.gen = Activity!Generation(r.run)
    BY <1>2, <2>1 DEF ActivityInv, Whole
  <2>3. \A r \in kept : \E p \in Activity!Finished(records) : p.run = r.run /\ p.id = r.parent
    BY <1>2, <2>1 DEF ActivityInv, Whole
  <2>4. \A r \in kept : (\E p \in kept : p.run = r.run /\ p.id = r.parent) \/ (r.run = g /\ r.parent = Activity!RootAgent)
    BY <2>0, <2>1, <2>3
  <2>. QED
    BY <1>2, <2>1, <2>2, <2>4
<1>. HIDE DEF kept, root
<1>4. Whole(records') /\ Rooted(records', g) /\ LiveIn(records', g) /\ records' \subseteq Activity!Record
  BY <1>0, <1>1, <1>3 DEF Whole, Rooted, LiveIn
<1>5. ActivityTyped'
  <2>1. isRunning' \in BOOLEAN /\ waiting' \in BOOLEAN /\ unread' \in BOOLEAN /\ rung' \in BOOLEAN
    BY <1>0, Zenon
  <2>. QED
    BY <1>0, <1>4, <2>1 DEF ActivityInv, ActivityTyped
<1>6. ~unread' /\ isRunning'
  BY <1>0, Zenon
<1>. QED
  BY <1>0, <1>4, <1>5, <1>6 DEF ActivityInv, Activity!UnreadMeansAway

\* A report of the run under way: the tree it is entered in is whole before it is capped.
LEMMA EnteredKeeps ==
    ASSUME ActivityInv, NEW recs \in SUBSET Activity!Record, isRunning,
           Whole(recs), Rooted(recs, generation), LiveIn(recs, generation),
           records' \in Activity!Capped(recs),
           UNCHANGED <<generation, setupRuns, lastRun, isRunning, waiting, unread, rung, shown, revealing, notify>>
    PROVE  ActivityInv'
<1>1. Whole(records') /\ Rooted(records', generation) /\ LiveIn(records', generation)
  BY CappedKeeps
<1>2. records' \subseteq recs
  BY CappedIs
<1>. QED
  BY <1>1, <1>2 DEF ActivityInv, ActivityTyped, Activity!UnreadMeansAway

LEMMA ReportKeeps ==
    ASSUME ActivityInv, NEW g \in 1..MaxGen, NEW id \in Child, NEW named \in Child \cup {Activity!RootAgent},
           Activity!LifecycleStart(g, id, named) \/ Activity!LifecycleStop(g, id, named)
    PROVE  ActivityInv'
<1>0. /\ isRunning /\ g = generation /\ lastRun = generation /\ generation \in Activity!Runs
      /\ records \subseteq Activity!Record /\ Whole(records) /\ Rooted(records, generation) /\ LiveIn(records, generation)
      /\ Activity!Generation(generation) = generation
      /\ UNCHANGED <<generation, setupRuns, lastRun, isRunning, waiting, unread, rung, shown, revealing, notify>>
  BY ActivityBounds DEF Activity!LifecycleStart, Activity!LifecycleStop, Activity!Current, ActivityInv, ActivityTyped
<1>1. Activity!Parent(named) \in Child \cup {Activity!RootAgent}
      /\ \E p \in records : p.run = generation /\ p.id = Activity!Parent(named)
  BY <1>0 DEF Activity!Parent, Activity!Known, Rooted
<1>2. ASSUME NEW how \in {"live", "done"},
             records' \in Activity!Capped(records \cup {[run |-> lastRun, id |-> id, parent |-> Activity!Parent(named),
                                                         state |-> how, gen |-> g]})
      PROVE  ActivityInv'
  <2>. DEFINE new == [run |-> lastRun, id |-> id, parent |-> Activity!Parent(named), state |-> how, gen |-> g]
  <2>1. /\ new \in Activity!Record /\ new.run = generation /\ new.gen = generation
        /\ new.parent = Activity!Parent(named)
    BY <1>0, <1>1 DEF Activity!Record
  <2>2. records' \in Activity!Capped(records \cup {new})
    BY <1>2
  <2>. HIDE DEF new
  <2>3. /\ records \cup {new} \in SUBSET Activity!Record /\ Whole(records \cup {new})
        /\ Rooted(records \cup {new}, generation) /\ LiveIn(records \cup {new}, generation)
    BY <1>0, <1>1, <2>1 DEF Whole, Rooted, LiveIn
  <2>. QED
    BY <1>0, <2>2, <2>3, EnteredKeeps
<1>3. ASSUME NEW r \in Activity!Known(id), records' \in Activity!Capped((records \ {r}) \cup {[r EXCEPT !.state = "done"]})
      PROVE  ActivityInv'
  <2>. DEFINE new == [r EXCEPT !.state = "done"]
  <2>1. r \in records
    BY DEF Activity!Known
  <2>2. /\ new \in Activity!Record /\ new.run = r.run /\ new.gen = r.gen /\ new.id = r.id /\ new.parent = r.parent
        /\ new.state = "done"
    BY <1>0, <2>1 DEF Activity!Record
  <2>3. records' \in Activity!Capped((records \ {r}) \cup {new})
    BY <1>3
  <2>. HIDE DEF new
  <2>4. \A q \in records : \E p \in (records \ {r}) \cup {new} : p.run = q.run /\ p.id = q.id
    BY <2>1, <2>2
  <2>5. /\ (records \ {r}) \cup {new} \in SUBSET Activity!Record /\ Whole((records \ {r}) \cup {new})
    <3>1. \A q \in (records \ {r}) \cup {new} : \E p \in records : p.run = q.run /\ p.parent = q.parent /\ p.gen = q.gen
      BY <2>1, <2>2
    <3>2. \A q \in (records \ {r}) \cup {new} : \E p \in records : p.run = q.run /\ p.id = q.parent
      BY <1>0, <3>1 DEF Whole
    <3>3. \A q \in (records \ {r}) \cup {new} : q.gen = Activity!Generation(q.run)
      BY <1>0, <3>1 DEF Whole
    <3>. QED
      BY <1>0, <2>2, <2>4, <3>2, <3>3 DEF Whole
  <2>6. Rooted((records \ {r}) \cup {new}, generation) /\ LiveIn((records \ {r}) \cup {new}, generation)
    BY <1>0, <2>2, <2>4 DEF Rooted, LiveIn
  <2>. QED
    BY <1>0, <2>3, <2>5, <2>6, EnteredKeeps
<1>. QED
  BY <1>2, <1>3, Zenon DEF Activity!LifecycleStart, Activity!LifecycleStop

LEMMA ExitKeeps ==
    ASSUME ActivityInv, NEW how \in {"done", "failed"}, Activity!Exit(how)
    PROVE  ActivityInv'
<1>0. /\ isRunning' = FALSE /\ waiting' = FALSE /\ UNCHANGED <<generation, unread, rung, shown, revealing, notify>>
      /\ records \subseteq Activity!Record /\ Whole(records)
  BY DEF Activity!Exit, ActivityInv, ActivityTyped
<1>1. /\ setupRuns' \in 0..MaxSetups /\ lastRun' \in Activity!Runs /\ records' \subseteq Activity!Record
      /\ Whole(records') /\ \A r \in records' : r.state # "live"
  <2>1. CASE isRunning
    <3>. DEFINE ends(r) == IF r.run = lastRun /\ r.id = Activity!RootAgent THEN [r EXCEPT !.state = how] ELSE r
                closed == {ends(r) : r \in records}
    <3>0. /\ UNCHANGED <<setupRuns, lastRun>>
          /\ records' = Activity!Finished({IF r.run = lastRun /\ r.id = Activity!RootAgent
                                             THEN [r EXCEPT !.state = how] ELSE r : r \in records})
      BY <2>1 DEF Activity!Exit
    <3>1. UNCHANGED <<setupRuns, lastRun>> /\ records' = Activity!Finished(closed)
      BY <3>0
    <3>2. ASSUME NEW r \in records
          PROVE  /\ ends(r) \in Activity!Record /\ ends(r).run = r.run /\ ends(r).id = r.id
                 /\ ends(r).parent = r.parent /\ ends(r).gen = r.gen
      BY <1>0 DEF Activity!Record
    <3>. HIDE DEF ends
    <3>3. /\ closed \in SUBSET Activity!Record
          /\ \A r \in closed : \E q \in records : q.run = r.run /\ q.id = r.id /\ q.parent = r.parent /\ q.gen = r.gen
          /\ \A q \in records : \E r \in closed : q.run = r.run /\ q.id = r.id
      BY <3>2
    <3>. HIDE DEF closed
    <3>4. /\ records' \subseteq Activity!Record
          /\ \A r \in records' :
               r.state # "live" /\ \E q \in closed : q.run = r.run /\ q.id = r.id /\ q.parent = r.parent /\ q.gen = r.gen
          /\ \A q \in closed : \E r \in records' : q.run = r.run /\ q.id = r.id
      BY <3>1, <3>3, FinishedIs
    <3>5. \A r \in records' : \E q \in records : q.run = r.run /\ q.parent = r.parent /\ q.gen = r.gen
      BY <3>3, <3>4
    <3>6. \A q \in records : \E r \in records' : q.run = r.run /\ q.id = r.id
      BY <3>3, <3>4
    <3>7. Whole(records')
      BY <1>0, <3>5, <3>6 DEF Whole
    <3>. QED
      BY <3>1, <3>4, <3>7 DEF ActivityInv, ActivityTyped
  <2>2. CASE ~isRunning
    <3>. DEFINE run == Activity!Setup(setupRuns + 1)
                root == Activity!RootOf(run, how)
                kept == Activity!KeepOnly(records, lastRun)
    <3>1. /\ setupRuns' = setupRuns + 1 /\ setupRuns + 1 \in 1..MaxSetups /\ lastRun' = run
          /\ records' = kept \cup {root}
      BY <2>2, ActivityBounds DEF Activity!Exit, ActivityInv, ActivityTyped
    <3>2. run \in Activity!Runs /\ Activity!Generation(run) = 0
      BY <3>1, ActivityBounds
    <3>3. /\ root \in Activity!Record /\ root.run = run /\ root.id = Activity!RootAgent /\ root.parent = Activity!RootAgent
          /\ root.gen = Activity!Generation(run) /\ root.state = how
      BY <3>2, RootIs
    <3>4. kept \subseteq records /\ \A r \in kept, p \in records : p.run = r.run => p \in kept
      BY DEF Activity!KeepOnly
    <3>. HIDE DEF run, root, kept
    <3>5. Whole(records')
      BY <1>0, <3>1, <3>3, <3>4 DEF Whole
    <3>6. \A r \in records' : r.state # "live"
      BY <2>2, <3>1, <3>3, <3>4 DEF ActivityInv
    <3>. QED
      BY <1>0, <3>1, <3>2, <3>3, <3>4, <3>5, <3>6
  <2>. QED
    BY <2>1, <2>2 DEF ActivityInv, ActivityTyped
<1>2. isRunning' \in BOOLEAN /\ waiting' \in BOOLEAN /\ ~isRunning'
  BY <1>0, Zenon
<1>3. ActivityTyped'
  BY <1>0, <1>1, <1>2 DEF ActivityInv, ActivityTyped
<1>4. Activity!UnreadMeansAway'
  BY <1>0 DEF ActivityInv, Activity!UnreadMeansAway
<1>. QED
  BY <1>1, <1>2, <1>3, <1>4 DEF ActivityInv

\* Nothing but the marks, and the handlers' ways to them, moves.
LEMMA MarksKeep ==
    ASSUME ActivityInv, UNCHANGED <<generation, setupRuns, lastRun, isRunning, records>>,
           waiting' \in BOOLEAN, unread' \in BOOLEAN, rung' \in BOOLEAN, shown' \in BOOLEAN, revealing' \in BOOLEAN,
           notify' \in [Handler -> Notices], Activity!UnreadMeansAway'
    PROVE  ActivityInv'
  BY DEF ActivityInv, ActivityTyped

LEMMA ActivityStep == ActivityInv /\ [Activity!ActivityNext]_(Activity!actVars) => ActivityInv'
<1>. SUFFICES ASSUME ActivityInv, [Activity!ActivityNext]_(Activity!actVars)
              PROVE  ActivityInv'
  OBVIOUS
<1>0. /\ waiting \in BOOLEAN /\ unread \in BOOLEAN /\ rung \in BOOLEAN /\ shown \in BOOLEAN /\ revealing \in BOOLEAN
      /\ notify \in [Handler -> Notices] /\ Activity!UnreadMeansAway
  BY DEF ActivityInv, ActivityTyped
<1>1. ASSUME NEW h \in Handler, NEW g \in 1..MaxGen, NEW value \in {"waiting", "working", "turn-ended"},
             Activity!Attention(h, g, value)
      PROVE  ActivityInv'
  <2>1. /\ waiting' \in BOOLEAN /\ unread' \in BOOLEAN
        /\ UNCHANGED <<generation, setupRuns, lastRun, isRunning, rung, records, shown, revealing>>
    BY <1>0, <1>1, Zenon DEF Activity!Attention
  <2>2. notify' = [notify EXCEPT ![h] = "changed"] \/ notify' = [notify EXCEPT ![h] = "alerted"]
    BY <1>1 DEF Activity!Attention
  <2>3. notify' \in [Handler -> Notices] /\ notify'[h] \in {"changed", "alerted"}
    BY <1>0, <2>2 DEF Notices
  <2>. QED
    BY <1>0, <2>1, <2>3, MarksKeep DEF Activity!UnreadMeansAway
<1>2. ASSUME NEW h \in Handler, Activity!Looks(h)
      PROVE  ActivityInv'
  <2>1. UNCHANGED <<generation, setupRuns, lastRun, isRunning, waiting, unread, rung, records, shown, revealing>>
        /\ notify[h] \in {"changed", "alerted"}
    BY <1>2 DEF Activity!Looks
  <2>2. \E to \in {"seeing", "seeing then ringing", "ringing", "idle"} :
          notify' = [notify EXCEPT ![h] = to] /\ (shown => to \in {"seeing", "seeing then ringing"})
    <3>. DEFINE to == CASE shown /\ notify[h] = "changed" -> "seeing"
                       [] shown /\ notify[h] = "alerted" -> "seeing then ringing"
                       [] ~shown /\ notify[h] = "alerted" -> "ringing"
                       [] OTHER -> "idle"
    <3>1. to \in {"seeing", "seeing then ringing", "ringing", "idle"} /\ (shown => to \in {"seeing", "seeing then ringing"})
      <4>1. CASE shown
        BY <2>1, <4>1
      <4>2. CASE ~shown
        BY <2>1, <4>2
      <4>. QED
        BY <4>1, <4>2
    <3>2. notify' = [notify EXCEPT ![h] = to]
      BY <1>0, <1>2 DEF Activity!Looks
    <3>. HIDE DEF to
    <3>. QED
      BY <3>1, <3>2
  <2>3. notify' \in [Handler -> Notices] /\ (shown => notify'[h] \notin {"idle", "ringing"})
    BY <1>0, <2>2 DEF Notices
  <2>4. Activity!UnreadMeansAway'
    BY <2>1, <2>3 DEF Activity!UnreadMeansAway
  <2>. QED
    BY <1>0, <2>1, <2>3, <2>4, MarksKeep
<1>3. ASSUME NEW h \in Handler, Activity!Sees(h)
      PROVE  ActivityInv'
  <2>1. UNCHANGED <<generation, setupRuns, lastRun, isRunning, waiting, rung, records, shown, revealing>>
        /\ unread' = FALSE /\ notify' = [notify EXCEPT ![h] = IF notify[h] = "seeing" THEN "idle" ELSE "ringing"]
    BY <1>3 DEF Activity!Sees
  <2>2. notify' \in [Handler -> Notices]
    BY <1>0, <2>1 DEF Notices
  <2>3. unread' \in BOOLEAN /\ ~unread'
    BY <2>1, Zenon
  <2>. QED
    BY <1>0, <2>1, <2>2, <2>3, MarksKeep DEF Activity!UnreadMeansAway
<1>4. ASSUME NEW h \in Handler, NEW silent \in BOOLEAN, Activity!Rings(h, silent)
      PROVE  ActivityInv'
  <2>1. UNCHANGED <<generation, setupRuns, lastRun, isRunning, waiting, unread, records, shown, revealing>>
        /\ notify' = [notify EXCEPT ![h] = "idle"] /\ notify[h] = "ringing"
    BY <1>4 DEF Activity!Rings
  <2>2. rung' \in BOOLEAN
    BY <1>4, Zenon DEF Activity!Rings
  <2>3. notify' \in [Handler -> Notices]
    BY <1>0, <2>1 DEF Notices
  <2>4. Activity!UnreadMeansAway'
    BY <1>0, <2>1 DEF Activity!UnreadMeansAway
  <2>. QED
    BY <1>0, <2>1, <2>2, <2>3, <2>4, MarksKeep
<1>5. CASE Activity!Reveal \/ Activity!RevealSees \/ Activity!RevealOther \/ Activity!Input
  <2>1. UNCHANGED <<generation, setupRuns, lastRun, isRunning, records, notify>>
    BY <1>5 DEF Activity!Reveal, Activity!RevealSees, Activity!RevealOther, Activity!Input
  <2>2. /\ waiting' \in BOOLEAN /\ unread' \in BOOLEAN /\ rung' \in BOOLEAN /\ shown' \in BOOLEAN /\ revealing' \in BOOLEAN
        /\ revealing' \/ ~unread' \/ ~shown'
    BY <1>0, <1>5, Zenon DEF Activity!Reveal, Activity!RevealSees, Activity!RevealOther, Activity!Input
  <2>. QED
    BY <1>0, <2>1, <2>2, MarksKeep DEF Activity!UnreadMeansAway
<1>6. CASE UNCHANGED Activity!actVars
  BY <1>6 DEF Activity!actVars, ActivityInv, ActivityTyped, Activity!UnreadMeansAway
<1>. QED
  BY <1>1, <1>2, <1>3, <1>4, <1>5, <1>6, AgentBeginKeeps, ReportKeeps, ExitKeeps, Zenon DEF Activity!ActivityNext

LEMMA ActivityShows == ActivityInv => Activity!ActivityTypeOK /\ Activity!TreeIsWhole /\ Activity!UnreadMeansAway
<1>. SUFFICES ASSUME ActivityInv
              PROVE  Activity!ActivityTypeOK /\ Activity!TreeIsWhole /\ Activity!UnreadMeansAway
  OBVIOUS
<1>1. Activity!ActivityTypeOK
  <2>1. {isRunning, waiting, unread, rung, shown, revealing} \subseteq BOOLEAN
    BY Zenon DEF ActivityInv, ActivityTyped
  <2>. QED
    BY <2>1, ActivityBounds DEF ActivityInv, ActivityTyped, Activity!ActivityTypeOK
<1>2. Activity!TreeIsWhole
  BY DEF ActivityInv, Whole, LiveIn, Activity!TreeIsWhole
<1>. QED
  BY <1>1, <1>2 DEF ActivityInv

-----------------------------------------------------------------------------
(* The tabs.  What a goroutine is about to do with a tab stays right while      *)
(* others open, move and close tabs: an opening that looked for its file first  *)
(* has sourceMu, a tab on its way out is no overview, and what a stop has       *)
(* listed belongs to a session that takes no more tabs.                         *)

opened == v1
tabSeq == v2
selected == v3
shut == v4
allShut == v5
sourceBy == v6
tabRunning == v7
ending == v8
strip == v9
doing == v10
USE DEF opened, tabSeq, selected, shut, allShut, sourceBy, tabRunning, ending, strip, doing

\* An opening that found no tab with its file, and a call that discards the tab it has.
Opening(d) == d.at = "spawn" \/ d.then = "spawn"
Discards(d) == d.at \in {"launch", "discard"} \/ d.then = "launch"

Overviews(id) == opened[id].opt.kind = "overview"

Fits(c, d) ==
    /\ d \in Tabs!Step
    /\ d.id \in 0..tabSeq /\ d.left \subseteq 1..tabSeq
    /\ Opening(d) => /\ sourceBy = {c} /\ d.opt \in Option /\ d.opt.source # NoSource
                     /\ \A id \in DOMAIN opened : opened[id].owner = d.to => opened[id].opt.source # d.opt.source
    /\ Discards(d) => d.id \notin DOMAIN opened \/ ~Overviews(d.id)
    /\ d.left = {} \/ d.at = "sweep" \/ (d.then = "sweep" /\ d.at \in {"kill", "take", "emit"})
    /\ d.at = "list" => IF d.opt = Tabs!AllTabs THEN allShut ELSE d.to \in shut
    /\ \A id \in d.left : id \in DOMAIN opened => Tabs!Closed(opened[id].owner)

Busy(c) == doing[c] = Tabs!Idle \/ Fits(c, doing[c])

OpenTabsTyped ==
    /\ tabSeq \in 0..MaxTabs
    /\ DOMAIN opened \subseteq 1..tabSeq
    /\ \A id \in DOMAIN opened : opened[id] \in Tabs!Tab /\ opened[id].order \in 1..tabSeq
    /\ selected \in [Owner -> Tabs!TabId \cup {0}]

\* No two tabs of a session have one order value.
OrdersApart ==
    \A v, w \in DOMAIN opened :
        opened[v].owner = opened[w].owner /\ opened[v].order = opened[w].order => v = w

StripInv == OpenTabsTyped /\ OrdersApart /\ Tabs!StripIsSound

GatesTyped ==
    /\ shut \subseteq Owner /\ allShut \in BOOLEAN
    /\ sourceBy = {} \/ \E c \in Routine : sourceBy = {c}
    /\ DOMAIN strip = Owner
    /\ doing \in [Routine -> {Tabs!Idle} \cup Tabs!Step]

ProcessesInv ==
    /\ tabRunning \subseteq 1..tabSeq /\ ending \subseteq 1..tabSeq
    /\ \A id \in tabRunning : id \in DOMAIN opened => opened[id].started
    /\ Tabs!NoOrphanProcess

TabsInv == StripInv /\ GatesTyped /\ ProcessesInv /\ (\A c \in Routine : Busy(c)) /\ Tabs!StopReachesAll

OptionRecords == [kind : STRING \cup {"overview", "terminal"}, source : STRING \cup {NoSource}, select : BOOLEAN, closes : BOOLEAN]

LEMMA TabsBounds ==
    /\ Owner # {} /\ MaxTabs \in Nat
    /\ Option \subseteq OptionRecords
    /\ \A o \in Option : o.kind \notin {"overview", "one", "all"} /\ o \in Tabs!Opens
    /\ Tabs!Opens \subseteq OptionRecords
    /\ \A o \in Tabs!Opens : o.kind = "overview" => o.source = NoSource /\ ~o.closes
    /\ Tabs!Overview \in Tabs!Opens /\ Tabs!Shell \in Tabs!Opens
    /\ Tabs!OneTab.kind = "one" /\ Tabs!AllTabs.kind = "all" /\ Tabs!OneTab # Tabs!AllTabs
    /\ \A s \in Tabs!Step : s.at # "idle"
<1>1. /\ Owner # {} /\ MaxTabs \in Nat
      /\ Option \subseteq [kind : STRING \ {"overview", "one", "all"}, source : STRING,
                          select : BOOLEAN, closes : BOOLEAN]
  BY PartsAssumption DEF Tabs!TabsAssumption
<1>2. Option \subseteq OptionRecords /\ \A o \in Option : o.kind \notin {"overview", "one", "all"} /\ o \in Tabs!Opens
  BY <1>1 DEF OptionRecords, Tabs!Opens
<1>3. Tabs!Overview \in OptionRecords /\ Tabs!Shell \in OptionRecords
  <2>1. FALSE \in BOOLEAN /\ TRUE \in BOOLEAN /\ NoSource \in STRING \cup {NoSource}
    BY Zenon
  <2>2. "overview" \in STRING \cup {"overview", "terminal"} /\ "terminal" \in STRING \cup {"overview", "terminal"}
    OBVIOUS
  <2>. QED
    BY <2>1, <2>2, Zenon DEF OptionRecords, Tabs!Overview, Tabs!Shell
<1>4. \A o \in Option : [o EXCEPT !.select = FALSE] \in OptionRecords /\ [o EXCEPT !.select = FALSE].kind = o.kind
  BY <1>2 DEF OptionRecords
<1>5. Tabs!Opens \subseteq OptionRecords
  BY <1>2, <1>3, <1>4 DEF Tabs!Opens
<1>6. \A o \in Tabs!Opens : o.kind = "overview" => o = Tabs!Overview
  <2>1. Tabs!Shell.kind = "terminal"
    BY DEF Tabs!Shell
  <2>2. \A o \in Option : o.kind # "overview" /\ [o EXCEPT !.select = FALSE].kind # "overview"
    BY <1>2, <1>4
  <2>. QED
    BY <2>1, <2>2 DEF Tabs!Opens
<1>7. Tabs!Overview.source = NoSource /\ ~Tabs!Overview.closes
  BY DEF Tabs!Overview
<1>8. Tabs!OneTab.kind = "one" /\ Tabs!AllTabs.kind = "all"
  BY DEF Tabs!OneTab, Tabs!AllTabs
<1>9. \A s \in Tabs!Step : s.at # "idle"
  BY DEF Tabs!Step
<1>10. Tabs!Overview \in Tabs!Opens /\ Tabs!Shell \in Tabs!Opens
  BY DEF Tabs!Opens
<1>. QED
  BY <1>1, <1>2, <1>5, <1>6, <1>7, <1>8, <1>9, <1>10

LEMMA TabsInit == Tabs!Init => TabsInv
<1>. SUFFICES ASSUME Tabs!Init PROVE TabsInv
  OBVIOUS
<1>1. /\ opened = << >> /\ tabSeq = 0 /\ shut = {} /\ sourceBy = {} /\ tabRunning = {} /\ ending = {}
      /\ selected = [o \in Owner |-> 0] /\ DOMAIN strip = Owner /\ doing = [c \in Routine |-> Tabs!Idle]
  BY DEF Tabs!Init, Tabs!Free
<1>2. allShut \in BOOLEAN
  <2>1. allShut = FALSE
    BY DEF Tabs!Init
  <2>. QED
    BY <2>1, Zenon
<1>3. DOMAIN opened = {}
  BY <1>1
<1>4. StripInv
  BY <1>1, <1>3, TabsBounds
  DEF StripInv, OpenTabsTyped, OrdersApart, Tabs!StripIsSound, Tabs!SelectionIsOpen, Tabs!OneTabPerSource, Tabs!OwnedIn
<1>5. GatesTyped
  BY <1>1, <1>2 DEF GatesTyped
<1>6. ProcessesInv
  BY <1>1 DEF ProcessesInv, Tabs!NoOrphanProcess
<1>7. Tabs!StopReachesAll
  BY <1>3 DEF Tabs!StopReachesAll
<1>8. \A c \in Routine : Busy(c)
  BY <1>1 DEF Busy
<1>. QED
  BY <1>4, <1>5, <1>6, <1>7, <1>8 DEF TabsInv

\* Tabs that go and tabs that get another state leave the strip sound, and the overview where it is.
LEMMA StripShrinks ==
    ASSUME StripInv, tabSeq' = tabSeq, DOMAIN opened' \subseteq DOMAIN opened,
           \A id \in DOMAIN opened' :
              /\ opened'[id] \in Tabs!Tab
              /\ opened'[id].owner = opened[id].owner /\ opened'[id].opt = opened[id].opt
              /\ opened'[id].order = opened[id].order,
           selected' \in [Owner -> Tabs!TabId \cup {0}], \A o \in Owner : Tabs!SelectionIsOpen(o)',
           \A id \in DOMAIN opened : id \in DOMAIN opened' \/ ~Overviews(id) \/ Tabs!Closed(opened[id].owner)
    PROVE  StripInv' /\ Tabs!LeavesTheOverview
<1>1. OpenTabsTyped'
  BY DEF StripInv, OpenTabsTyped, Tabs!TabId
<1>2. OrdersApart'
  BY DEF StripInv, OrdersApart
<1>3. \A o \in Owner : Tabs!OwnedIn(opened, o)' \subseteq Tabs!OwnedIn(opened, o)
  BY DEF Tabs!OwnedIn
<1>4. \A o \in Owner : Tabs!OneTabPerSource(o)'
  <2>. SUFFICES ASSUME NEW o \in Owner PROVE Tabs!OneTabPerSource(o)'
    OBVIOUS
  <2>1. Tabs!OneTabPerSource(o)
    BY DEF StripInv, Tabs!StripIsSound
  <2>2. \A v \in Tabs!OwnedIn(opened, o)' : opened'[v].opt = opened[v].opt
    BY DEF Tabs!OwnedIn
  <2>. QED
    BY <1>3, <2>1, <2>2 DEF Tabs!OneTabPerSource
<1>5. Tabs!LeavesTheOverview
  <2>. SUFFICES ASSUME NEW o \in Owner, ~Tabs!Closed(o), NEW id \in Tabs!AtLeft(o) PROVE id \in Tabs!AtLeft(o)'
    BY DEF Tabs!LeavesTheOverview
  <2>1. id \in DOMAIN opened /\ opened[id].owner = o /\ Overviews(id)
    BY DEF Tabs!AtLeft, Tabs!OwnedIn, Tabs!Pinned, Overviews
  <2>2. id \in DOMAIN opened' /\ id \in Tabs!OwnedIn(opened, o)'
    BY <2>1 DEF Tabs!OwnedIn
  <2>3. \A v \in Tabs!OwnedIn(opened, o)' : opened'[id].order <= opened'[v].order
    BY <1>3, <2>2 DEF Tabs!AtLeft, Tabs!OwnedIn
  <2>. QED
    BY <2>1, <2>2, <2>3 DEF Tabs!AtLeft, Tabs!Pinned, Overviews
<1>. QED
  BY <1>1, <1>2, <1>4, <1>5 DEF StripInv, Tabs!StripIsSound

\* A tab that is opened comes to the right end, under a source of its own.
LEMMA StripGrows ==
    ASSUME StripInv, NEW o \in Owner, NEW opt \in Tabs!Opens, NEW shell \in BOOLEAN, Tabs!Spawn(o, opt, shell),
           opt.source # NoSource => \A id \in DOMAIN opened : opened[id].owner = o => opened[id].opt.source # opt.source
    PROVE  /\ StripInv' /\ Tabs!LeavesTheOverview
           /\ tabSeq' = tabSeq + 1 /\ tabSeq \in Nat
           /\ DOMAIN opened' = DOMAIN opened \cup {tabSeq + 1} /\ tabSeq + 1 \notin DOMAIN opened
           /\ \A id \in DOMAIN opened : opened'[id] = opened[id]
           /\ opened'[tabSeq + 1].owner = o /\ opened'[tabSeq + 1].opt = opt /\ ~opened'[tabSeq + 1].started
<1>. DEFINE n == tabSeq + 1
            tab == [owner |-> o, opt |-> opt, order |-> n, shell |-> shell,
                    started |-> FALSE, exit |-> "none", busy |-> FALSE]
<1>1. tabSeq \in Nat /\ tabSeq < MaxTabs /\ tabSeq' = n /\ MaxTabs \in Nat /\ n \in Tabs!TabId /\ n \notin DOMAIN opened
  BY TabsBounds DEF StripInv, OpenTabsTyped, Tabs!Spawn, Tabs!TabId
<1>2. /\ tab \in Tabs!Tab /\ tab.owner = o /\ tab.opt = opt /\ tab.order = n /\ tab.started = FALSE
  BY <1>1 DEF Tabs!Tab
<1>3. opened' = [id \in DOMAIN opened \cup {n} |-> IF id \in DOMAIN opened THEN opened[id] ELSE tab]
  BY DEF Tabs!Spawn
<1>. HIDE DEF tab
<1>4. /\ DOMAIN opened' = DOMAIN opened \cup {n} /\ opened'[n] = tab
      /\ \A id \in DOMAIN opened : opened'[id] = opened[id]
  BY <1>1, <1>3
<1>5. selected' = IF opt.select THEN [selected EXCEPT ![o] = n] ELSE selected
  BY DEF Tabs!Spawn
<1>6. selected' \in [Owner -> Tabs!TabId \cup {0}] /\ \A p \in Owner : selected'[p] = selected[p] \/ (p = o /\ selected'[p] = n)
  BY <1>1, <1>5 DEF StripInv, OpenTabsTyped
<1>. HIDE DEF n
<1>6a. \A id \in DOMAIN opened : opened[id].order \in 1..tabSeq /\ opened[id].order # n /\ opened[id].order < n /\ opened[id].order \in 1..n
  BY <1>1 DEF StripInv, OpenTabsTyped, n
<1>7. OpenTabsTyped'
  BY <1>1, <1>2, <1>4, <1>6, <1>6a, TabsBounds DEF StripInv, OpenTabsTyped, Tabs!TabId, n
<1>8. OrdersApart'
  <2>. SUFFICES ASSUME NEW v \in DOMAIN opened', NEW w \in DOMAIN opened', opened'[v].owner = opened'[w].owner,
                       opened'[v].order = opened'[w].order
                PROVE  v = w
    BY DEF OrdersApart
  <2>1. CASE v \in DOMAIN opened /\ w \in DOMAIN opened
    BY <1>4, <2>1 DEF StripInv, OrdersApart
  <2>2. CASE v = n \/ w = n
    BY <1>2, <1>4, <1>6a, <2>2
  <2>. QED
    BY <1>4, <2>1, <2>2
<1>9. \A p \in Owner : Tabs!SelectionIsOpen(p)'
  BY <1>2, <1>4, <1>6 DEF StripInv, Tabs!StripIsSound, Tabs!SelectionIsOpen, Tabs!OwnedIn
<1>10. \A p \in Owner : Tabs!OneTabPerSource(p)'
  <2>. SUFFICES ASSUME NEW p \in Owner, NEW v \in DOMAIN opened', NEW w \in DOMAIN opened',
                       opened'[v].owner = p, opened'[w].owner = p,
                       opened'[v].opt.source = opened'[w].opt.source
                PROVE  v = w \/ opened'[v].opt.source = NoSource
    BY DEF Tabs!OneTabPerSource, Tabs!OwnedIn
  <2>1. CASE v \in DOMAIN opened /\ w \in DOMAIN opened
    BY <1>4, <2>1 DEF StripInv, Tabs!StripIsSound, Tabs!OneTabPerSource, Tabs!OwnedIn
  <2>2. CASE v = n \/ w = n
    BY <1>2, <1>4, <2>2
  <2>. QED
    BY <1>4, <2>1, <2>2
<1>11. Tabs!LeavesTheOverview
  <2>. SUFFICES ASSUME NEW p \in Owner, NEW id \in Tabs!AtLeft(p) PROVE id \in Tabs!AtLeft(p)'
    BY DEF Tabs!LeavesTheOverview
  <2>1. id \in DOMAIN opened /\ opened[id].owner = p /\ opened[id].opt.kind = "overview"
        /\ \A v \in DOMAIN opened : opened[v].owner = p => opened[id].order <= opened[v].order
    BY DEF Tabs!AtLeft, Tabs!OwnedIn, Tabs!Pinned
  <2>2. opened[id].order <= n
    BY <1>6a, <2>1, <1>1 DEF n
  <2>3. \A v \in DOMAIN opened' : opened'[v].owner = p => opened'[id].order <= opened'[v].order
    BY <1>2, <1>4, <2>1, <2>2
  <2>. QED
    BY <1>4, <2>1, <2>3 DEF Tabs!AtLeft, Tabs!OwnedIn, Tabs!Pinned
<1>. QED
  BY <1>1, <1>2, <1>4, <1>7, <1>8, <1>9, <1>10, <1>11 DEF StripInv, Tabs!StripIsSound, n

\* What a step by one goroutine leaves of the tabs, for what the others are about to do.
TabsKept ==
    /\ tabSeq' \in Nat /\ tabSeq <= tabSeq' /\ DOMAIN opened' \subseteq 1..tabSeq'
    /\ \A id \in DOMAIN opened' : id <= tabSeq =>
          id \in DOMAIN opened /\ opened'[id].owner = opened[id].owner /\ opened'[id].opt = opened[id].opt
NewIsItsOwn(c) ==
    \A id \in DOMAIN opened' : id > tabSeq => opened'[id].opt.source = NoSource \/ sourceBy = {c}
GatesKept == shut \subseteq shut' /\ (allShut => allShut')
SourceGiven(c) ==
    sourceBy' = sourceBy \/ sourceBy' = sourceBy \ {c} \/ (sourceBy = {} /\ sourceBy' = {c})

LEMMA OthersFit ==
    ASSUME TabsInv, NEW c \in Routine, TabsKept, NewIsItsOwn(c), GatesKept, SourceGiven(c),
           NEW u \in Routine \ {c}, NEW d, Fits(u, d)
    PROVE  Fits(u, d)'
<1>1. tabSeq \in Nat /\ tabSeq' \in Nat /\ tabSeq <= tabSeq' /\ DOMAIN opened \subseteq 1..tabSeq
  BY TabsBounds DEF TabsInv, StripInv, OpenTabsTyped, TabsKept
<1>2. d.id \in 0..tabSeq /\ d.left \subseteq 1..tabSeq
  BY DEF Fits
<1>3. d.id \in 0..tabSeq' /\ d.left \subseteq 1..tabSeq'
  BY <1>1, <1>2
<1>4. Opening(d) => /\ sourceBy' = {u} /\ d.opt \in Option /\ d.opt.source # NoSource
                    /\ \A id \in DOMAIN opened' : opened'[id].owner = d.to => opened'[id].opt.source # d.opt.source
  <2>. SUFFICES ASSUME Opening(d)
                PROVE  /\ sourceBy' = {u} /\ d.opt \in Option /\ d.opt.source # NoSource
                       /\ \A id \in DOMAIN opened' : opened'[id].owner = d.to => opened'[id].opt.source # d.opt.source
    OBVIOUS
  <2>1. /\ sourceBy = {u} /\ d.opt \in Option /\ d.opt.source # NoSource
        /\ \A id \in DOMAIN opened : opened[id].owner = d.to => opened[id].opt.source # d.opt.source
    BY DEF Fits
  <2>2. sourceBy' = {u} /\ sourceBy # {c}
    BY <2>1 DEF SourceGiven
  <2>3. ASSUME NEW id \in DOMAIN opened', opened'[id].owner = d.to PROVE opened'[id].opt.source # d.opt.source
    <3>1. CASE id > tabSeq
      BY <2>1, <2>2, <2>3, <3>1 DEF NewIsItsOwn
    <3>2. CASE id <= tabSeq
      BY <2>1, <2>3, <3>2 DEF TabsKept
    <3>3. id \in Nat /\ tabSeq \in Nat
      BY <1>1 DEF TabsKept
    <3>. QED
      BY <3>1, <3>2, <3>3
  <2>. QED
    BY <2>1, <2>2, <2>3
<1>5. Discards(d) => d.id \notin DOMAIN opened' \/ ~Overviews(d.id)'
  BY <1>1, <1>2 DEF Fits, TabsKept, Overviews
<1>6. d.at = "list" => IF d.opt = Tabs!AllTabs THEN allShut' ELSE d.to \in shut'
  BY DEF Fits, GatesKept
<1>7. \A id \in d.left : id \in DOMAIN opened' => Tabs!Closed(opened[id].owner)'
  BY <1>1, <1>2 DEF Fits, TabsKept, GatesKept, Tabs!Closed
<1>. QED
  BY <1>3, <1>4, <1>5, <1>6, <1>7 DEF Fits, Opening, Discards

\* What the others are at stays right when one of them goes on to what fits it.
LEMMA EveryoneFits ==
    ASSUME TabsInv, NEW c \in Routine, NEW to, doing' = [doing EXCEPT ![c] = to],
           to = Tabs!Idle \/ Fits(c, to)', TabsKept, NewIsItsOwn(c), GatesKept, SourceGiven(c),
           shut' \subseteq Owner, allShut' \in BOOLEAN, DOMAIN strip' = Owner
    PROVE  GatesTyped' /\ \A u \in Routine : Busy(u)'
<1>1. doing \in [Routine -> {Tabs!Idle} \cup Tabs!Step] /\ to \in {Tabs!Idle} \cup Tabs!Step
  BY DEF TabsInv, GatesTyped, Fits
<1>2. doing' \in [Routine -> {Tabs!Idle} \cup Tabs!Step]
      /\ doing'[c] = to /\ \A u \in Routine \ {c} : doing'[u] = doing[u]
  BY <1>1
<1>3. sourceBy' = {} \/ \E r \in Routine : sourceBy' = {r}
  <2>1. sourceBy = {} \/ \E r \in Routine : sourceBy = {r}
    BY DEF TabsInv, GatesTyped
  <2>. QED
    BY <2>1 DEF SourceGiven
<1>4. GatesTyped'
  BY <1>2, <1>3 DEF GatesTyped
<1>5. Busy(c)'
  BY <1>2 DEF Busy
<1>6. ASSUME NEW u \in Routine \ {c} PROVE Busy(u)'
  <2>1. PICK d : d = doing[u]
    OBVIOUS
  <2>2. d = Tabs!Idle \/ Fits(u, d)
    BY <2>1 DEF TabsInv, Busy
  <2>3. d = Tabs!Idle \/ Fits(u, d)'
    BY <2>2, OthersFit
  <2>4. doing'[u] = d
    BY <1>2, <2>1
  <2>. QED
    BY <2>3, <2>4 DEF Busy
<1>. QED
  BY <1>4, <1>5, <1>6

\* A goroutine stops a tab when it is about to list it, or has it on its list.
Stops(d, id) ==
    d # Tabs!Idle /\ \/ d.at = "list" /\ (d.opt = Tabs!AllTabs \/ d.to = opened[id].owner)
                     \/ id \in d.left

\* Stops reach all as long as nobody lets go of a tab that is still open, and no tab opens late.
LEMMA StopsReach ==
    ASSUME TabsInv, NEW c \in Routine, NEW to, doing' = [doing EXCEPT ![c] = to], TabsKept,
           \A id \in DOMAIN opened' : Tabs!Closed(opened[id].owner)' =>
              \/ /\ id <= tabSeq /\ Tabs!Closed(opened[id].owner)
                 /\ Stops(doing[c], id) => Stops(to, id)'
              \/ Stops(to, id)'
    PROVE  Tabs!StopReachesAll'
<1>. DEFINE S(d, id) == Stops(d, id)
<1>1. doing'[c] = to /\ \A u \in Routine \ {c} : doing'[u] = doing[u]
  BY DEF TabsInv, GatesTyped
<1>. SUFFICES ASSUME NEW id \in DOMAIN opened', Tabs!Closed(opened[id].owner)'
              PROVE  \E u \in Routine : \E d : d = doing'[u] /\ Stops(d, id)'
  BY DEF Tabs!StopReachesAll, Stops, Tabs!At
<1>2. CASE Stops(to, id)'
  BY <1>1, <1>2
<1>3. CASE id <= tabSeq /\ Tabs!Closed(opened[id].owner) /\ (Stops(doing[c], id) => Stops(to, id)')
  <2>1. id \in DOMAIN opened /\ opened'[id].owner = opened[id].owner
    BY <1>3 DEF TabsKept
  <2>2. \E u \in Routine : Stops(doing[u], id)
    BY <1>3, <2>1 DEF TabsInv, Tabs!StopReachesAll, Stops, Tabs!At
  <2>3. PICK u \in Routine : Stops(doing[u], id)
    BY <2>2
  <2>4. PICK d : d = doing[u]
    OBVIOUS
  <2>5. Stops(d, id)'
    BY <2>1, <2>3, <2>4 DEF Stops
  <2>6. CASE u = c
    BY <1>1, <1>3, <2>3, <2>6
  <2>7. CASE u # c
    BY <1>1, <2>4, <2>5, <2>7
  <2>. QED
    BY <2>6, <2>7
<1>. QED
  BY <1>2, <1>3

Nothing(d) == d = Tabs!Idle \/ (d.at # "list" /\ d.left = {})

LEMMA NothingStops == \A d, id : Nothing(d) => ~Stops(d, id)
BY DEF Nothing, Stops

\* Processes keep their tabs when no tab goes and no process starts.
LEMMA ProcessesKept ==
    ASSUME TabsInv, NEW c \in Routine, NEW to, doing' = [doing EXCEPT ![c] = to],
           DOMAIN opened \subseteq DOMAIN opened', \A id \in DOMAIN opened : opened[id].started => opened'[id].started,
           tabRunning' = tabRunning, ending' \subseteq ending, doing[c] = Tabs!Idle \/ doing[c].at # "kill", TabsKept
    PROVE  ProcessesInv'
<1>1. doing'[c] = to /\ \A u \in Routine \ {c} : doing'[u] = doing[u]
  BY DEF TabsInv, GatesTyped
<1>2. tabSeq \in Nat /\ tabSeq' \in Nat /\ tabSeq <= tabSeq'
  BY TabsBounds DEF TabsInv, StripInv, OpenTabsTyped, TabsKept
<1>3. Tabs!Idle.at # "kill"
  BY DEF Tabs!Idle
<1>4. Tabs!NoOrphanProcess'
  BY <1>1, <1>3 DEF TabsInv, ProcessesInv, Tabs!NoOrphanProcess, Tabs!At
<1>5. \A id \in tabRunning' : id \in DOMAIN opened' => opened'[id].started
  <2>. SUFFICES ASSUME NEW id \in tabRunning, id \in DOMAIN opened' PROVE opened'[id].started
    OBVIOUS
  <2>1. id \in 1..tabSeq
    BY DEF TabsInv, ProcessesInv
  <2>2. id \in DOMAIN opened
    BY <1>2, <2>1 DEF TabsKept
  <2>3. opened[id].started
    BY <2>2 DEF TabsInv, ProcessesInv
  <2>. QED
    BY <2>2, <2>3
<1>. QED
  BY <1>2, <1>4, <1>5 DEF TabsInv, ProcessesInv

\* A step that opens no tab late and lets go of none under way keeps it all.
LEMMA TabsStep1 ==
    ASSUME TabsInv, NEW c \in Routine, NEW to, doing' = [doing EXCEPT ![c] = to],
           to = Tabs!Idle \/ Fits(c, to)', StripInv', TabsKept, NewIsItsOwn(c), SourceGiven(c),
           shut' = shut, allShut' = allShut, DOMAIN strip' = Owner,
           DOMAIN opened \subseteq DOMAIN opened', \A id \in DOMAIN opened : opened[id].started => opened'[id].started,
           tabRunning' = tabRunning, ending' \subseteq ending, doing[c] = Tabs!Idle \/ doing[c].at # "kill",
           \A id \in DOMAIN opened' : id <= tabSeq \/ ~Tabs!Closed(opened'[id].owner),
           \/ Nothing(doing[c])
           \/ doing[c] # Tabs!Idle /\ to # Tabs!Idle /\ doing[c].at # "list" /\ doing[c].left \subseteq to.left
    PROVE  TabsInv'
<1>1. shut' \subseteq Owner /\ allShut' \in BOOLEAN /\ GatesKept
  <2>1. shut \subseteq Owner /\ allShut \in BOOLEAN
    BY DEF TabsInv, GatesTyped
  <2>2. allShut' \in BOOLEAN
    BY <2>1, Zenon
  <2>. QED
    BY <2>1, <2>2 DEF GatesKept
<1>2. GatesTyped' /\ \A u \in Routine : Busy(u)'
  BY <1>1, EveryoneFits
<1>3. ProcessesInv'
  BY ProcessesKept
<1>4. \A id \in DOMAIN opened' : Tabs!Closed(opened[id].owner)' =>
              /\ id <= tabSeq /\ Tabs!Closed(opened[id].owner)
              /\ Stops(doing[c], id) => Stops(to, id)'
  <2>. SUFFICES ASSUME NEW id \in DOMAIN opened', Tabs!Closed(opened[id].owner)'
                PROVE  /\ id <= tabSeq /\ Tabs!Closed(opened[id].owner)
                       /\ Stops(doing[c], id) => Stops(to, id)'
    OBVIOUS
  <2>1. Tabs!Closed(opened'[id].owner)
    BY DEF Tabs!Closed
  <2>2. id <= tabSeq /\ opened'[id].owner = opened[id].owner
    BY <2>1 DEF TabsKept
  <2>3. CASE Nothing(doing[c])
    BY <2>1, <2>2, <2>3, NothingStops
  <2>4. CASE doing[c] # Tabs!Idle /\ to # Tabs!Idle /\ doing[c].at # "list" /\ doing[c].left \subseteq to.left
    BY <2>1, <2>2, <2>4 DEF Stops
  <2>. QED
    BY <2>3, <2>4
<1>5. Tabs!StopReachesAll'
  BY <1>4, StopsReach
<1>. QED
  BY <1>2, <1>3, <1>5 DEF TabsInv

LEMMA TabsRest ==
    ASSUME TabsInv, UNCHANGED <<opened, tabSeq, selected>>
    PROVE  StripInv' /\ Tabs!LeavesTheOverview /\ TabsKept /\ \A c \in Routine : NewIsItsOwn(c)
<1>1. OpenTabsTyped /\ OpenTabsTyped' /\ tabSeq \in Nat
  BY TabsBounds DEF TabsInv, StripInv, OpenTabsTyped
<1>2. TabsKept /\ \A c \in Routine : NewIsItsOwn(c)
  BY <1>1 DEF OpenTabsTyped, TabsKept, NewIsItsOwn
<1>3. \A o \in Owner : Tabs!SelectionIsOpen(o)'
  BY DEF TabsInv, StripInv, Tabs!StripIsSound, Tabs!SelectionIsOpen, Tabs!OwnedIn
<1>4. StripInv' /\ Tabs!LeavesTheOverview
  BY <1>1, <1>3, StripShrinks DEF TabsInv, OpenTabsTyped
<1>. QED
  BY <1>2, <1>4

\* A goroutine that only goes on keeps the tabs as they are.
LEMMA TabsStep2 ==
    ASSUME TabsInv, NEW c \in Routine, NEW to, doing' = [doing EXCEPT ![c] = to],
           UNCHANGED <<opened, tabSeq, selected, shut, allShut, tabRunning, ending>>,
           to = Tabs!Idle \/ Fits(c, to)', SourceGiven(c), DOMAIN strip' = Owner,
           doing[c] = Tabs!Idle \/ doing[c].at # "kill",
           \/ Nothing(doing[c])
           \/ doing[c] # Tabs!Idle /\ to # Tabs!Idle /\ doing[c].at # "list" /\ doing[c].left \subseteq to.left
    PROVE  TabsInv' /\ Tabs!LeavesTheOverview
<1>1. StripInv' /\ Tabs!LeavesTheOverview /\ TabsKept /\ NewIsItsOwn(c)
  BY TabsRest
<1>2. \A id \in DOMAIN opened' : id <= tabSeq
  BY TabsBounds DEF TabsInv, StripInv, OpenTabsTyped
<1>. QED
  BY <1>1, <1>2, TabsStep1

LEMMA Doing ==
    ASSUME TabsInv, NEW c \in Routine, doing[c] # Tabs!Idle
    PROVE  Fits(c, doing[c]) /\ doing[c] \in Tabs!Step
BY DEF TabsInv, Busy, Fits

LEMMA IdleDoes ==
    ASSUME TabsInv, NEW c \in Routine
    PROVE  /\ Tabs!At(c, "idle") => doing[c] = Tabs!Idle /\ Nothing(doing[c])
           /\ \A s \in {"spawn", "select", "launch", "kill", "take", "emit", "mark", "discard", "list", "sweep"} :
                 Tabs!At(c, s) => doing[c] # Tabs!Idle /\ doing[c] \in Tabs!Step /\ Fits(c, doing[c])
           /\ DOMAIN strip = Owner
<1>1. Tabs!Idle.at = "idle"
  BY DEF Tabs!Idle
<1>. QED
  BY <1>1, TabsBounds, Doing DEF TabsInv, GatesTyped, Busy, Fits, Tabs!At, Nothing

Strips == [sel : Tabs!TabId \cup {0}, tabs : SUBSET (Nat \X Tabs!TabId \X Tabs!Status)]

LEMMA SurfacesTyped ==
    ASSUME TabsInv, NEW o \in Owner
    PROVE  Tabs!Surfaces(o) \in Strips
<1>. DEFINE own == Tabs!OwnedIn(opened, o)
            drawn == {<<Tabs!Place(id), id, Tabs!TabStatus(opened[id])>> : id \in own}
<1>1. tabSeq \in Nat /\ DOMAIN opened \subseteq 1..tabSeq /\ tabSeq <= MaxTabs /\ MaxTabs \in Nat
  BY TabsBounds DEF TabsInv, StripInv, OpenTabsTyped
<1>2. IsFiniteSet(1..tabSeq)
  BY <1>1, FS_Interval
<1>3. ASSUME NEW id \in own PROVE <<Tabs!Place(id), id, Tabs!TabStatus(opened[id])>> \in Nat \X Tabs!TabId \X Tabs!Status
  <2>. DEFINE before == {v \in Tabs!OwnedIn(opened, opened[id].owner) : opened[v].order <= opened[id].order}
  <2>1. before \subseteq 1..tabSeq
    BY <1>1 DEF Tabs!OwnedIn
  <2>2. IsFiniteSet(before)
    BY <1>2, <2>1, FS_Subset
  <2>3. Cardinality(before) \in Nat
    BY <2>2, FS_CardinalityType
  <2>4. Tabs!Place(id) \in Nat
    <3>1. Tabs!Place(id) = Cardinality(before)
      BY Zenon DEF Tabs!Place, Tabs!Cardinality, Cardinality
    <3>. QED
      BY <2>3, <3>1
  <2>5. id \in Tabs!TabId /\ opened[id] \in Tabs!Tab
    BY <1>1 DEF TabsInv, StripInv, OpenTabsTyped, Tabs!OwnedIn, Tabs!TabId
  <2>6. Tabs!TabStatus(opened[id]) \in Tabs!Status
    <3>. DEFINE w == opened[id]
    <3>1. w.shell \in BOOLEAN /\ w.busy \in BOOLEAN /\ w.exit \in {"none", "ok", "failed"}
      BY <2>5 DEF Tabs!Tab
    <3>. HIDE DEF w
    <3>2. Tabs!TabStatus(w) \in Tabs!Status
      BY <3>1 DEF Tabs!TabStatus, Tabs!Status
    <3>. QED
      BY <3>2 DEF w
  <2>. QED
    BY <2>4, <2>5, <2>6
<1>4. drawn \in SUBSET (Nat \X Tabs!TabId \X Tabs!Status)
  <2>. HIDE DEF own
  <2>. SUFFICES ASSUME NEW x \in drawn PROVE x \in Nat \X Tabs!TabId \X Tabs!Status
    OBVIOUS
  <2>. QED
    BY <1>3
<1>5. selected[o] \in Tabs!TabId \cup {0}
  BY DEF TabsInv, StripInv, OpenTabsTyped
<1>6. Tabs!Surfaces(o) = [sel |-> selected[o], tabs |-> drawn]
  BY DEF Tabs!Surfaces
<1>. HIDE DEF drawn
<1>. QED
  BY <1>4, <1>5, <1>6 DEF Strips

LEMMA TakeStripKeeps ==
    ASSUME TabsInv, NEW c \in Routine, Tabs!TakeStrip(c) PROVE TabsInv' /\ Tabs!LeavesTheOverview
<1>. DEFINE d == doing[c]
            drawn == Tabs!Surfaces(d.to)
            next == [d EXCEPT !.at = "emit", !.snap = drawn]
<1>1. d.at = "take" /\ d # Tabs!Idle /\ d \in Tabs!Step /\ Fits(c, d)
  BY IdleDoes DEF Tabs!TakeStrip, Tabs!At
<1>2. drawn \in Strips
  BY <1>1, SurfacesTyped DEF Tabs!Step
<1>3. /\ UNCHANGED <<opened, tabSeq, selected, shut, allShut, sourceBy, tabRunning, ending, strip>>
      /\ doing' = [doing EXCEPT ![c] = next]
  BY DEF Tabs!TakeStrip, Tabs!Become
<1>. HIDE DEF drawn
<1>4. next \in Tabs!Step /\ next.at = "emit" /\ next.then = d.then /\ next.to = d.to /\ next.id = d.id
      /\ next.opt = d.opt /\ next.left = d.left
  BY <1>1, <1>2 DEF Tabs!Step, Strips
<1>5. PICK to : to = next
  OBVIOUS
<1>. HIDE DEF next
<1>. HIDE DEF d
<1>6. Fits(c, to)
  BY <1>1, <1>4, <1>5 DEF Fits, Opening, Discards
<1>7. Fits(c, to)'
  BY <1>3, <1>6 DEF Fits, Overviews, Tabs!Closed
<1>8. to # Tabs!Idle /\ to.left = d.left
  BY <1>4, <1>5, TabsBounds DEF Tabs!Idle
<1>. QED
  BY <1>1, <1>3, <1>5, <1>7, <1>8, IdleDoes, TabsStep2 DEF SourceGiven, d

LEMMA EmitStripKeeps ==
    ASSUME TabsInv, NEW c \in Routine, Tabs!EmitStrip(c) PROVE TabsInv' /\ Tabs!LeavesTheOverview
<1>. DEFINE d == doing[c]
            next == [d EXCEPT !.at = d.then, !.snap = Tabs!Blank]
<1>1. d.at = "emit" /\ d # Tabs!Idle /\ d \in Tabs!Step /\ Fits(c, d)
  BY IdleDoes DEF Tabs!EmitStrip, Tabs!At
<1>2. UNCHANGED <<opened, tabSeq, selected, shut, allShut, tabRunning, ending>> /\ DOMAIN strip' = Owner
  BY IdleDoes DEF Tabs!EmitStrip
<1>3. CASE d.then = "return"
  <2>1. doing' = [doing EXCEPT ![c] = Tabs!Idle] /\ sourceBy' = sourceBy \ {c}
    BY <1>3 DEF Tabs!EmitStrip, Tabs!Return, Tabs!Become
  <2>2. Nothing(d)
    BY <1>1, <1>3 DEF Fits, Nothing
  <2>. QED
    BY <1>1, <1>2, <2>1, <2>2, TabsStep2 DEF SourceGiven
<1>4. CASE d.then # "return"
  <2>1. doing' = [doing EXCEPT ![c] = next]
        /\ sourceBy' = IF d.then = "launch" THEN sourceBy \ {c} ELSE sourceBy
    BY <1>4 DEF Tabs!EmitStrip, Tabs!Become
  <2>2. Tabs!Blank \in Strips
    BY DEF Tabs!Blank, Strips
  <2>. HIDE DEF d
  <2>3. next \in Tabs!Step /\ next.at = d.then /\ next.then = d.then /\ next.to = d.to /\ next.id = d.id
        /\ next.opt = d.opt /\ next.left = d.left /\ d.then \in {"spawn", "select", "launch", "sweep"}
    BY <1>1, <1>4, <2>2 DEF Tabs!Step, Strips
  <2>5. PICK to : to = next
    OBVIOUS
  <2>. HIDE DEF next
  <2>6. Fits(c, to)
    BY <1>1, <2>3, <2>5 DEF Fits, Opening, Discards
  <2>6a. Opening(to) => sourceBy' = {c}
    BY <2>1, <2>3, <2>5, <2>6 DEF Fits, Opening
  <2>7. Fits(c, to)'
    BY <1>2, <2>6, <2>6a DEF Fits, Overviews, Tabs!Closed
  <2>8. to # Tabs!Idle /\ to.left = d.left
    BY <2>3, <2>5, TabsBounds DEF Tabs!Idle
  <2>9. SourceGiven(c)
    BY <2>1 DEF SourceGiven
  <2>. QED
    BY <1>1, <1>2, <2>1, <2>5, <2>7, <2>8, <2>9, TabsStep2 DEF d
<1>. QED
  BY <1>3, <1>4

\* Of some tabs one is leftmost and one is rightmost.
LEMMA OutermostTabs ==
    ASSUME StripInv, NEW S, S \subseteq DOMAIN opened, S # {}
    PROVE  /\ \E v \in S : \A u \in S : opened[v].order <= opened[u].order
           /\ \E v \in S : \A u \in S : opened[u].order <= opened[v].order
<1>. DEFINE up == {opened[v].order : v \in S}
            down == {tabSeq - opened[v].order : v \in S}
<1>1. tabSeq \in Nat /\ \A v \in S : opened[v].order \in 1..tabSeq
  BY TabsBounds DEF StripInv, OpenTabsTyped
<1>2. up \subseteq -1..tabSeq /\ up # {} /\ down \subseteq -1..tabSeq /\ down # {}
  BY <1>1
<1>3. PICK h \in up : \A k \in up : h >= k
  BY <1>1, <1>2, GreatestIs
<1>4. PICK l \in down : \A k \in down : l >= k
  BY <1>1, <1>2, GreatestIs
<1>5. PICK v \in S : h = opened[v].order
  BY <1>3
<1>6. PICK w \in S : l = tabSeq - opened[w].order
  BY <1>4
<1>7. \A u \in S : opened[u].order <= opened[v].order
  <2>. TAKE u \in S
  <2>1. opened[u].order \in up
    OBVIOUS
  <2>. QED
    BY <1>1, <1>3, <1>5, <2>1
<1>8. \A u \in S : opened[w].order <= opened[u].order
  <2>. TAKE u \in S
  <2>1. tabSeq - opened[u].order \in down
    OBVIOUS
  <2>. QED
    <3>1. l >= tabSeq - opened[u].order
      BY <1>4, <2>1
    <3>2. opened[u].order \in Int /\ opened[w].order \in Int
      BY <1>1
    <3>. QED
      BY <1>1, <1>6, <3>1, <3>2
<1>. QED
  BY <1>7, <1>8

LEMMA LeftmostIs ==
    ASSUME StripInv, NEW tabs, NEW o, DOMAIN tabs \subseteq DOMAIN opened,
           \A v \in DOMAIN tabs : tabs[v].order = opened[v].order
    PROVE  LET own == Tabs!OwnedIn(tabs, o)
           IN  IF own = {} THEN Tabs!Leftmost(tabs, o) = 0
               ELSE Tabs!Leftmost(tabs, o) \in own
                    /\ \A v \in own : tabs[Tabs!Leftmost(tabs, o)].order <= tabs[v].order
<1>. DEFINE own == Tabs!OwnedIn(tabs, o)
<1>1. own \subseteq DOMAIN tabs
  BY DEF Tabs!OwnedIn
<1>2. CASE own = {}
  BY <1>2 DEF Tabs!Leftmost
<1>3. CASE own # {}
  <2>1. PICK w \in own : \A u \in own : opened[w].order <= opened[u].order
    BY <1>1, <1>3, OutermostTabs
  <2>2. \A v \in own : tabs[w].order <= tabs[v].order
    BY <1>1, <2>1
  <2>3. Tabs!Leftmost(tabs, o) = CHOOSE id \in own : \A v \in own : tabs[id].order <= tabs[v].order
    BY <1>3 DEF Tabs!Leftmost
  <2>. HIDE DEF own
  <2>4. Tabs!Leftmost(tabs, o) \in own /\ \A v \in own : tabs[Tabs!Leftmost(tabs, o)].order <= tabs[v].order
    BY <2>2, <2>3
  <2>. QED
    BY <1>3, <2>4 DEF own
<1>. QED
  BY <1>2, <1>3

\* A tab that is discarded takes no other with it, and its process is stopped next.
LEMMA DiscardingKeeps ==
    ASSUME TabsInv, NEW c \in Routine, NEW id \in DOMAIN opened, NEW then \in {"spawn", "return", "sweep"},
           NEW opt \in Tabs!Opens \cup {Tabs!OneTab, Tabs!AllTabs}, NEW left \in SUBSET (1..tabSeq),
           Tabs!Discarding(c, id, then, opt, left),
           UNCHANGED <<tabSeq, shut, allShut, tabRunning, ending, strip>>, SourceGiven(c),
           ~Overviews(id) \/ Tabs!Closed(opened[id].owner),
           then = "spawn" =>
              /\ sourceBy' = {c} /\ opt \in Option /\ opt.source # NoSource
              /\ \A v \in DOMAIN opened \ {id} :
                    opened[v].owner = opened[id].owner => opened[v].opt.source # opt.source,
           left # {} => then = "sweep",
           \A v \in left : v \in DOMAIN opened => Tabs!Closed(opened[v].owner),
           doing[c] = Tabs!Idle \/ doing[c].at # "kill",
           \/ Nothing(doing[c])
           \/ doing[c] # Tabs!Idle /\ doing[c].at # "list" /\ doing[c].left \subseteq left \cup {id}
    PROVE  TabsInv' /\ Tabs!LeavesTheOverview
<1>. DEFINE o == opened[id].owner
            rest == DOMAIN opened \ {id}
            gone == Restrict(opened, rest)
            next == [at |-> IF opened[id].started THEN "kill" ELSE "take", then |-> then,
                     to |-> o, id |-> id, opt |-> opt, snap |-> Tabs!Blank, left |-> left]
<1>1. /\ OpenTabsTyped /\ StripInv /\ tabSeq \in 0..MaxTabs /\ MaxTabs \in Nat /\ DOMAIN opened \subseteq 1..tabSeq
      /\ opened[id] \in Tabs!Tab /\ o \in Owner
  BY TabsBounds DEF TabsInv, StripInv, OpenTabsTyped, Tabs!Tab
<1>2. opened' = gone /\ doing' = [doing EXCEPT ![c] = next]
      /\ selected' = IF selected[o] # id THEN selected ELSE [selected EXCEPT ![o] = Tabs!Leftmost(gone, o)]
  BY DEF Tabs!Discarding, Tabs!TakeOff, Tabs!Become, Restrict, Tabs!Restrict
<1>3. DOMAIN gone = rest /\ \A v \in rest : gone[v] = opened[v]
  BY DEF Restrict
<1>. HIDE DEF gone
<1>4. Tabs!Leftmost(gone, o) = 0 \/ Tabs!Leftmost(gone, o) \in Tabs!OwnedIn(gone, o)
  BY <1>1, <1>3, LeftmostIs
<1>5. Tabs!OwnedIn(gone, o) \subseteq Tabs!TabId
  BY <1>1, <1>3 DEF Tabs!OwnedIn, Tabs!TabId
<1>6. selected' \in [Owner -> Tabs!TabId \cup {0}]
  BY <1>1, <1>2, <1>4, <1>5 DEF OpenTabsTyped
<1>7. ASSUME NEW p \in Owner PROVE Tabs!SelectionIsOpen(p)'
  <2>1. Tabs!SelectionIsOpen(p)
    BY DEF TabsInv, StripInv, Tabs!StripIsSound
  <2>2. CASE p # o
    <3>1. selected'[p] = selected[p]
      BY <1>1, <1>2, <2>2 DEF OpenTabsTyped
    <3>. QED
      BY <1>2, <1>3, <2>1, <2>2, <3>1 DEF Tabs!SelectionIsOpen, Tabs!OwnedIn
  <2>3. CASE p = o /\ selected[o] # id
    <3>1. selected'[p] = selected[p]
      BY <1>2, <2>3
    <3>. QED
      BY <1>2, <1>3, <2>1, <2>3, <3>1 DEF Tabs!SelectionIsOpen, Tabs!OwnedIn
  <2>4. CASE p = o /\ selected[o] = id
    <3>1. selected'[p] = Tabs!Leftmost(gone, o)
      BY <1>1, <1>2, <2>4 DEF OpenTabsTyped
    <3>. QED
      BY <1>2, <1>3, <1>4, <2>4, <3>1 DEF Tabs!SelectionIsOpen, Tabs!OwnedIn
  <2>. QED
    BY <2>2, <2>3, <2>4
<1>8. \A v \in DOMAIN opened' : v \in DOMAIN opened /\ opened'[v] = opened[v] /\ v # id
  BY <1>2, <1>3
<1>9. StripInv' /\ Tabs!LeavesTheOverview
  <2>1. \A v \in DOMAIN opened : v \in DOMAIN opened' \/ ~Overviews(v) \/ Tabs!Closed(opened[v].owner)
    BY <1>2, <1>3
  <2>2. \A v \in DOMAIN opened' : opened'[v] \in Tabs!Tab
    BY <1>1, <1>8 DEF OpenTabsTyped
  <2>. QED
    BY <1>1, <1>6, <1>7, <1>8, <2>1, <2>2, StripShrinks
<1>10. TabsKept /\ NewIsItsOwn(c)
  BY <1>1, <1>8 DEF TabsKept, NewIsItsOwn
<1>11. next \in Tabs!Step
  <2>1. Tabs!Blank \in Strips
    BY DEF Tabs!Blank, Strips
  <2>2. id \in Tabs!TabId \cup {0} /\ left \in SUBSET Tabs!TabId
    BY <1>1 DEF Tabs!TabId
  <2>. QED
    BY <1>1, <2>1, <2>2 DEF Tabs!Step, Strips
<1>12. /\ next.at \in {"kill", "take"} /\ (next.at = "kill" <=> opened[id].started) /\ next.then = then
       /\ next.to = o /\ next.id = id /\ next.opt = opt /\ next.left = left
  OBVIOUS
<1>. HIDE DEF next
<1>13. PICK to : to = next
  OBVIOUS
<1>14. Fits(c, to)'
  <2>1. to.id \in 0..tabSeq' /\ to.left \subseteq 1..tabSeq'
    BY <1>1, <1>12, <1>13
  <2>2. Opening(to) => /\ sourceBy' = {c} /\ to.opt \in Option /\ to.opt.source # NoSource
                       /\ \A v \in DOMAIN opened' : opened'[v].owner = to.to => opened'[v].opt.source # to.opt.source
    BY <1>8, <1>12, <1>13 DEF Opening
  <2>3. ~Discards(to)
    BY <1>12, <1>13 DEF Discards
  <2>4. \A v \in to.left : v \in DOMAIN opened' => Tabs!Closed(opened[v].owner)'
    BY <1>8, <1>12, <1>13 DEF Tabs!Closed
  <2>. QED
    BY <1>11, <1>12, <1>13, <2>1, <2>2, <2>3, <2>4 DEF Fits
<1>15. to # Tabs!Idle
  BY <1>12, <1>13 DEF Tabs!Idle
<1>16. GatesTyped' /\ \A u \in Routine : Busy(u)'
  <2>1. shut' \subseteq Owner /\ DOMAIN strip' = Owner /\ GatesKept
    BY DEF TabsInv, GatesTyped, GatesKept
  <2>2. allShut' \in BOOLEAN
    <3>1. allShut \in BOOLEAN
      BY DEF TabsInv, GatesTyped
    <3>. QED
      BY <3>1, Zenon
  <2>. QED
    BY <1>2, <1>10, <1>13, <1>14, <2>1, <2>2, EveryoneFits
<1>17. Tabs!StopReachesAll'
  <2>. SUFFICES ASSUME NEW v \in DOMAIN opened', Tabs!Closed(opened[v].owner)'
                PROVE  /\ v <= tabSeq /\ Tabs!Closed(opened[v].owner)
                       /\ Stops(doing[c], v) => Stops(to, v)'
    BY <1>2, <1>10, <1>13, StopsReach
  <2>1. v <= tabSeq /\ Tabs!Closed(opened[v].owner) /\ v # id
    BY <1>1, <1>8 DEF Tabs!Closed
  <2>2. CASE Nothing(doing[c])
    BY <2>1, <2>2, NothingStops
  <2>3. CASE doing[c] # Tabs!Idle /\ doing[c].at # "list" /\ doing[c].left \subseteq left \cup {id}
    BY <1>12, <1>13, <1>15, <2>1, <2>3 DEF Stops
  <2>. QED
    BY <2>1, <2>2, <2>3
<1>18. ProcessesInv'
  <2>1. doing'[c] = to /\ \A u \in Routine \ {c} : doing'[u] = doing[u]
    BY <1>2, <1>13 DEF TabsInv, GatesTyped
  <2>2. Tabs!Idle.at # "kill"
    BY DEF Tabs!Idle
  <2>3. Tabs!NoOrphanProcess'
    <3>. SUFFICES ASSUME NEW v \in tabRunning', v \notin DOMAIN opened'
                  PROVE  \E u \in Routine : doing'[u].at = "kill" /\ doing'[u].id = v
      BY DEF Tabs!NoOrphanProcess, Tabs!At
    <3>1. CASE v = id
      <4>1. opened[id].started
        BY <3>1 DEF TabsInv, ProcessesInv
      <4>. QED
        BY <1>12, <1>13, <2>1, <3>1, <4>1
    <3>2. CASE v # id
      <4>1. v \notin DOMAIN opened
        BY <1>2, <1>3, <3>2
      <4>2. PICK u \in Routine : doing[u].at = "kill" /\ doing[u].id = v
        BY <4>1 DEF TabsInv, ProcessesInv, Tabs!NoOrphanProcess, Tabs!At
      <4>3. u # c
        BY <2>2, <4>2
      <4>. QED
        BY <2>1, <4>2, <4>3
    <3>. QED
      BY <3>1, <3>2
  <2>. QED
    BY <1>8, <2>3 DEF TabsInv, ProcessesInv
<1>. QED
  BY <1>9, <1>16, <1>17, <1>18 DEF TabsInv

\* A tab in the place of another: those on the way give up their order values to their
\* neighbours, one by one.
LEMMA ReorderDeals ==
    ASSUME StripInv, NEW o \in Owner, NEW id \in Tabs!OwnedIn(opened, o), NEW to \in Tabs!OwnedIn(opened, o), id # to,
           NEW w \in Tabs!OwnedIn(opened, o)
    PROVE  LET a == opened[id].order
               b == opened[to].order
               k == opened[w].order
               dealt == opened[Tabs!Dealt(id, to, w)].order
           IN  /\ Tabs!Dealt(id, to, w) \in Tabs!OwnedIn(opened, o)
               /\ w = id => dealt = b
               /\ (k < a /\ k < b) \/ (k > a /\ k > b) => dealt = k
               /\ a < k /\ k <= b => /\ a <= dealt /\ dealt < k
                                     /\ \A u \in Tabs!OwnedIn(opened, o) :
                                           opened[u].order < k => opened[u].order <= dealt
               /\ b <= k /\ k < a => /\ k < dealt /\ dealt <= a
                                     /\ \A u \in Tabs!OwnedIn(opened, o) :
                                           opened[u].order > k => opened[u].order >= dealt
<1>. DEFINE own == Tabs!OwnedIn(opened, o)
            a == opened[id].order
            b == opened[to].order
            k == opened[w].order
            lower == {v \in own : opened[v].order < k}
            upper == {v \in own : opened[v].order > k}
<1>1. /\ own \subseteq DOMAIN opened /\ tabSeq \in Nat
      /\ \A v \in own : opened[v].order \in 1..tabSeq /\ opened[v].owner = o
  BY TabsBounds DEF StripInv, OpenTabsTyped, Tabs!OwnedIn
<1>2. a \in Nat /\ b \in Nat /\ k \in Nat
  BY <1>1
<1>3. w # id => k # a
  BY <1>1 DEF StripInv, OrdersApart
<1>4. CASE w = id
  <2>1. Tabs!Dealt(id, to, w) = to
    BY <1>4 DEF Tabs!Dealt
  <2>. QED
    BY <1>2, <1>4, <2>1
<1>5. CASE w # id /\ a < k /\ k <= b
  <2>1. lower \subseteq DOMAIN opened /\ id \in lower
    BY <1>1, <1>5
  <2>2. PICK v \in lower : \A u \in lower : opened[u].order <= opened[v].order
    BY <2>1, OutermostTabs
  <2>3. Tabs!LeftOf(w) \in own /\ opened[Tabs!LeftOf(w)].order < k
        /\ \A u \in own : opened[u].order < k => opened[u].order <= opened[Tabs!LeftOf(w)].order
    <3>1. opened[w].owner = o
      BY <1>1
    <3>2. Tabs!LeftOf(w) = CHOOSE x \in own : /\ opened[x].order < k
                                              /\ \A u \in own : opened[u].order < k => opened[u].order <= opened[x].order
      BY <3>1 DEF Tabs!LeftOf
    <3>3. v \in own /\ opened[v].order < k /\ \A u \in own : opened[u].order < k => opened[u].order <= opened[v].order
      BY <2>2
    <3>. HIDE DEF own, k
    <3>. QED
      BY <3>2, <3>3
  <2>4. Tabs!Dealt(id, to, w) = Tabs!LeftOf(w)
    BY <1>2, <1>5 DEF Tabs!Dealt
  <2>5. a <= opened[Tabs!LeftOf(w)].order
    BY <1>5, <2>3
  <2>. QED
    BY <1>2, <1>5, <2>3, <2>4, <2>5
<1>6. CASE w # id /\ b <= k /\ k < a
  <2>1. upper \subseteq DOMAIN opened /\ id \in upper
    BY <1>1, <1>2, <1>6
  <2>2. PICK v \in upper : \A u \in upper : opened[v].order <= opened[u].order
    BY <2>1, OutermostTabs
  <2>3. Tabs!RightOf(w) \in own /\ opened[Tabs!RightOf(w)].order > k
        /\ \A u \in own : opened[u].order > k => opened[u].order >= opened[Tabs!RightOf(w)].order
    <3>1. opened[w].owner = o
      BY <1>1
    <3>2. Tabs!RightOf(w) = CHOOSE x \in own : /\ opened[x].order > k
                                               /\ \A u \in own : opened[u].order > k => opened[u].order >= opened[x].order
      BY <3>1 DEF Tabs!RightOf
    <3>3. v \in own /\ opened[v].order > k /\ \A u \in own : opened[u].order > k => opened[u].order >= opened[v].order
      BY <1>1, <2>2
    <3>. HIDE DEF own, k
    <3>. QED
      BY <3>2, <3>3
  <2>4. Tabs!Dealt(id, to, w) = Tabs!RightOf(w)
    BY <1>2, <1>6 DEF Tabs!Dealt
  <2>5. opened[Tabs!RightOf(w)].order <= a
    BY <1>1, <1>2, <1>6, <2>3
  <2>6. k < opened[Tabs!RightOf(w)].order
    BY <1>1, <1>2, <2>3
  <2>. QED
    BY <1>2, <1>6, <2>3, <2>4, <2>5, <2>6
<1>7. CASE w # id /\ ~(a < k /\ k <= b) /\ ~(b <= k /\ k < a)
  <2>1. Tabs!Dealt(id, to, w) = w
    BY <1>7 DEF Tabs!Dealt
  <2>. QED
    BY <1>7, <2>1
<1>. QED
  BY <1>4, <1>5, <1>6, <1>7

LEMMA ReorderStrip ==
    ASSUME StripInv, NEW c, NEW o \in Owner, NEW id \in DOMAIN opened, NEW to \in DOMAIN opened, Tabs!Reorder(c, o, id, to)
    PROVE  /\ StripInv' /\ Tabs!LeavesTheOverview
           /\ DOMAIN opened' = DOMAIN opened
           /\ \A w \in DOMAIN opened : /\ opened'[w].owner = opened[w].owner /\ opened'[w].opt = opened[w].opt
                                       /\ opened'[w].started = opened[w].started
<1>. DEFINE own == Tabs!OwnedIn(opened, o)
            a == opened[id].order
            b == opened[to].order
            new(w) == opened[Tabs!Dealt(id, to, w)].order
<1>1. /\ id \in own /\ to \in own /\ id # to /\ ~Overviews(id)
      /\ ~(to = Tabs!Leftmost(opened, o) /\ Overviews(to))
      /\ UNCHANGED <<tabSeq, selected>>
      /\ opened' = [w \in DOMAIN opened |->
            IF w \notin own THEN opened[w] ELSE [opened[w] EXCEPT !.order = new(w)]]
  BY DEF Tabs!Reorder, Tabs!Pinned, Overviews
<1>2. /\ own \subseteq DOMAIN opened /\ tabSeq \in Nat /\ tabSeq <= MaxTabs /\ MaxTabs \in Nat
      /\ \A v \in DOMAIN opened : opened[v].order \in 1..tabSeq /\ opened[v] \in Tabs!Tab
      /\ \A v \in DOMAIN opened : opened[v].owner = o <=> v \in own
  BY TabsBounds DEF StripInv, OpenTabsTyped, Tabs!OwnedIn
<1>3. \A w \in own : /\ Tabs!Dealt(id, to, w) \in own
                     /\ w = id => new(w) = b
                     /\ (opened[w].order < a /\ opened[w].order < b) \/ (opened[w].order > a /\ opened[w].order > b)
                           => new(w) = opened[w].order
                     /\ a < opened[w].order /\ opened[w].order <= b =>
                           /\ a <= new(w) /\ new(w) < opened[w].order
                           /\ \A u \in own : opened[u].order < opened[w].order => opened[u].order <= new(w)
                     /\ b <= opened[w].order /\ opened[w].order < a =>
                           /\ opened[w].order < new(w) /\ new(w) <= a
                           /\ \A u \in own : opened[u].order > opened[w].order => opened[u].order >= new(w)
  BY <1>1, ReorderDeals
<1>4. \A w \in own : new(w) \in 1..tabSeq
  BY <1>2, <1>3
<1>. HIDE DEF new
<1>5. \A w \in DOMAIN opened :
        /\ opened'[w] \in Tabs!Tab
        /\ opened'[w].owner = opened[w].owner /\ opened'[w].opt = opened[w].opt /\ opened'[w].started = opened[w].started
        /\ opened'[w].order = IF w \in own THEN new(w) ELSE opened[w].order
  <2>. TAKE w \in DOMAIN opened
  <2>1. CASE w \notin own
    BY <1>1, <1>2, <2>1
  <2>2. CASE w \in own
    <3>1. new(w) \in Tabs!TabId
      BY <1>2, <1>4, <2>2 DEF Tabs!TabId
    <3>2. opened'[w] = [opened[w] EXCEPT !.order = new(w)]
      BY <1>1, <2>2
    <3>3. opened[w] \in Tabs!Tab
      BY <1>2
    <3>. QED
      BY <2>2, <3>1, <3>2, <3>3 DEF Tabs!Tab
  <2>. QED
    BY <2>1, <2>2
<1>6. DOMAIN opened' = DOMAIN opened
  BY <1>1
<1>7. a \in Nat /\ b \in Nat /\ a # b /\ \A v, w \in own : opened[v].order = opened[w].order => v = w
  BY <1>1, <1>2 DEF StripInv, OrdersApart
<1>8. OpenTabsTyped'
  BY <1>1, <1>2, <1>4, <1>5, <1>6 DEF StripInv, OpenTabsTyped
<1>9. OrdersApart'
  <2>. SUFFICES ASSUME NEW v \in DOMAIN opened, NEW w \in DOMAIN opened, opened'[v].owner = opened'[w].owner,
                       opened'[v].order = opened'[w].order, v # w
                PROVE  FALSE
    BY <1>6 DEF OrdersApart
  <2>1. CASE v \notin own
    <3>1. w \notin own
      BY <1>2, <1>5, <2>1
    <3>. QED
      BY <1>5, <2>1, <3>1 DEF StripInv, OrdersApart
  <2>2. CASE v \in own
    <3>1. w \in own /\ new(v) = new(w)
      BY <1>2, <1>5, <2>2
    <3>2. opened[v].order \in Nat /\ opened[w].order \in Nat /\ new(v) \in Nat /\ new(w) \in Nat
          /\ opened[v].order # opened[w].order
      BY <1>2, <1>4, <1>7, <2>2, <3>1
    <3>3. /\ v # id => opened[v].order # a
          /\ w # id => opened[w].order # a
      BY <1>1, <1>7, <2>2, <3>1
    <3>4. CASE opened[v].order < opened[w].order
      BY <1>3, <1>7, <2>2, <3>1, <3>2, <3>3, <3>4
    <3>5. CASE opened[w].order < opened[v].order
      BY <1>3, <1>7, <2>2, <3>1, <3>2, <3>3, <3>5
    <3>. QED
      BY <3>2, <3>4, <3>5
  <2>. QED
    BY <2>1, <2>2
<1>10. \A p \in Owner : Tabs!SelectionIsOpen(p)' /\ Tabs!OneTabPerSource(p)'
  BY <1>1, <1>5, <1>6 DEF StripInv, Tabs!StripIsSound, Tabs!SelectionIsOpen, Tabs!OneTabPerSource, Tabs!OwnedIn
<1>11. Tabs!LeavesTheOverview
  <2>. SUFFICES ASSUME NEW p \in Owner, NEW x \in Tabs!AtLeft(p) PROVE x \in Tabs!AtLeft(p)'
    BY DEF Tabs!LeavesTheOverview
  <2>1. x \in DOMAIN opened /\ opened[x].owner = p /\ Overviews(x)
        /\ \A v \in DOMAIN opened : opened[v].owner = p => opened[x].order <= opened[v].order
    BY DEF Tabs!AtLeft, Tabs!OwnedIn, Tabs!Pinned, Overviews
  <2>2. CASE p # o
    BY <1>2, <1>5, <1>6, <2>1, <2>2 DEF Tabs!AtLeft, Tabs!OwnedIn, Tabs!Pinned, Overviews
  <2>3. CASE p = o
    <3>1. x \in own /\ x # id /\ \A v \in own : opened[x].order <= opened[v].order
      BY <1>1, <1>2, <2>1, <2>3
    <3>2. Tabs!Leftmost(opened, o) = x
      <4>1. Tabs!Leftmost(opened, o) \in own /\ \A v \in own : opened[Tabs!Leftmost(opened, o)].order <= opened[v].order
        BY <3>1, LeftmostIs
      <4>. QED
        BY <1>2, <1>7, <3>1, <4>1
    <3>3. x # to
      BY <1>1, <2>1, <3>2
    <3>4. opened[x].order < a /\ opened[x].order < b
      BY <1>1, <1>2, <1>7, <3>1, <3>3
    <3>5. opened'[x].order = opened[x].order
      BY <1>3, <1>5, <2>1, <3>1, <3>4
    <3>6. \A v \in own : opened'[v].order \in {opened[u].order : u \in own}
      BY <1>2, <1>3, <1>5 DEF new
    <3>7. \A v \in own : opened'[x].order <= opened'[v].order
      BY <3>1, <3>5, <3>6
    <3>. QED
      BY <1>2, <1>5, <1>6, <2>1, <2>3, <3>7 DEF Tabs!AtLeft, Tabs!OwnedIn, Tabs!Pinned, Overviews
  <2>. QED
    BY <2>2, <2>3
<1>. QED
  BY <1>5, <1>6, <1>8, <1>9, <1>10, <1>11 DEF StripInv, Tabs!StripIsSound

LEMMA CallIs ==
    ASSUME TabsInv, NEW step \in {"spawn", "select", "take", "mark", "discard", "list"}, NEW o \in Owner,
           NEW id \in 0..tabSeq, NEW opt \in Tabs!Opens \cup {Tabs!OneTab, Tabs!AllTabs},
           NEW d, d = Tabs!Call(step, o, id, opt)
    PROVE  /\ d \in Tabs!Step /\ d # Tabs!Idle
           /\ d.at = step /\ d.then = "return" /\ d.to = o /\ d.id = id /\ d.opt = opt /\ d.left = {}
<1>1. Tabs!Blank \in Strips /\ id \in Tabs!TabId \cup {0}
  <2>1. tabSeq \in Nat /\ tabSeq <= MaxTabs /\ MaxTabs \in Nat
    BY TabsBounds DEF TabsInv, StripInv, OpenTabsTyped
  <2>. QED
    BY <2>1 DEF Tabs!Blank, Strips, Tabs!TabId
<1>2. d \in Tabs!Step
  BY <1>1 DEF Tabs!Call, Tabs!Step, Strips
<1>3. d.at = step /\ d.then = "return" /\ d.to = o /\ d.id = id /\ d.opt = opt /\ d.left = {}
  BY DEF Tabs!Call
<1>4. d # Tabs!Idle
  BY <1>3 DEF Tabs!Idle
<1>. QED
  BY <1>2, <1>3, <1>4

LEMMA CallThen ==
    ASSUME NEW d \in Tabs!Step, NEW then \in {"select", "return"}
    PROVE  LET e == [d EXCEPT !.then = then]
           IN  /\ e \in Tabs!Step
               /\ e.at = d.at /\ e.then = then /\ e.to = d.to /\ e.id = d.id /\ e.opt = d.opt /\ e.left = d.left
BY DEF Tabs!Step

\* A tab opened without selecting it is opened as one of the ways to open a tab.
LEMMA OpensAs ==
    ASSUME NEW opt \in Tabs!Opens
    PROVE  LET as == [opt EXCEPT !.select = FALSE]
           IN  as \in Tabs!Opens /\ as.source = opt.source /\ as.kind = opt.kind
<1>. DEFINE as == [opt EXCEPT !.select = FALSE]
<1>1. opt \in OptionRecords
  BY TabsBounds
<1>2. as.source = opt.source /\ as.kind = opt.kind
  BY <1>1 DEF OptionRecords
<1>3. ASSUME NEW p \in Option, opt = [p EXCEPT !.select = FALSE] PROVE as \in Tabs!Opens
  <2>1. p \in OptionRecords
    BY TabsBounds
  <2>2. as = opt
    BY <1>3, <2>1 DEF OptionRecords
  <2>. QED
    BY <2>2
<1>4. CASE opt \in Option
  <2>1. as \in Tabs!Opens
    BY <1>4 DEF Tabs!Opens
  <2>. QED
    BY <1>2, <2>1
<1>5. CASE opt \in {Tabs!Overview, Tabs!Shell}
  <2>1. opt.select = FALSE
    <3>1. Tabs!Overview.select = FALSE
      BY DEF Tabs!Overview
    <3>2. Tabs!Shell.select = FALSE
      BY DEF Tabs!Shell
    <3>. QED
      BY <1>5, <3>1, <3>2, Zenon
  <2>2. as = [opt EXCEPT !.select = opt.select]
    BY <2>1, Zenon
  <2>3. as = opt
    BY <1>1, <2>2 DEF OptionRecords
  <2>. QED
    BY <1>2, <2>3
<1>6. opt \in Option \/ opt \in {Tabs!Overview, Tabs!Shell} \/ \E p \in Option : opt = [p EXCEPT !.select = FALSE]
  BY DEF Tabs!Opens
<1>. QED
  BY <1>2, <1>3, <1>4, <1>5, <1>6

LEMMA SpawningKeeps ==
    ASSUME TabsInv, NEW c \in Routine, NEW d \in Tabs!Step, Tabs!Spawning(c, d), d.opt \in Tabs!Opens, d.left = {},
           doing[c] = Tabs!Idle \/ (doing[c].at = "spawn" /\ doing[c].left = {}),
           d.opt.source # NoSource =>
              /\ sourceBy = {c}
              /\ \A id \in DOMAIN opened : opened[id].owner = d.to => opened[id].opt.source # d.opt.source,
           UNCHANGED <<shut, allShut, tabRunning, ending, strip>>
    PROVE  TabsInv' /\ Tabs!LeavesTheOverview
<1>. DEFINE byPage == d.then = "select"
            opt == IF byPage THEN [d.opt EXCEPT !.select = FALSE] ELSE d.opt
            then == IF byPage THEN "select"
                    ELSE IF d.opt.kind = "terminal" /\ d.opt # Tabs!Shell THEN "launch" ELSE "return"
            next == [d EXCEPT !.at = "take", !.id = tabSeq + 1, !.then = then]
            isShell == d.opt = Tabs!Shell
<1>1. Nothing(doing[c]) /\ (doing[c] = Tabs!Idle \/ doing[c].at # "kill") /\ DOMAIN strip' = Owner
  BY IdleDoes DEF Nothing
<1>2. CASE Tabs!Closed(d.to) /\ Tabs!Return(c) /\ UNCHANGED <<opened, tabSeq, selected>>
  <2>1. doing' = [doing EXCEPT ![c] = Tabs!Idle] /\ SourceGiven(c)
    BY <1>2 DEF Tabs!Return, Tabs!Become, SourceGiven
  <2>. QED
    BY <1>1, <1>2, <2>1, TabsStep2
<1>3. CASE /\ ~Tabs!Closed(d.to)
           /\ Tabs!Spawn(d.to, opt, isShell)
           /\ Tabs!Become(c, next)
           /\ UNCHANGED sourceBy
  <2>1. opt \in Tabs!Opens /\ opt.source = d.opt.source /\ opt.kind = d.opt.kind
    <3>1. PICK p : p = d.opt
      OBVIOUS
    <3>2. LET as == [p EXCEPT !.select = FALSE]
          IN  as \in Tabs!Opens /\ as.source = p.source /\ as.kind = p.kind
      BY <3>1, OpensAs
    <3>. QED
      BY <3>1, <3>2
  <2>2. isShell \in BOOLEAN /\ d.to \in Owner
    <3>1. isShell \in BOOLEAN
      BY Zenon
    <3>. QED
      BY <3>1 DEF Tabs!Step
  <2>. HIDE DEF opt, isShell
  <2>3. /\ StripInv' /\ Tabs!LeavesTheOverview
        /\ tabSeq' = tabSeq + 1 /\ tabSeq \in Nat
        /\ DOMAIN opened' = DOMAIN opened \cup {tabSeq + 1} /\ tabSeq + 1 \notin DOMAIN opened
        /\ \A id \in DOMAIN opened : opened'[id] = opened[id]
        /\ opened'[tabSeq + 1].owner = d.to /\ opened'[tabSeq + 1].opt = opt /\ ~opened'[tabSeq + 1].started
    BY <1>3, <2>1, <2>2, StripGrows DEF TabsInv
  <2>4. DOMAIN opened \subseteq 1..tabSeq /\ DOMAIN opened' \subseteq 1..tabSeq' /\ tabSeq' \in 0..MaxTabs /\ MaxTabs \in Nat
    BY <2>3, TabsBounds DEF TabsInv, StripInv, OpenTabsTyped
  <2>5. TabsKept /\ NewIsItsOwn(c)
    BY <2>1, <2>3, <2>4 DEF TabsKept, NewIsItsOwn
  <2>6. /\ next \in Tabs!Step /\ next.at = "take" /\ next.id = tabSeq + 1 /\ next.then = then /\ next.left = {}
    <3>1. tabSeq + 1 \in Tabs!TabId
      BY <2>3, <2>4 DEF Tabs!TabId
    <3>2. then \in {"select", "launch", "return"}
      OBVIOUS
    <3>. HIDE DEF then
    <3>. QED
      BY <3>1, <3>2 DEF Tabs!Step
  <2>7. then # "spawn" /\ (then = "launch" => d.opt.kind = "terminal")
    OBVIOUS
  <2>. HIDE DEF then
  <2>8. doing' = [doing EXCEPT ![c] = next]
    BY <1>3 DEF Tabs!Become
  <2>. HIDE DEF next
  <2>9. PICK to : to = next
    OBVIOUS
  <2>10. Fits(c, to)'
    <3>1. to.id \in 0..tabSeq' /\ to.left = {}
      BY <2>3, <2>6, <2>9
    <3>2. ~Opening(to)
      BY <2>6, <2>7, <2>9 DEF Opening
    <3>3. Discards(to) => ~Overviews(to.id)'
      BY <2>1, <2>3, <2>6, <2>7, <2>9 DEF Discards, Overviews
    <3>. QED
      BY <2>6, <2>9, <3>1, <3>2, <3>3 DEF Fits
  <2>11. \A id \in DOMAIN opened' : id <= tabSeq \/ ~Tabs!Closed(opened'[id].owner)
    BY <1>3, <2>3, <2>4
  <2>12. SourceGiven(c) /\ shut' = shut /\ allShut' = allShut /\ tabRunning' = tabRunning /\ ending' \subseteq ending
    BY <1>3 DEF SourceGiven
  <2>13. DOMAIN opened \subseteq DOMAIN opened' /\ \A id \in DOMAIN opened : opened[id].started => opened'[id].started
    BY <2>3
  <2>. QED
    BY <1>1, <2>3, <2>5, <2>8, <2>9, <2>10, <2>11, <2>12, <2>13, TabsStep1
<1>. QED
  BY <1>2, <1>3 DEF Tabs!Spawning

LEMMA SpawnTabKeeps ==
    ASSUME TabsInv, NEW c \in Routine, Tabs!SpawnTab(c) PROVE TabsInv' /\ Tabs!LeavesTheOverview
<1>. DEFINE d == doing[c]
<1>1. d.at = "spawn" /\ d # Tabs!Idle /\ d \in Tabs!Step /\ Fits(c, d)
  BY IdleDoes DEF Tabs!SpawnTab, Tabs!At
<1>2. Tabs!Spawning(c, d) /\ UNCHANGED <<shut, allShut, tabRunning, ending, strip>>
  BY DEF Tabs!SpawnTab
<1>3. /\ sourceBy = {c} /\ d.opt \in Option /\ d.left = {}
      /\ \A id \in DOMAIN opened : opened[id].owner = d.to => opened[id].opt.source # d.opt.source
  BY <1>1 DEF Fits, Opening
<1>4. d.opt \in Tabs!Opens
  BY <1>3, TabsBounds
<1>. QED
  BY <1>1, <1>2, <1>3, <1>4, SpawningKeeps

LEMMA OpenPlainKeeps ==
    ASSUME TabsInv, NEW c \in Routine, NEW o \in Owner, NEW opt \in Tabs!Opens, Tabs!OpenPlain(c, o, opt)
    PROVE  TabsInv' /\ Tabs!LeavesTheOverview
<1>0. tabSeq \in Nat /\ 0 \in 0..tabSeq /\ opt \in Tabs!Opens \cup {Tabs!OneTab, Tabs!AllTabs}
  BY TabsBounds DEF TabsInv, StripInv, OpenTabsTyped
<1>1. PICK d : d = Tabs!Call("spawn", o, 0, opt)
  OBVIOUS
<1>2. d \in Tabs!Step /\ d.opt = opt /\ d.left = {} /\ d.to = o
  BY <1>0, <1>1, CallIs
<1>3. doing[c] = Tabs!Idle /\ opt.source = NoSource /\ Tabs!Spawning(c, d)
      /\ UNCHANGED <<shut, allShut, tabRunning, ending, strip>>
  BY <1>1, IdleDoes DEF Tabs!OpenPlain
<1>. QED
  BY <1>2, <1>3, SpawningKeeps

LEMMA ShownAre ==
    ASSUME NEW o, NEW source
    PROVE  \A id : id \in Tabs!Showing(o, source) <=>
              id \in DOMAIN opened /\ opened[id].owner = o /\ opened[id].opt.source = source
BY DEF Tabs!Showing, Tabs!OwnedIn

LEMMA DisplaceKeeps ==
    ASSUME TabsInv, NEW c \in Routine, NEW o \in Owner, NEW opt \in Option, opt.source # NoSource, Tabs!Displace(c, o, opt)
    PROVE  TabsInv' /\ Tabs!LeavesTheOverview
<1>0. tabSeq \in Nat /\ 0 \in 0..tabSeq /\ opt \in Tabs!Opens
      /\ opt \in Tabs!Opens \cup {Tabs!OneTab, Tabs!AllTabs}
  BY TabsBounds DEF TabsInv, StripInv, OpenTabsTyped
<1>1. /\ doing[c] = Tabs!Idle /\ Nothing(doing[c]) /\ sourceBy = {} /\ sourceBy' = {c} /\ SourceGiven(c)
      /\ UNCHANGED <<tabSeq, shut, allShut, tabRunning, ending, strip>> /\ DOMAIN strip' = Owner
  BY IdleDoes DEF Tabs!Displace, Tabs!Free, SourceGiven
<1>2. CASE /\ Tabs!Showing(o, opt.source) = {}
           /\ Tabs!Begin(c, "spawn", o, 0, opt)
           /\ UNCHANGED <<opened, selected>>
  <2>1. PICK to : to = Tabs!Call("spawn", o, 0, opt)
    OBVIOUS
  <2>2. doing' = [doing EXCEPT ![c] = to]
    BY <1>2, <2>1 DEF Tabs!Begin, Tabs!Become
  <2>3. to \in Tabs!Step /\ to.at = "spawn" /\ to.then = "return" /\ to.to = o /\ to.id = 0 /\ to.opt = opt /\ to.left = {}
    BY <1>0, <2>1, CallIs
  <2>4. \A id \in DOMAIN opened : opened[id].owner = o => opened[id].opt.source # opt.source
    BY <1>2, ShownAre
  <2>5. Fits(c, to)'
    BY <1>0, <1>1, <1>2, <2>3, <2>4 DEF Fits, Opening, Discards
  <2>. QED
    BY <1>1, <1>2, <2>2, <2>5, TabsStep2
<1>3. ASSUME NEW id \in Tabs!Showing(o, opt.source), Tabs!Discarding(c, id, "spawn", opt, {})
      PROVE  TabsInv' /\ Tabs!LeavesTheOverview
  <2>1. id \in DOMAIN opened /\ opened[id].owner = o /\ opened[id].opt.source = opt.source
    BY <1>3, ShownAre
  <2>2. ~Overviews(id)
    BY <2>1, TabsBounds DEF TabsInv, StripInv, OpenTabsTyped, Tabs!Tab, Overviews
  <2>3. \A v \in DOMAIN opened \ {id} : opened[v].owner = opened[id].owner => opened[v].opt.source # opt.source
    BY <2>1 DEF TabsInv, StripInv, Tabs!StripIsSound, Tabs!OneTabPerSource, Tabs!OwnedIn
  <2>4. {} \in SUBSET (1..tabSeq) /\ opt \in Tabs!Opens \cup {Tabs!OneTab, Tabs!AllTabs}
    BY <1>0
  <2>. QED
    BY <1>1, <1>3, <2>1, <2>2, <2>3, <2>4, DiscardingKeeps
<1>. QED
  BY <1>2, <1>3 DEF Tabs!Displace

LEMMA FindShownKeeps ==
    ASSUME TabsInv, NEW c \in Routine, NEW o \in Owner, NEW opt \in Option, opt.source # NoSource, Tabs!FindShown(c, o, opt)
    PROVE  TabsInv' /\ Tabs!LeavesTheOverview
<1>0. tabSeq \in Nat /\ 0 \in 0..tabSeq /\ opt \in Tabs!Opens /\ DOMAIN opened \subseteq 0..tabSeq
      /\ opt \in Tabs!Opens \cup {Tabs!OneTab, Tabs!AllTabs}
  BY TabsBounds DEF TabsInv, StripInv, OpenTabsTyped
<1>1. /\ doing[c] = Tabs!Idle /\ Nothing(doing[c]) /\ sourceBy = {} /\ sourceBy' = {c} /\ SourceGiven(c)
      /\ UNCHANGED <<opened, tabSeq, selected, shut, allShut, tabRunning, ending, strip>> /\ DOMAIN strip' = Owner
  BY IdleDoes DEF Tabs!FindShown, Tabs!Free, SourceGiven
<1>2. CASE /\ Tabs!Showing(o, opt.source) = {}
           /\ Tabs!Become(c, [Tabs!Call("spawn", o, 0, opt) EXCEPT !.then = "select"])
  <2>1. PICK to : to = [Tabs!Call("spawn", o, 0, opt) EXCEPT !.then = "select"]
    OBVIOUS
  <2>2. doing' = [doing EXCEPT ![c] = to]
    BY <1>2, <2>1 DEF Tabs!Become
  <2>3. to \in Tabs!Step /\ to.at = "spawn" /\ to.then = "select" /\ to.to = o /\ to.id = 0 /\ to.opt = opt /\ to.left = {}
    <3>1. PICK d : d = Tabs!Call("spawn", o, 0, opt)
      OBVIOUS
    <3>2. d \in Tabs!Step /\ d.at = "spawn" /\ d.to = o /\ d.id = 0 /\ d.opt = opt /\ d.left = {}
      BY <1>0, <3>1, CallIs
    <3>. QED
      BY <2>1, <3>1, <3>2, CallThen
  <2>4. \A id \in DOMAIN opened : opened[id].owner = o => opened[id].opt.source # opt.source
    BY <1>2, ShownAre
  <2>5. Fits(c, to)'
    BY <1>0, <1>1, <1>2, <2>3, <2>4 DEF Fits, Opening, Discards
  <2>. QED
    BY <1>1, <1>2, <2>2, <2>5, TabsStep2
<1>3. ASSUME NEW id \in Tabs!Showing(o, opt.source), Tabs!Become(c, Tabs!Call("select", o, id, opt))
      PROVE  TabsInv' /\ Tabs!LeavesTheOverview
  <2>1. PICK to : to = Tabs!Call("select", o, id, opt)
    OBVIOUS
  <2>2. doing' = [doing EXCEPT ![c] = to]
    BY <1>3, <2>1 DEF Tabs!Become
  <2>3. id \in 0..tabSeq
    BY <1>0, <1>3, ShownAre
  <2>4. to \in Tabs!Step /\ to.at = "select" /\ to.then = "return" /\ to.id = id /\ to.left = {}
    BY <1>0, <2>1, <2>3, CallIs
  <2>5. Fits(c, to)'
    BY <1>1, <2>3, <2>4 DEF Fits, Opening, Discards
  <2>. QED
    BY <1>1, <2>2, <2>5, TabsStep2
<1>. QED
  BY <1>2, <1>3 DEF Tabs!FindShown

\* A tab that gets another state stays where it is.
LEMMA TabsMarked ==
    ASSUME TabsInv, tabSeq' = tabSeq, selected' = selected, DOMAIN opened' = DOMAIN opened,
           \A id \in DOMAIN opened : /\ opened'[id] \in Tabs!Tab
                                     /\ opened'[id].owner = opened[id].owner /\ opened'[id].opt = opened[id].opt
                                     /\ opened'[id].order = opened[id].order
    PROVE  /\ StripInv' /\ Tabs!LeavesTheOverview /\ TabsKept /\ \A c \in Routine : NewIsItsOwn(c)
           /\ \A id \in DOMAIN opened' : id <= tabSeq
<1>1. OpenTabsTyped /\ tabSeq \in Nat
  BY TabsBounds DEF TabsInv, StripInv, OpenTabsTyped
<1>2. /\ TabsKept /\ \A id \in DOMAIN opened' : id <= tabSeq
      /\ \A c \in Routine : NewIsItsOwn(c)
  BY <1>1 DEF OpenTabsTyped, TabsKept, NewIsItsOwn
<1>3. \A o \in Owner : Tabs!SelectionIsOpen(o)'
  BY DEF TabsInv, StripInv, Tabs!StripIsSound, Tabs!SelectionIsOpen, Tabs!OwnedIn
<1>4. StripInv' /\ Tabs!LeavesTheOverview
  BY <1>1, <1>3, StripShrinks DEF TabsInv, OpenTabsTyped
<1>. QED
  BY <1>2, <1>4

\* A tab whose process is started, and nothing else.
LEMMA TabStarts ==
    ASSUME TabsInv, NEW id \in DOMAIN opened, opened' = [opened EXCEPT ![id].started = TRUE]
    PROVE  /\ DOMAIN opened' = DOMAIN opened /\ opened'[id].started
           /\ \A v \in DOMAIN opened : /\ opened'[v] \in Tabs!Tab
                                       /\ opened'[v].owner = opened[v].owner /\ opened'[v].opt = opened[v].opt
                                       /\ opened'[v].order = opened[v].order
                                       /\ opened[v].started => opened'[v].started
<1>1. \A v \in DOMAIN opened : opened[v] \in Tabs!Tab
  BY DEF TabsInv, StripInv, OpenTabsTyped
<1>2. opened'[id] = [opened[id] EXCEPT !.started = TRUE] /\ \A v \in DOMAIN opened \ {id} : opened'[v] = opened[v]
  OBVIOUS
<1>3. /\ opened'[id] \in Tabs!Tab /\ opened'[id].owner = opened[id].owner /\ opened'[id].opt = opened[id].opt
      /\ opened'[id].order = opened[id].order /\ opened'[id].started
  BY <1>1, <1>2 DEF Tabs!Tab
<1>. QED
  BY <1>1, <1>2, <1>3

\* A process that starts has its tab, and one that ends needs none.
LEMMA ProcessesMove ==
    ASSUME TabsInv, DOMAIN opened' = DOMAIN opened, tabSeq' = tabSeq,
           \A v \in DOMAIN opened : opened[v].started => opened'[v].started,
           \A v \in tabRunning' : v \in tabRunning \/ (v \in DOMAIN opened /\ opened'[v].started),
           ending' \subseteq ending \cup tabRunning,
           \A u \in Routine : doing[u].at = "kill" =>
              (doing'[u].at = "kill" /\ doing'[u].id = doing[u].id) \/ doing[u].id \notin tabRunning'
    PROVE  ProcessesInv'
<1>1. tabRunning' \subseteq 1..tabSeq /\ ending' \subseteq 1..tabSeq
  BY DEF TabsInv, ProcessesInv, StripInv, OpenTabsTyped
<1>2. \A v \in tabRunning' : v \in DOMAIN opened' => opened'[v].started
  BY DEF TabsInv, ProcessesInv
<1>3. Tabs!NoOrphanProcess'
  <2>. SUFFICES ASSUME NEW v \in tabRunning', v \notin DOMAIN opened
                PROVE  \E u \in Routine : doing'[u].at = "kill" /\ doing'[u].id = v
    BY DEF Tabs!NoOrphanProcess, Tabs!At
  <2>1. v \in tabRunning
    OBVIOUS
  <2>2. PICK u \in Routine : doing[u].at = "kill" /\ doing[u].id = v
    BY <2>1 DEF TabsInv, ProcessesInv, Tabs!NoOrphanProcess, Tabs!At
  <2>. QED
    BY <2>2
<1>. QED
  BY <1>1, <1>2, <1>3 DEF ProcessesInv

LEMMA TabLaunchKeeps ==
    ASSUME TabsInv, NEW c \in Routine, Tabs!Launch(c) PROVE TabsInv' /\ Tabs!LeavesTheOverview
<1>. DEFINE d == doing[c]
            id == d.id
<1>1. d.at = "launch" /\ d # Tabs!Idle /\ d \in Tabs!Step /\ Fits(c, d) /\ d.left = {} /\ Nothing(d)
  <2>1. d.at = "launch" /\ d # Tabs!Idle /\ d \in Tabs!Step /\ Fits(c, d)
    BY IdleDoes DEF Tabs!Launch, Tabs!At
  <2>. QED
    BY <2>1 DEF Fits, Nothing
<1>2. /\ UNCHANGED <<tabSeq, selected, shut, allShut, ending, strip>>
      /\ DOMAIN strip' = Owner
  BY IdleDoes DEF Tabs!Launch
<1>3. CASE id \notin DOMAIN opened /\ Tabs!Return(c) /\ UNCHANGED <<opened, tabRunning>>
  <2>1. doing' = [doing EXCEPT ![c] = Tabs!Idle] /\ SourceGiven(c)
    BY <1>3 DEF Tabs!Return, Tabs!Become, SourceGiven
  <2>. QED
    BY <1>1, <1>2, <1>3, <2>1, TabsStep2
<1>4. CASE /\ id \in DOMAIN opened
           /\ tabRunning' = IF opened[id].started THEN tabRunning ELSE tabRunning \cup {id}
           /\ opened' = [opened EXCEPT ![id].started = TRUE]
           /\ Tabs!Return(c)
  <2>1. doing' = [doing EXCEPT ![c] = Tabs!Idle] /\ SourceGiven(c)
    BY <1>4 DEF Tabs!Return, Tabs!Become, SourceGiven
  <2>2. /\ DOMAIN opened' = DOMAIN opened /\ opened'[id].started
        /\ \A v \in DOMAIN opened : /\ opened'[v] \in Tabs!Tab
                                    /\ opened'[v].owner = opened[v].owner /\ opened'[v].opt = opened[v].opt
                                    /\ opened'[v].order = opened[v].order
                                    /\ opened[v].started => opened'[v].started
    BY <1>4, TabStarts
  <2>3. /\ StripInv' /\ Tabs!LeavesTheOverview /\ TabsKept /\ NewIsItsOwn(c)
        /\ \A v \in DOMAIN opened' : v <= tabSeq
    BY <1>2, <2>2, TabsMarked
  <2>4. \A v \in tabRunning' : v \in tabRunning \/ (v \in DOMAIN opened /\ opened'[v].started)
    BY <1>4, <2>2
  <2>5. ProcessesInv'
    <3>1. \A u \in Routine : doing[u].at = "kill" => doing'[u] = doing[u]
      BY <1>1, <2>1 DEF TabsInv, GatesTyped
    <3>. QED
      BY <1>2, <2>2, <2>4, <3>1, ProcessesMove
  <2>6. GatesTyped' /\ \A u \in Routine : Busy(u)'
    <3>1. shut' \subseteq Owner /\ GatesKept
      BY <1>2 DEF TabsInv, GatesTyped, GatesKept
    <3>2. allShut' \in BOOLEAN
      BY <1>2, Zenon DEF TabsInv, GatesTyped
    <3>. QED
      BY <1>2, <2>1, <2>3, <3>1, <3>2, EveryoneFits
  <2>7. Tabs!StopReachesAll'
    <3>. SUFFICES ASSUME NEW v \in DOMAIN opened', Tabs!Closed(opened[v].owner)'
                  PROVE  v <= tabSeq /\ Tabs!Closed(opened[v].owner)
      BY <1>1, <2>1, <2>3, StopsReach, NothingStops
    <3>. QED
      BY <1>2, <2>2, <2>3 DEF Tabs!Closed
  <2>. QED
    BY <2>3, <2>5, <2>6, <2>7 DEF TabsInv
<1>5. CASE /\ id \in DOMAIN opened
           /\ Tabs!Goto(c, "discard")
           /\ UNCHANGED <<opened, tabRunning, sourceBy>>
  <2>1. PICK to : to = [d EXCEPT !.at = "discard"]
    OBVIOUS
  <2>2. doing' = [doing EXCEPT ![c] = to]
    BY <1>5, <2>1 DEF Tabs!Goto, Tabs!Become
  <2>. HIDE DEF d
  <2>3. to \in Tabs!Step /\ to.at = "discard" /\ to.then = d.then /\ to.id = d.id /\ to.opt = d.opt /\ to.to = d.to
        /\ to.left = {}
    BY <1>1, <2>1 DEF Tabs!Step
  <2>4. Fits(c, to)
    BY <1>1, <2>3 DEF Fits, Opening, Discards
  <2>5. Fits(c, to)'
    BY <1>2, <1>5, <2>4 DEF Fits, Overviews, Tabs!Closed
  <2>. QED
    BY <1>1, <1>2, <1>5, <2>2, <2>5, TabsStep2 DEF SourceGiven, d
<1>. QED
  BY <1>3, <1>4, <1>5 DEF Tabs!Launch

LEMMA StartTerminalKeeps ==
    ASSUME TabsInv, NEW c \in Routine, NEW id \in DOMAIN opened, Tabs!StartTerminal(c, id)
    PROVE  TabsInv' /\ Tabs!LeavesTheOverview
<1>1. /\ UNCHANGED <<tabSeq, selected, shut, allShut, sourceBy, ending, strip, doing>>
      /\ tabRunning' = tabRunning \cup {id} /\ opened' = [opened EXCEPT ![id].started = TRUE]
      /\ DOMAIN strip' = Owner /\ doing[c] = Tabs!Idle /\ Nothing(doing[c])
  BY IdleDoes DEF Tabs!StartTerminal
<1>2. /\ DOMAIN opened' = DOMAIN opened /\ opened'[id].started
      /\ \A v \in DOMAIN opened : /\ opened'[v] \in Tabs!Tab
                                  /\ opened'[v].owner = opened[v].owner /\ opened'[v].opt = opened[v].opt
                                  /\ opened'[v].order = opened[v].order
                                  /\ opened[v].started => opened'[v].started
  BY <1>1, TabStarts
<1>3. /\ StripInv' /\ Tabs!LeavesTheOverview /\ TabsKept /\ NewIsItsOwn(c)
      /\ \A v \in DOMAIN opened' : v <= tabSeq
  BY <1>1, <1>2, TabsMarked
<1>4. ProcessesInv'
  BY <1>1, <1>2, ProcessesMove
<1>5. doing' = [doing EXCEPT ![c] = Tabs!Idle]
  BY <1>1 DEF TabsInv, GatesTyped
<1>6. GatesTyped' /\ \A u \in Routine : Busy(u)'
  <2>1. shut' \subseteq Owner /\ GatesKept /\ SourceGiven(c)
    BY <1>1 DEF TabsInv, GatesTyped, GatesKept, SourceGiven
  <2>2. allShut' \in BOOLEAN
    BY <1>1, Zenon DEF TabsInv, GatesTyped
  <2>. QED
    BY <1>1, <1>3, <1>5, <2>1, <2>2, EveryoneFits
<1>7. Tabs!StopReachesAll'
  <2>. SUFFICES ASSUME NEW v \in DOMAIN opened', Tabs!Closed(opened[v].owner)'
                PROVE  v <= tabSeq /\ Tabs!Closed(opened[v].owner)
    BY <1>1, <1>3, <1>5, StopsReach, NothingStops
  <2>. QED
    BY <1>1, <1>2, <1>3 DEF Tabs!Closed
<1>. QED
  BY <1>3, <1>4, <1>6, <1>7 DEF TabsInv

LEMMA ProcessEndsKeeps ==
    ASSUME TabsInv, NEW id \in tabRunning, Tabs!ProcessEnds(id) PROVE TabsInv' /\ Tabs!LeavesTheOverview
<1>1. /\ UNCHANGED <<opened, tabSeq, selected, shut, allShut, sourceBy, strip, doing>>
      /\ tabRunning' = tabRunning \ {id} /\ ending' = ending \cup {id}
  BY DEF Tabs!ProcessEnds
<1>2. StripInv' /\ Tabs!LeavesTheOverview
  BY <1>1, TabsRest
<1>3. ProcessesInv'
  BY <1>1, ProcessesMove
<1>4. (\A u \in Routine : Busy(u)') /\ Tabs!StopReachesAll'
  BY <1>1 DEF TabsInv, Busy, Fits, Overviews, Tabs!Closed, Tabs!StopReachesAll, Tabs!At
<1>5. GatesTyped'
  BY <1>1 DEF TabsInv, GatesTyped
<1>. QED
  BY <1>2, <1>3, <1>4, <1>5 DEF TabsInv

LEMMA KillKeeps ==
    ASSUME TabsInv, NEW c \in Routine, Tabs!Kill(c) PROVE TabsInv' /\ Tabs!LeavesTheOverview
<1>. DEFINE d == doing[c]
<1>1. d.at = "kill" /\ d # Tabs!Idle /\ d \in Tabs!Step /\ Fits(c, d)
  BY IdleDoes DEF Tabs!Kill, Tabs!At
<1>2. /\ UNCHANGED <<opened, tabSeq, selected, shut, allShut, sourceBy, strip>> /\ DOMAIN strip' = Owner
      /\ tabRunning' = tabRunning \ {d.id} /\ ending' = ending \cup ({d.id} \cap tabRunning)
  BY IdleDoes DEF Tabs!Kill
<1>3. PICK to : to = [d EXCEPT !.at = "take"]
  OBVIOUS
<1>4. doing' = [doing EXCEPT ![c] = to]
  BY <1>3 DEF Tabs!Kill, Tabs!Goto, Tabs!Become
<1>5. /\ StripInv' /\ Tabs!LeavesTheOverview /\ TabsKept /\ NewIsItsOwn(c)
  BY <1>2, TabsRest
<1>6. ProcessesInv'
  <2>1. \A u \in Routine \ {c} : doing'[u] = doing[u]
    BY <1>4 DEF TabsInv, GatesTyped
  <2>. QED
    BY <1>2, <2>1, ProcessesMove
<1>. HIDE DEF d
<1>7. to \in Tabs!Step /\ to.at = "take" /\ to.then = d.then /\ to.id = d.id /\ to.opt = d.opt /\ to.to = d.to
      /\ to.left = d.left
  BY <1>1, <1>3 DEF Tabs!Step
<1>8. Fits(c, to)
  BY <1>1, <1>7 DEF Fits, Opening, Discards
<1>9. Fits(c, to)'
  BY <1>2, <1>8 DEF Fits, Overviews, Tabs!Closed
<1>10. GatesTyped' /\ \A u \in Routine : Busy(u)'
  <2>1. shut' \subseteq Owner /\ GatesKept /\ SourceGiven(c)
    BY <1>2 DEF TabsInv, GatesTyped, GatesKept, SourceGiven
  <2>2. allShut' \in BOOLEAN
    BY <1>2, Zenon DEF TabsInv, GatesTyped
  <2>. QED
    BY <1>2, <1>4, <1>5, <1>9, <2>1, <2>2, EveryoneFits
<1>11. Tabs!StopReachesAll'
  <2>1. to # Tabs!Idle
    BY <1>7 DEF Tabs!Idle
  <2>2. \A v \in DOMAIN opened' : v <= tabSeq
    BY <1>2, TabsBounds DEF TabsInv, StripInv, OpenTabsTyped
  <2>3. \A v : Stops(doing[c], v) => Stops(to, v)'
    BY <1>1, <1>7, <2>1 DEF Stops, d
  <2>4. \A v \in DOMAIN opened' : Tabs!Closed(opened[v].owner)' => Tabs!Closed(opened[v].owner)
    BY <1>2 DEF Tabs!Closed
  <2>. QED
    BY <1>4, <1>5, <2>2, <2>3, <2>4, StopsReach
<1>. QED
  BY <1>5, <1>6, <1>10, <1>11 DEF TabsInv

\* A call that begins with a tab, or with none, does so where nothing fits less.
LEMMA BeginsFit ==
    ASSUME TabsInv, NEW c \in Routine, NEW step \in {"take", "mark", "discard", "list"}, NEW o \in Owner,
           NEW id \in 0..tabSeq, NEW opt \in Tabs!Opens \cup {Tabs!OneTab, Tabs!AllTabs}, Tabs!Begin(c, step, o, id, opt),
           tabSeq' = tabSeq, step = "discard" => id \notin DOMAIN opened' \/ ~Overviews(id)',
           step = "list" => IF opt = Tabs!AllTabs THEN allShut' ELSE o \in shut'
    PROVE  /\ doing[c] = Tabs!Idle /\ Nothing(doing[c])
           /\ \E to : /\ doing' = [doing EXCEPT ![c] = to] /\ Fits(c, to)' /\ to # Tabs!Idle
                      /\ to.at = step /\ to.to = o /\ to.opt = opt /\ to.left = {}
<1>1. PICK to : to = Tabs!Call(step, o, id, opt)
  OBVIOUS
<1>2. doing[c] = Tabs!Idle /\ Nothing(doing[c]) /\ doing' = [doing EXCEPT ![c] = to]
  BY <1>1, IdleDoes DEF Tabs!Begin, Tabs!Become
<1>3. /\ to \in Tabs!Step /\ to # Tabs!Idle
      /\ to.at = step /\ to.then = "return" /\ to.to = o /\ to.id = id /\ to.opt = opt /\ to.left = {}
  BY <1>1, CallIs
<1>4. Fits(c, to)'
  BY <1>3 DEF Fits, Opening, Discards
<1>. QED
  BY <1>2, <1>3, <1>4

LEMMA TabIs ==
    ASSUME TabsInv, NEW id \in DOMAIN opened
    PROVE  /\ id \in 0..tabSeq /\ id \in Tabs!TabId /\ opened[id] \in Tabs!Tab /\ opened[id].owner \in Owner
           /\ opened[id].opt \in Tabs!Opens /\ id <= tabSeq /\ tabSeq \in Nat
BY TabsBounds DEF TabsInv, StripInv, OpenTabsTyped, Tabs!TabId, Tabs!Tab

\* What the session has on screen is one of its own tabs.
LEMMA Selecting ==
    ASSUME TabsInv, NEW o \in Owner, NEW id \in Tabs!OwnedIn(opened, o), UNCHANGED <<opened, tabSeq>>,
           selected' = [selected EXCEPT ![o] = id]
    PROVE  /\ StripInv' /\ Tabs!LeavesTheOverview /\ TabsKept /\ \A c \in Routine : NewIsItsOwn(c)
           /\ \A v \in DOMAIN opened' : v <= tabSeq
<1>1. OpenTabsTyped /\ tabSeq \in Nat /\ id \in Tabs!TabId
  BY TabsBounds, TabIs DEF TabsInv, StripInv, OpenTabsTyped, Tabs!OwnedIn
<1>2. TabsKept /\ (\A c \in Routine : NewIsItsOwn(c)) /\ \A v \in DOMAIN opened' : v <= tabSeq
  BY <1>1 DEF OpenTabsTyped, TabsKept, NewIsItsOwn
<1>3. selected' \in [Owner -> Tabs!TabId \cup {0}] /\ \A p \in Owner : selected'[p] = IF p = o THEN id ELSE selected[p]
  BY <1>1 DEF OpenTabsTyped
<1>4. \A p \in Owner : Tabs!SelectionIsOpen(p)'
  BY <1>3 DEF TabsInv, StripInv, Tabs!StripIsSound, Tabs!SelectionIsOpen, Tabs!OwnedIn
<1>5. StripInv' /\ Tabs!LeavesTheOverview
  BY <1>1, <1>3, <1>4, StripShrinks DEF TabsInv, OpenTabsTyped
<1>. QED
  BY <1>2, <1>5

LEMMA SelectTabKeeps ==
    ASSUME TabsInv, NEW c \in Routine, NEW o \in Owner, NEW id \in DOMAIN opened, Tabs!SelectTab(c, o, id)
    PROVE  TabsInv' /\ Tabs!LeavesTheOverview
<1>1. /\ id \in Tabs!OwnedIn(opened, o) /\ Tabs!Begin(c, "take", o, id, Tabs!OneTab) /\ DOMAIN strip' = Owner
      /\ selected' = [selected EXCEPT ![o] = id]
      /\ UNCHANGED <<opened, tabSeq, shut, allShut, sourceBy, tabRunning, ending, strip>>
  BY IdleDoes DEF Tabs!SelectTab
<1>2. PICK to : doing' = [doing EXCEPT ![c] = to] /\ Fits(c, to)' /\ doing[c] = Tabs!Idle /\ Nothing(doing[c])
  BY <1>1, TabIs, BeginsFit
<1>3. StripInv' /\ Tabs!LeavesTheOverview /\ TabsKept /\ NewIsItsOwn(c) /\ \A v \in DOMAIN opened' : v <= tabSeq
  BY <1>1, Selecting
<1>. QED
  BY <1>1, <1>2, <1>3, TabsStep1 DEF SourceGiven

LEMMA SelectShownKeeps ==
    ASSUME TabsInv, NEW c \in Routine, Tabs!SelectShown(c) PROVE TabsInv' /\ Tabs!LeavesTheOverview
<1>. DEFINE d == doing[c]
<1>1. d.at = "select" /\ d # Tabs!Idle /\ d \in Tabs!Step /\ Fits(c, d) /\ d.left = {} /\ Nothing(d)
  <2>1. d.at = "select" /\ d # Tabs!Idle /\ d \in Tabs!Step /\ Fits(c, d)
    BY IdleDoes DEF Tabs!SelectShown, Tabs!At
  <2>. QED
    BY <2>1 DEF Fits, Nothing
<1>2. UNCHANGED <<opened, tabSeq, shut, allShut, tabRunning, ending, strip>> /\ DOMAIN strip' = Owner
  BY IdleDoes DEF Tabs!SelectShown
<1>3. CASE d.id \in Tabs!OwnedIn(opened, d.to)
  <2>1. PICK to : to = [d EXCEPT !.at = "take", !.then = "return"]
    OBVIOUS
  <2>2. /\ doing' = [doing EXCEPT ![c] = to] /\ selected' = [selected EXCEPT ![d.to] = d.id] /\ sourceBy' = sourceBy
    BY <1>3, <2>1 DEF Tabs!SelectShown, Tabs!Become
  <2>3. d.to \in Owner
    BY <1>1 DEF Tabs!Step
  <2>4. StripInv' /\ Tabs!LeavesTheOverview /\ TabsKept /\ NewIsItsOwn(c) /\ \A v \in DOMAIN opened' : v <= tabSeq
    BY <1>2, <1>3, <2>2, <2>3, Selecting
  <2>. HIDE DEF d
  <2>5. to \in Tabs!Step /\ to.at = "take" /\ to.then = "return" /\ to.id = d.id /\ to.left = {}
    BY <1>1, <2>1 DEF Tabs!Step
  <2>6. Fits(c, to)'
    BY <1>1, <1>2, <2>5 DEF Fits, Opening, Discards
  <2>. QED
    BY <1>1, <1>2, <2>2, <2>4, <2>6, TabsStep1 DEF SourceGiven, d
<1>4. CASE d.id \notin Tabs!OwnedIn(opened, d.to)
  <2>1. doing' = [doing EXCEPT ![c] = Tabs!Idle] /\ SourceGiven(c) /\ selected' = selected
    BY <1>4 DEF Tabs!SelectShown, Tabs!Return, Tabs!Become, SourceGiven
  <2>. QED
    BY <1>1, <1>2, <2>1, TabsStep2
<1>. QED
  BY <1>3, <1>4

LEMMA ReorderKeeps ==
    ASSUME TabsInv, NEW c \in Routine, NEW o \in Owner, NEW id \in DOMAIN opened, NEW to \in DOMAIN opened,
           Tabs!Reorder(c, o, id, to)
    PROVE  TabsInv' /\ Tabs!LeavesTheOverview
<1>1. /\ Tabs!Begin(c, "take", o, id, Tabs!OneTab) /\ DOMAIN strip' = Owner
      /\ UNCHANGED <<tabSeq, selected, shut, allShut, sourceBy, tabRunning, ending, strip>>
  BY IdleDoes DEF Tabs!Reorder
<1>2. PICK next : doing' = [doing EXCEPT ![c] = next] /\ Fits(c, next)' /\ doing[c] = Tabs!Idle /\ Nothing(doing[c])
  BY <1>1, TabIs, BeginsFit
<1>3. /\ StripInv' /\ Tabs!LeavesTheOverview
      /\ DOMAIN opened' = DOMAIN opened
      /\ \A w \in DOMAIN opened : /\ opened'[w].owner = opened[w].owner /\ opened'[w].opt = opened[w].opt
                                  /\ opened'[w].started = opened[w].started
  BY ReorderStrip DEF TabsInv
<1>4. TabsKept /\ NewIsItsOwn(c) /\ \A v \in DOMAIN opened' : v <= tabSeq
  BY <1>1, <1>3, TabsBounds DEF TabsInv, StripInv, OpenTabsTyped, TabsKept, NewIsItsOwn
<1>. QED
  BY <1>1, <1>2, <1>3, <1>4, TabsStep1 DEF SourceGiven

LEMMA PollShellKeeps ==
    ASSUME TabsInv, NEW c \in Routine, NEW id \in DOMAIN opened, Tabs!PollShell(c, id)
    PROVE  TabsInv' /\ Tabs!LeavesTheOverview
<1>1. /\ Tabs!Begin(c, "mark", opened[id].owner, id, Tabs!OneTab) /\ DOMAIN strip' = Owner
      /\ UNCHANGED <<opened, tabSeq, selected, shut, allShut, sourceBy, tabRunning, ending, strip>>
  BY IdleDoes DEF Tabs!PollShell
<1>2. PICK to : doing' = [doing EXCEPT ![c] = to] /\ Fits(c, to)' /\ doing[c] = Tabs!Idle /\ Nothing(doing[c])
  BY <1>1, TabIs, BeginsFit
<1>. QED
  BY <1>1, <1>2, TabsStep2 DEF SourceGiven

LEMMA MarkShellKeeps ==
    ASSUME TabsInv, NEW c \in Routine, NEW now \in BOOLEAN, Tabs!MarkShell(c, now)
    PROVE  TabsInv' /\ Tabs!LeavesTheOverview
<1>. DEFINE d == doing[c]
            id == d.id
            marks == id \in DOMAIN opened /\ opened[id].exit = "none" /\ opened[id].busy # now
<1>1. d.at = "mark" /\ d # Tabs!Idle /\ d \in Tabs!Step /\ Fits(c, d) /\ d.left = {} /\ Nothing(d)
  <2>1. d.at = "mark" /\ d # Tabs!Idle /\ d \in Tabs!Step /\ Fits(c, d)
    BY IdleDoes DEF Tabs!MarkShell, Tabs!At
  <2>. QED
    BY <2>1 DEF Fits, Nothing
<1>2. UNCHANGED <<tabSeq, selected, shut, allShut, tabRunning, ending, strip>> /\ DOMAIN strip' = Owner
  BY IdleDoes DEF Tabs!MarkShell
<1>3. CASE marks
  <2>1. PICK to : to = [d EXCEPT !.at = "take"]
    OBVIOUS
  <2>2. /\ doing' = [doing EXCEPT ![c] = to] /\ sourceBy' = sourceBy
        /\ opened' = [opened EXCEPT ![id].busy = now]
    BY <1>3, <2>1 DEF Tabs!MarkShell, Tabs!Goto, Tabs!Become
  <2>3. /\ DOMAIN opened' = DOMAIN opened
        /\ \A v \in DOMAIN opened : /\ opened'[v] \in Tabs!Tab
                                    /\ opened'[v].owner = opened[v].owner /\ opened'[v].opt = opened[v].opt
                                    /\ opened'[v].order = opened[v].order
                                    /\ opened'[v].started = opened[v].started
    <3>. HIDE DEF d
    <3>1. id \in DOMAIN opened /\ opened[id] \in Tabs!Tab
      BY <1>3, TabIs
    <3>2. opened'[id] = [opened[id] EXCEPT !.busy = now] /\ \A v \in DOMAIN opened \ {id} : opened'[v] = opened[v]
      BY <2>2, <3>1
    <3>3. /\ opened'[id] \in Tabs!Tab
          /\ opened'[id].owner = opened[id].owner /\ opened'[id].opt = opened[id].opt
          /\ opened'[id].order = opened[id].order /\ opened'[id].started = opened[id].started
      BY <3>1, <3>2 DEF Tabs!Tab
    <3>4. \A v \in DOMAIN opened \ {id} : opened'[v] \in Tabs!Tab
      BY <3>2, TabIs
    <3>. QED
      BY <2>2, <3>2, <3>3, <3>4
  <2>4. /\ StripInv' /\ Tabs!LeavesTheOverview /\ TabsKept /\ NewIsItsOwn(c)
        /\ \A v \in DOMAIN opened' : v <= tabSeq
    BY <1>2, <2>3, TabsMarked
  <2>. HIDE DEF d
  <2>5. to \in Tabs!Step /\ to.at = "take" /\ to.then = d.then /\ to.id = d.id /\ to.opt = d.opt /\ to.to = d.to
        /\ to.left = {}
    BY <1>1, <2>1 DEF Tabs!Step
  <2>6. Fits(c, to)'
    <3>1. ~Opening(to) \/ Opening(d)
      BY <2>5 DEF Opening
    <3>2. Discards(to) => Discards(d)
      BY <2>5 DEF Discards
    <3>. QED
      BY <1>1, <1>2, <2>2, <2>3, <2>5, <3>1, <3>2 DEF Fits, Overviews
  <2>. QED
    BY <1>1, <1>2, <2>2, <2>3, <2>4, <2>6, TabsStep1 DEF SourceGiven, d
<1>4. CASE ~marks
  <2>1. doing' = [doing EXCEPT ![c] = Tabs!Idle] /\ SourceGiven(c) /\ opened' = opened
    BY <1>4 DEF Tabs!MarkShell, Tabs!Return, Tabs!Become, SourceGiven
  <2>. QED
    BY <1>1, <1>2, <2>1, TabsStep2
<1>. QED
  BY <1>3, <1>4

LEMMA ExitedKeeps ==
    ASSUME TabsInv, NEW c \in Routine, NEW id \in ending, NEW code \in {"ok", "failed"}, Tabs!Exited(c, id, code)
    PROVE  TabsInv' /\ Tabs!LeavesTheOverview
<1>1. UNCHANGED <<tabSeq, selected, shut, allShut, sourceBy, tabRunning, strip>> /\ ending' = ending \ {id}
      /\ DOMAIN strip' = Owner
  BY IdleDoes DEF Tabs!Exited
<1>2. CASE id \notin DOMAIN opened
  <2>1. UNCHANGED <<opened, doing>>
    BY <1>2 DEF Tabs!Exited
  <2>2. StripInv' /\ Tabs!LeavesTheOverview
    BY <1>1, <2>1, TabsRest
  <2>3. ProcessesInv'
    BY <1>1, <2>1, ProcessesMove
  <2>4. (\A u \in Routine : Busy(u)') /\ Tabs!StopReachesAll'
    BY <1>1, <2>1 DEF TabsInv, Busy, Fits, Overviews, Tabs!Closed, Tabs!StopReachesAll, Tabs!At
  <2>5. GatesTyped'
    BY <1>1, <2>1 DEF TabsInv, GatesTyped
  <2>. QED
    BY <2>2, <2>3, <2>4, <2>5 DEF TabsInv
<1>3. CASE id \in DOMAIN opened
  <2>. DEFINE step == IF code = "ok" /\ opened[id].opt.closes THEN "discard" ELSE "take"
  <2>1. opened' = [opened EXCEPT ![id].exit = code] /\ Tabs!Begin(c, step, opened[id].owner, id, Tabs!OneTab)
    BY <1>3 DEF Tabs!Exited
  <2>2. /\ DOMAIN opened' = DOMAIN opened
        /\ \A v \in DOMAIN opened : /\ opened'[v] \in Tabs!Tab
                                    /\ opened'[v].owner = opened[v].owner /\ opened'[v].opt = opened[v].opt
                                    /\ opened'[v].order = opened[v].order
                                    /\ opened'[v].started = opened[v].started
    <3>1. opened[id] \in Tabs!Tab
      BY <1>3, TabIs
    <3>2. opened'[id] = [opened[id] EXCEPT !.exit = code] /\ \A v \in DOMAIN opened \ {id} : opened'[v] = opened[v]
      BY <1>3, <2>1
    <3>3. /\ opened'[id] \in Tabs!Tab
          /\ opened'[id].owner = opened[id].owner /\ opened'[id].opt = opened[id].opt
          /\ opened'[id].order = opened[id].order /\ opened'[id].started = opened[id].started
      BY <3>1, <3>2 DEF Tabs!Tab
    <3>4. \A v \in DOMAIN opened \ {id} : opened'[v] \in Tabs!Tab
      BY <3>2, TabIs
    <3>. QED
      BY <2>1, <3>2, <3>3, <3>4
  <2>3. step = "discard" => ~Overviews(id)'
    <3>. SUFFICES ASSUME step = "discard" PROVE opened'[id].opt.kind # "overview"
      BY DEF Overviews
    <3>1. opened[id].opt.closes /\ opened[id].opt \in Tabs!Opens
      BY <1>3, TabIs
    <3>. QED
      BY <1>3, <2>2, <3>1, TabsBounds
  <2>4. step \in {"take", "discard"}
    OBVIOUS
  <2>. HIDE DEF step
  <2>5. id \in 0..tabSeq /\ opened[id].owner \in Owner
    BY <1>3, TabIs
  <2>6. PICK to : doing' = [doing EXCEPT ![c] = to] /\ Fits(c, to)' /\ doing[c] = Tabs!Idle /\ Nothing(doing[c])
    BY <1>1, <2>1, <2>3, <2>4, <2>5, BeginsFit
  <2>7. /\ StripInv' /\ Tabs!LeavesTheOverview /\ TabsKept /\ NewIsItsOwn(c)
        /\ \A v \in DOMAIN opened' : v <= tabSeq
    BY <1>1, <2>2, TabsMarked
  <2>. QED
    BY <1>1, <2>2, <2>6, <2>7, TabsStep1 DEF SourceGiven
<1>. QED
  BY <1>2, <1>3

LEMMA CloseTabKeeps ==
    ASSUME TabsInv, NEW c \in Routine, NEW id \in DOMAIN opened, Tabs!CloseTab(c, id)
    PROVE  TabsInv' /\ Tabs!LeavesTheOverview
<1>1. /\ doing[c] = Tabs!Idle /\ Nothing(doing[c]) /\ ~Overviews(id)
      /\ Tabs!Discarding(c, id, "return", Tabs!OneTab, {}) /\ SourceGiven(c)
      /\ UNCHANGED <<tabSeq, shut, allShut, sourceBy, tabRunning, ending, strip>>
  BY IdleDoes DEF Tabs!CloseTab, Tabs!Pinned, Overviews, SourceGiven
<1>2. {} \in SUBSET (1..tabSeq) /\ Tabs!OneTab \in Tabs!Opens \cup {Tabs!OneTab, Tabs!AllTabs}
  OBVIOUS
<1>. QED
  BY <1>1, <1>2, DiscardingKeeps

LEMMA DiscardTabKeeps ==
    ASSUME TabsInv, NEW c \in Routine, Tabs!DiscardTab(c) PROVE TabsInv' /\ Tabs!LeavesTheOverview
<1>. DEFINE d == doing[c]
<1>1. d.at = "discard" /\ d # Tabs!Idle /\ d \in Tabs!Step /\ Fits(c, d) /\ d.left = {} /\ Nothing(d)
  <2>1. d.at = "discard" /\ d # Tabs!Idle /\ d \in Tabs!Step /\ Fits(c, d)
    BY IdleDoes DEF Tabs!DiscardTab, Tabs!At
  <2>. QED
    BY <2>1 DEF Fits, Nothing
<1>2. UNCHANGED <<tabSeq, shut, allShut, tabRunning, ending, strip>> /\ DOMAIN strip' = Owner
  BY IdleDoes DEF Tabs!DiscardTab
<1>3. CASE d.id \in DOMAIN opened
  <2>1. PICK id \in DOMAIN opened : id = d.id
    BY <1>3
  <2>2. Tabs!Discarding(c, id, "return", Tabs!OneTab, {}) /\ SourceGiven(c)
    BY <1>3, <2>1 DEF Tabs!DiscardTab, SourceGiven
  <2>3. ~Overviews(id)
    BY <1>1, <2>1 DEF Fits, Discards
  <2>4. {} \in SUBSET (1..tabSeq) /\ Tabs!OneTab \in Tabs!Opens \cup {Tabs!OneTab, Tabs!AllTabs}
    OBVIOUS
  <2>. QED
    BY <1>1, <1>2, <2>2, <2>3, <2>4, DiscardingKeeps
<1>4. CASE d.id \notin DOMAIN opened
  <2>1. doing' = [doing EXCEPT ![c] = Tabs!Idle] /\ SourceGiven(c) /\ UNCHANGED <<opened, selected>>
    BY <1>4 DEF Tabs!DiscardTab, Tabs!Return, Tabs!Become, SourceGiven
  <2>. QED
    BY <1>1, <1>2, <2>1, TabsStep2
<1>. QED
  BY <1>3, <1>4

LEMMA StopSessionKeeps ==
    ASSUME TabsInv, NEW c \in Routine, NEW o \in Owner, Tabs!StopSession(c, o) PROVE TabsInv' /\ Tabs!LeavesTheOverview
<1>1. /\ Tabs!Begin(c, "list", o, 0, Tabs!OneTab) /\ shut' = shut \cup {o} /\ DOMAIN strip' = Owner
      /\ UNCHANGED <<opened, tabSeq, selected, allShut, sourceBy, tabRunning, ending, strip>>
  BY IdleDoes DEF Tabs!StopSession
<1>2. /\ StripInv' /\ Tabs!LeavesTheOverview /\ TabsKept /\ NewIsItsOwn(c)
  BY <1>1, TabsRest
<1>3. 0 \in 0..tabSeq /\ Tabs!OneTab # Tabs!AllTabs /\ \A v \in DOMAIN opened : v <= tabSeq
  BY TabsBounds DEF TabsInv, StripInv, OpenTabsTyped
<1>4. PICK to : /\ doing' = [doing EXCEPT ![c] = to] /\ Fits(c, to)' /\ doing[c] = Tabs!Idle /\ Nothing(doing[c])
                /\ to # Tabs!Idle /\ to.at = "list" /\ to.to = o
  BY <1>1, <1>3, BeginsFit
<1>5. GatesTyped' /\ \A u \in Routine : Busy(u)'
  <2>1. shut' \subseteq Owner /\ GatesKept /\ SourceGiven(c)
    BY <1>1 DEF TabsInv, GatesTyped, GatesKept, SourceGiven
  <2>2. allShut' \in BOOLEAN
    BY <1>1, Zenon DEF TabsInv, GatesTyped
  <2>. QED
    BY <1>1, <1>2, <1>4, <2>1, <2>2, EveryoneFits
<1>6. Tabs!StopReachesAll'
  <2>. SUFFICES ASSUME NEW v \in DOMAIN opened', Tabs!Closed(opened[v].owner)'
                PROVE  \/ v <= tabSeq /\ Tabs!Closed(opened[v].owner)
                       \/ Stops(to, v)'
    BY <1>2, <1>4, StopsReach, NothingStops
  <2>1. CASE opened[v].owner = o
    BY <1>1, <1>4, <2>1 DEF Stops
  <2>2. CASE opened[v].owner # o
    BY <1>1, <1>3, <2>2 DEF Tabs!Closed
  <2>. QED
    BY <2>1, <2>2
<1>7. ProcessesInv'
  BY <1>1, <1>2, <1>4, ProcessesKept
<1>. QED
  BY <1>2, <1>5, <1>6, <1>7 DEF TabsInv

LEMMA StopAllKeeps ==
    ASSUME TabsInv, NEW c \in Routine, Tabs!StopAll(c) PROVE TabsInv' /\ Tabs!LeavesTheOverview
<1>0. PICK o : o = CHOOSE p \in Owner : TRUE
  OBVIOUS
<1>1. /\ Tabs!Begin(c, "list", o, 0, Tabs!AllTabs) /\ DOMAIN strip' = Owner
      /\ UNCHANGED <<opened, tabSeq, selected, shut, sourceBy, tabRunning, ending, strip>>
  BY <1>0, IdleDoes DEF Tabs!StopAll
<1>1a. allShut' = TRUE
  BY DEF Tabs!StopAll
<1>2. /\ StripInv' /\ Tabs!LeavesTheOverview /\ TabsKept /\ NewIsItsOwn(c)
  BY <1>1, TabsRest
<1>3. 0 \in 0..tabSeq /\ o \in Owner
  BY <1>0, TabsBounds DEF TabsInv, StripInv, OpenTabsTyped
<1>4. PICK to : /\ doing' = [doing EXCEPT ![c] = to] /\ Fits(c, to)' /\ doing[c] = Tabs!Idle /\ Nothing(doing[c])
                /\ to # Tabs!Idle /\ to.at = "list" /\ to.opt = Tabs!AllTabs
  BY <1>1, <1>1a, <1>3, BeginsFit
<1>5. GatesTyped' /\ \A u \in Routine : Busy(u)'
  <2>1. shut' \subseteq Owner /\ GatesKept /\ SourceGiven(c)
    BY <1>1, <1>1a DEF TabsInv, GatesTyped, GatesKept, SourceGiven
  <2>2. allShut' \in BOOLEAN
    BY <1>1a, Zenon
  <2>. QED
    BY <1>1, <1>2, <1>4, <2>1, <2>2, EveryoneFits
<1>6. Tabs!StopReachesAll'
  <2>1. \A v : Stops(to, v)'
    BY <1>4 DEF Stops
  <2>. QED
    BY <1>2, <1>4, <2>1, StopsReach
<1>7. ProcessesInv'
  BY <1>1, <1>2, <1>4, ProcessesKept
<1>. QED
  BY <1>2, <1>5, <1>6, <1>7 DEF TabsInv

\* Once admission is closed to a session, the list of its tabs is all it will have.
LEMMA ListTabsKeeps ==
    ASSUME TabsInv, NEW c \in Routine, Tabs!ListTabs(c) PROVE TabsInv' /\ Tabs!LeavesTheOverview
<1>. DEFINE d == doing[c]
            all == IF d.opt = Tabs!AllTabs THEN DOMAIN opened ELSE Tabs!OwnedIn(opened, d.to)
<1>1. d.at = "list" /\ d # Tabs!Idle /\ d \in Tabs!Step /\ Fits(c, d)
  BY IdleDoes DEF Tabs!ListTabs, Tabs!At
<1>2. UNCHANGED <<opened, tabSeq, selected, shut, allShut, sourceBy, tabRunning, ending, strip>> /\ DOMAIN strip' = Owner
  BY IdleDoes DEF Tabs!ListTabs
<1>3. PICK to : to = [d EXCEPT !.at = "sweep", !.left = all]
  OBVIOUS
<1>4. doing' = [doing EXCEPT ![c] = to]
  BY <1>3 DEF Tabs!ListTabs, Tabs!Become
<1>5. /\ all \subseteq DOMAIN opened /\ all \in SUBSET (1..tabSeq) /\ all \in SUBSET Tabs!TabId
      /\ \A v \in DOMAIN opened : d.opt = Tabs!AllTabs \/ d.to = opened[v].owner => v \in all
      /\ \A v \in all : Tabs!Closed(opened[v].owner)
  <2>1. \A v \in DOMAIN opened : v \in 1..tabSeq /\ v \in Tabs!TabId
    BY TabIs DEF TabsInv, StripInv, OpenTabsTyped
  <2>2. CASE d.opt = Tabs!AllTabs
    BY <1>1, <2>1, <2>2 DEF Fits, Tabs!Closed
  <2>3. CASE d.opt # Tabs!AllTabs
    BY <1>1, <2>1, <2>3 DEF Fits, Tabs!Closed, Tabs!OwnedIn
  <2>. QED
    BY <2>2, <2>3
<1>. HIDE DEF all
<1>5a. Nothing(d) \/ d.left = {}
  BY <1>1 DEF Fits
<1>. HIDE DEF d
<1>6. to \in Tabs!Step /\ to.at = "sweep" /\ to.then = d.then /\ to.id = d.id /\ to.opt = d.opt /\ to.to = d.to
      /\ to.left = all
  BY <1>1, <1>3, <1>5 DEF Tabs!Step
<1>7. Fits(c, to)
  <2>1. Opening(to) => Opening(d)
    BY <1>6 DEF Opening
  <2>2. Discards(to) => Discards(d)
    BY <1>6 DEF Discards
  <2>. QED
    BY <1>1, <1>5, <1>6, <2>1, <2>2 DEF Fits
<1>8. Fits(c, to)'
  BY <1>2, <1>7 DEF Fits, Overviews, Tabs!Closed
<1>9. /\ StripInv' /\ Tabs!LeavesTheOverview /\ TabsKept /\ NewIsItsOwn(c)
  BY <1>2, TabsRest
<1>10. GatesTyped' /\ \A u \in Routine : Busy(u)'
  <2>1. shut' \subseteq Owner /\ GatesKept /\ SourceGiven(c)
    BY <1>2 DEF TabsInv, GatesTyped, GatesKept, SourceGiven
  <2>2. allShut' \in BOOLEAN
    BY <1>2, Zenon DEF TabsInv, GatesTyped
  <2>. QED
    BY <1>2, <1>4, <1>8, <1>9, <2>1, <2>2, EveryoneFits
<1>11. Tabs!StopReachesAll'
  <2>. SUFFICES ASSUME NEW v \in DOMAIN opened', Tabs!Closed(opened[v].owner)'
                PROVE  /\ v <= tabSeq /\ Tabs!Closed(opened[v].owner)
                       /\ Stops(d, v) => Stops(to, v)'
    BY <1>4, <1>9, StopsReach DEF d
  <2>1. v <= tabSeq /\ Tabs!Closed(opened[v].owner) /\ v \in DOMAIN opened
    BY <1>2, TabIs DEF Tabs!Closed
  <2>2. to # Tabs!Idle
    BY <1>6 DEF Tabs!Idle
  <2>3. Stops(d, v) => v \in all
    BY <1>1, <1>5, <1>5a, <2>1 DEF Stops, Nothing
  <2>. QED
    BY <1>6, <2>1, <2>2, <2>3 DEF Stops
<1>12. ProcessesInv'
  BY <1>1, <1>2, <1>4, <1>9, ProcessesKept DEF d
<1>. QED
  BY <1>9, <1>10, <1>11, <1>12 DEF TabsInv

LEMMA SweepKeeps ==
    ASSUME TabsInv, NEW c \in Routine, Tabs!Sweep(c) PROVE TabsInv' /\ Tabs!LeavesTheOverview
<1>. DEFINE d == doing[c]
<1>1. d.at = "sweep" /\ d # Tabs!Idle /\ d \in Tabs!Step /\ Fits(c, d)
  BY IdleDoes DEF Tabs!Sweep, Tabs!At
<1>2. UNCHANGED <<tabSeq, shut, allShut, tabRunning, ending, strip>> /\ DOMAIN strip' = Owner
  BY IdleDoes DEF Tabs!Sweep
<1>3. CASE d.left = {} /\ Tabs!Return(c) /\ UNCHANGED <<opened, selected>>
  <2>1. doing' = [doing EXCEPT ![c] = Tabs!Idle] /\ SourceGiven(c) /\ Nothing(d)
    BY <1>1, <1>3 DEF Tabs!Return, Tabs!Become, SourceGiven, Nothing
  <2>. QED
    BY <1>1, <1>2, <1>3, <2>1, TabsStep2
<1>4. ASSUME NEW id \in d.left, id \in DOMAIN opened, sourceBy' = sourceBy,
             Tabs!Discarding(c, id, "sweep", d.opt, d.left \ {id})
      PROVE  TabsInv' /\ Tabs!LeavesTheOverview
  <2>1. /\ Tabs!Closed(opened[id].owner) /\ d.left \ {id} \in SUBSET (1..tabSeq)
        /\ \A v \in d.left \ {id} : v \in DOMAIN opened => Tabs!Closed(opened[v].owner)
    BY <1>1, <1>4 DEF Fits
  <2>2. d.opt \in Tabs!Opens \cup {Tabs!OneTab, Tabs!AllTabs}
    BY <1>1 DEF Tabs!Step
  <2>3. SourceGiven(c)
    BY <1>4 DEF SourceGiven
  <2>4. PICK opt : opt = d.opt
    OBVIOUS
  <2>5. PICK left : left = d.left \ {id}
    OBVIOUS
  <2>6. Tabs!Discarding(c, id, "sweep", opt, left)
    BY <1>4, <2>4, <2>5
  <2>. QED
    BY <1>1, <1>2, <1>4, <2>1, <2>2, <2>3, <2>4, <2>5, <2>6, DiscardingKeeps
<1>5. ASSUME NEW id \in d.left, id \notin DOMAIN opened, sourceBy' = sourceBy, UNCHANGED <<opened, selected>>,
             Tabs!Become(c, [d EXCEPT !.left = @ \ {id}])
      PROVE  TabsInv' /\ Tabs!LeavesTheOverview
  <2>1. PICK to : to = [d EXCEPT !.left = d.left \ {id}]
    OBVIOUS
  <2>2. doing' = [doing EXCEPT ![c] = to]
    BY <1>5, <2>1 DEF Tabs!Become
  <2>3. d.left \ {id} \in SUBSET Tabs!TabId
    BY <1>1 DEF Tabs!Step
  <2>. HIDE DEF d
  <2>4. to \in Tabs!Step /\ to.at = "sweep" /\ to.then = d.then /\ to.id = d.id /\ to.opt = d.opt /\ to.to = d.to
        /\ to.left = d.left \ {id}
    BY <1>1, <2>1, <2>3 DEF Tabs!Step
  <2>5. Fits(c, to)
    BY <1>1, <2>4 DEF Fits, Opening, Discards
  <2>6. Fits(c, to)'
    BY <1>2, <1>5, <2>5 DEF Fits, Overviews, Tabs!Closed
  <2>7. /\ StripInv' /\ Tabs!LeavesTheOverview /\ TabsKept /\ NewIsItsOwn(c)
    BY <1>2, <1>5, TabsRest
  <2>8. GatesTyped' /\ \A u \in Routine : Busy(u)'
    <3>1. shut' \subseteq Owner /\ GatesKept /\ SourceGiven(c)
      BY <1>2, <1>5 DEF TabsInv, GatesTyped, GatesKept, SourceGiven
    <3>2. allShut' \in BOOLEAN
      BY <1>2, Zenon DEF TabsInv, GatesTyped
    <3>. QED
      BY <1>2, <2>2, <2>6, <2>7, <3>1, <3>2, EveryoneFits
  <2>9. Tabs!StopReachesAll'
    <3>. SUFFICES ASSUME NEW v \in DOMAIN opened', Tabs!Closed(opened[v].owner)'
                  PROVE  /\ v <= tabSeq /\ Tabs!Closed(opened[v].owner)
                         /\ Stops(d, v) => Stops(to, v)'
      BY <2>2, <2>7, StopsReach DEF d
    <3>1. v <= tabSeq /\ Tabs!Closed(opened[v].owner) /\ v # id
      BY <1>2, <1>5, TabIs DEF Tabs!Closed
    <3>2. to # Tabs!Idle
      BY <2>4 DEF Tabs!Idle
    <3>. QED
      BY <1>1, <2>4, <3>1, <3>2 DEF Stops
  <2>10. ProcessesInv'
    BY <1>1, <1>2, <1>5, <2>2, <2>7, ProcessesKept DEF d
  <2>. QED
    BY <2>7, <2>8, <2>9, <2>10 DEF TabsInv
<1>. QED
  BY <1>3, <1>4, <1>5 DEF Tabs!Sweep

LEMMA TabsNextKeeps == TabsInv /\ Tabs!Next => TabsInv' /\ Tabs!LeavesTheOverview
<1>. SUFFICES ASSUME TabsInv, Tabs!Next PROVE TabsInv' /\ Tabs!LeavesTheOverview
  OBVIOUS
<1>1. ASSUME NEW id \in tabRunning, Tabs!ProcessEnds(id) PROVE TabsInv' /\ Tabs!LeavesTheOverview
  BY <1>1, ProcessEndsKeeps
<1>2. ASSUME NEW c \in Routine,
             \/ Tabs!SpawnTab(c) \/ Tabs!Launch(c)
             \/ Tabs!SelectShown(c) \/ Tabs!DiscardTab(c) \/ Tabs!Kill(c) \/ Tabs!TakeStrip(c) \/ Tabs!EmitStrip(c)
             \/ Tabs!StopAll(c) \/ Tabs!ListTabs(c) \/ Tabs!Sweep(c)
      PROVE  TabsInv' /\ Tabs!LeavesTheOverview
  BY <1>2, SpawnTabKeeps, TabLaunchKeeps, SelectShownKeeps, DiscardTabKeeps, KillKeeps, TakeStripKeeps, EmitStripKeeps,
     StopAllKeeps, ListTabsKeeps, SweepKeeps
<1>3. ASSUME NEW c \in Routine, NEW o \in Owner, NEW opt \in Option,
             \/ opt.source # NoSource /\ (Tabs!Displace(c, o, opt) \/ Tabs!FindShown(c, o, opt))
             \/ Tabs!OpenPlain(c, o, opt)
      PROVE  TabsInv' /\ Tabs!LeavesTheOverview
  <2>1. opt \in Tabs!Opens
    BY TabsBounds
  <2>. QED
    BY <1>3, <2>1, DisplaceKeeps, FindShownKeeps, OpenPlainKeeps
<1>4. ASSUME NEW c \in Routine, NEW o \in Owner,
             Tabs!OpenOverview(c, o) \/ Tabs!OpenShell(c, o) \/ Tabs!StopSession(c, o)
      PROVE  TabsInv' /\ Tabs!LeavesTheOverview
  <2>1. PICK a, b : a = Tabs!Overview /\ b = Tabs!Shell
    OBVIOUS
  <2>2. a \in Tabs!Opens /\ b \in Tabs!Opens
    BY <2>1, TabsBounds
  <2>3. Tabs!OpenPlain(c, o, a) \/ Tabs!OpenPlain(c, o, b) \/ Tabs!StopSession(c, o)
    BY <1>4, <2>1 DEF Tabs!OpenOverview, Tabs!OpenShell
  <2>. QED
    BY <2>2, <2>3, OpenPlainKeeps, StopSessionKeeps
<1>5. ASSUME NEW c \in Routine, NEW id \in DOMAIN opened,
             Tabs!StartTerminal(c, id) \/ Tabs!CloseTab(c, id) \/ Tabs!PollShell(c, id)
      PROVE  TabsInv' /\ Tabs!LeavesTheOverview
  BY <1>5, StartTerminalKeeps, CloseTabKeeps, PollShellKeeps
<1>6. ASSUME NEW c \in Routine, NEW o \in Owner, NEW id \in DOMAIN opened, Tabs!SelectTab(c, o, id)
      PROVE  TabsInv' /\ Tabs!LeavesTheOverview
  BY <1>6, SelectTabKeeps
<1>7. ASSUME NEW c \in Routine, NEW o \in Owner, NEW id \in DOMAIN opened, NEW to \in DOMAIN opened,
             Tabs!Reorder(c, o, id, to)
      PROVE  TabsInv' /\ Tabs!LeavesTheOverview
  BY <1>7, ReorderKeeps
<1>8. ASSUME NEW c \in Routine, NEW id \in ending, NEW code \in {"ok", "failed"}, Tabs!Exited(c, id, code)
      PROVE  TabsInv' /\ Tabs!LeavesTheOverview
  BY <1>8, ExitedKeeps
<1>9. ASSUME NEW c \in Routine, NEW now \in BOOLEAN, Tabs!MarkShell(c, now)
      PROVE  TabsInv' /\ Tabs!LeavesTheOverview
  BY <1>9, MarkShellKeeps
<1>. QED
  BY <1>1, <1>2, <1>3, <1>4, <1>5, <1>6, <1>7, <1>8, <1>9 DEF Tabs!Next

LEMMA TabsStep == TabsInv /\ [Tabs!Next]_(Tabs!tabVars) => TabsInv'
<1>. SUFFICES ASSUME TabsInv, UNCHANGED Tabs!tabVars PROVE TabsInv'
  BY TabsNextKeeps
<1>1. UNCHANGED <<opened, tabSeq, selected, shut, allShut, sourceBy, tabRunning, ending, strip, doing>>
  BY DEF Tabs!tabVars
<1>2. StripInv'
  BY <1>1, TabsRest
<1>3. ProcessesInv'
  BY <1>1, ProcessesMove
<1>4. (\A u \in Routine : Busy(u)') /\ Tabs!StopReachesAll'
  BY <1>1 DEF TabsInv, Busy, Fits, Overviews, Tabs!Closed, Tabs!StopReachesAll, Tabs!At
<1>5. GatesTyped'
  BY <1>1 DEF TabsInv, GatesTyped
<1>. QED
  BY <1>2, <1>3, <1>4, <1>5 DEF TabsInv

LEMMA TabsShow == TabsInv => Tabs!TypeOK /\ Tabs!StripIsSound /\ Tabs!NothingOutlivesItsSession
<1>. SUFFICES ASSUME TabsInv PROVE Tabs!TypeOK /\ Tabs!StripIsSound /\ Tabs!NothingOutlivesItsSession
  OBVIOUS
<1>1. /\ DOMAIN opened \subseteq 1..tabSeq /\ \A id \in DOMAIN opened : opened[id] \in Tabs!Tab
      /\ tabSeq \in 0..MaxTabs /\ selected \in [Owner -> Tabs!TabId \cup {0}]
  BY DEF TabsInv, StripInv, OpenTabsTyped
<1>2. tabRunning \subseteq Tabs!TabId /\ ending \subseteq Tabs!TabId
  BY <1>1, TabsBounds DEF TabsInv, ProcessesInv, Tabs!TabId
<1>3. sourceBy \subseteq Routine /\ Tabs!Cardinality(sourceBy) <= 1
  <2>1. \A S : Tabs!Cardinality(S) = Cardinality(S)
    BY Zenon DEF Tabs!Cardinality, Cardinality
  <2>2. CASE sourceBy = {}
    BY <2>1, <2>2, FS_EmptySet
  <2>3. CASE \E r \in Routine : sourceBy = {r}
    BY <2>1, <2>3, FS_Singleton
  <2>. QED
    BY <2>2, <2>3 DEF TabsInv, GatesTyped
<1>4. shut \subseteq Owner /\ allShut \in BOOLEAN /\ DOMAIN strip = Owner
  BY DEF TabsInv, GatesTyped
<1>5. \A c \in Routine : doing[c] = Tabs!Idle \/ doing[c] \in Tabs!Step
  BY DEF TabsInv, Busy, Fits
<1>6. Tabs!TypeOK
  BY <1>1, <1>2, <1>3, <1>4, <1>5 DEF Tabs!TypeOK
<1>. QED
  BY <1>6 DEF TabsInv, StripInv, ProcessesInv, Tabs!NothingOutlivesItsSession
-----------------------------------------------------------------------------
(* The names of the agents' windows.  A window an entry names was opened by     *)
(* that entry's claim, and a claim still on its way is no entry's window.       *)

names == v1
claims == v2
hosted == v3
unheard == v4
tool == v5
USE DEF names, claims, hosted, unheard, tool

Claiming == {"replace", "open", "commit", "release"}
ToolSteps == Claiming \cup {"rest", "loser", "ask", "forget", "forgetclose", "close", "list", "prune"}

ToolStates ==
    [at : ToolSteps, name : Name, claim : 0..MaxClaims, id : 0..MaxClaims,
     live : SUBSET AgentWindows!Claim, asked : SUBSET (0..MaxClaims)]

NamesTyped ==
    /\ names \in [Name -> [id : {0} \cup AgentWindows!Claim, claim : {0} \cup AgentWindows!Claim]]
    /\ claims \in 0..MaxClaims
    /\ hosted \subseteq AgentWindows!Claim
    /\ unheard \subseteq AgentWindows!Claim
    /\ tool \in [ToolCall -> ToolStates]

\* A claim is one call's, and no call's is above the last.
ClaimsAreOnes ==
    \A t \in ToolCall : tool[t].at \in Claiming =>
        /\ tool[t].claim \in 1..claims
        /\ \A u \in ToolCall \ {t} : tool[u].at \in Claiming => tool[u].claim # tool[t].claim

\* A window there is, or that anyone has heard of, is that of a claim whose call has opened it.
Opened(id) ==
    /\ id \in 1..claims
    /\ \A t \in ToolCall : tool[t].at \in {"replace", "open"} => tool[t].claim # id
Registered(id) ==
    Opened(id) /\ \A t \in ToolCall : tool[t].at \in Claiming => tool[t].claim # id

EntriesAreTheirClaims ==
    \A n \in Name :
        /\ names[n].claim \in 0..claims
        /\ names[n].id \in {0, names[n].claim}
        /\ names[n].id # 0 => Registered(names[n].id)
HeardOfIsOpened ==
    /\ \A id \in hosted : Opened(id)
    /\ \A t \in ToolCall : tool[t].at \in {"ask", "forget", "forgetclose", "close"} =>
          tool[t].id # 0 /\ Registered(tool[t].id)
    /\ \A t \in ToolCall : tool[t].at \in {"replace", "loser"} => tool[t].id # 0
    /\ \A t \in ToolCall : tool[t].at \in {"list", "prune"} =>
          \A id \in tool[t].asked : id # 0 => Registered(id)

\* What a call is about to forget is gone.
GoneIsGone ==
    /\ \A t \in ToolCall : tool[t].at = "forget" => tool[t].id \notin hosted
    /\ \A t \in ToolCall : tool[t].at = "prune" => \A id \in tool[t].asked \ tool[t].live : id # 0 => id \notin hosted

NamesInv ==
    /\ NamesTyped
    /\ ClaimsAreOnes /\ EntriesAreTheirClaims /\ HeardOfIsOpened /\ GoneIsGone
    /\ AgentWindows!NoWindowLeftBehind /\ AgentWindows!LaterClaimWins

LEMMA NamesBounds ==
    /\ MaxClaims \in Nat
    /\ AgentWindows!Resting \in ToolStates /\ AgentWindows!Resting.at = "rest"
<1>1. Name # {} /\ MaxClaims \in Nat
  BY PartsAssumption DEF AgentWindows!AgentWindowsAssumption
<1>2. (CHOOSE n \in Name : TRUE) \in Name
  BY <1>1
<1>. QED
  BY <1>1, <1>2 DEF AgentWindows!Resting, ToolStates, ToolSteps, AgentWindows!Claim

LEMMA ToolFields ==
    ASSUME NamesInv, NEW t \in ToolCall
    PROVE  /\ tool[t] \in ToolStates /\ tool[t].at \in ToolSteps /\ tool[t].name \in Name
           /\ tool[t].claim \in 0..MaxClaims /\ tool[t].id \in 0..MaxClaims
           /\ tool[t].live \subseteq AgentWindows!Claim /\ tool[t].asked \subseteq 0..MaxClaims
  BY DEF NamesInv, NamesTyped, ToolStates

LEMMA NamesInit == AgentWindows!Init => NamesInv
<1>. SUFFICES ASSUME AgentWindows!Init PROVE NamesInv
  OBVIOUS
<1>1. tool \in [ToolCall -> ToolStates] /\ \A t \in ToolCall : tool[t].at = "rest"
  BY NamesBounds DEF AgentWindows!Init
<1>2. names = [n \in Name |-> [id |-> 0, claim |-> 0]] /\ claims = 0 /\ hosted = {} /\ unheard = {}
  BY DEF AgentWindows!Init, AgentWindows!NoEntry
<1>3. NamesTyped
  BY <1>1, <1>2, NamesBounds DEF NamesTyped
<1>4. ClaimsAreOnes /\ EntriesAreTheirClaims /\ HeardOfIsOpened /\ GoneIsGone
  BY <1>1, <1>2 DEF ClaimsAreOnes, EntriesAreTheirClaims, HeardOfIsOpened, GoneIsGone, Claiming
<1>5. AgentWindows!NoWindowLeftBehind /\ AgentWindows!LaterClaimWins
  BY <1>1, <1>2 DEF AgentWindows!NoWindowLeftBehind, AgentWindows!LaterClaimWins
<1>. QED
  BY <1>3, <1>4, <1>5 DEF NamesInv

\* What is opened or registered stays so while a call goes on: its claim is its own, or new.
LEMMA OpenedStays ==
    ASSUME NamesInv, NEW t \in ToolCall, NEW to \in ToolStates,
           tool' = [tool EXCEPT ![t] = to],
           claims' \in Nat, claims' >= claims,
           to.at \in Claiming => (tool[t].at \in Claiming /\ to.claim = tool[t].claim) \/ to.claim > claims,
           to.at \in {"replace", "open"} =>
              (tool[t].at \in {"replace", "open"} /\ to.claim = tool[t].claim) \/ to.claim > claims
    PROVE  \A id : (Opened(id) => Opened(id)') /\ (Registered(id) => Registered(id)')
<1>1. claims \in Nat
  BY NamesBounds DEF NamesInv, NamesTyped
<1>2. \A u \in ToolCall : tool'[u] = IF u = t THEN to ELSE tool[u]
  BY DEF NamesInv, NamesTyped
<1>3. to.claim \in Nat
  BY NamesBounds DEF ToolStates
<1>. QED
  BY <1>1, <1>2, <1>3 DEF Opened, Registered

\* A call that keeps its claim, or ends it, leaves the claims each one's own.
LEMMA ClaimsStay ==
    ASSUME NamesInv, NEW t \in ToolCall, NEW to \in ToolStates,
           tool' = [tool EXCEPT ![t] = to], UNCHANGED claims,
           to.at \in Claiming => tool[t].at \in Claiming /\ to.claim = tool[t].claim
    PROVE  ClaimsAreOnes'
<1>1. \A u \in ToolCall : tool'[u] = IF u = t THEN to ELSE tool[u]
  BY DEF NamesInv, NamesTyped
<1>. QED
  BY <1>1 DEF NamesInv, ClaimsAreOnes

\* A call goes on, and neither the names nor the windows change.
LEMMA CallGoesOn ==
    ASSUME NamesInv, NEW t \in ToolCall, NEW to \in ToolStates,
           tool' = [tool EXCEPT ![t] = to], UNCHANGED <<names, claims, hosted, unheard>>,
           tool[t].at \notin Claiming \cup {"loser", "close"},
           to.at \notin Claiming \cup {"loser", "close"},
           to.at \in {"ask", "forget", "forgetclose"} => to.id # 0 /\ Registered(to.id),
           to.at \in {"list", "prune"} => \A id \in to.asked : id # 0 => Registered(id),
           to.at = "forget" => to.id \notin hosted,
           to.at = "prune" => \A id \in to.asked \ to.live : id # 0 => id \notin hosted
    PROVE  NamesInv'
<1>1. \A u \in ToolCall : tool'[u] = IF u = t THEN to ELSE tool[u]
  BY DEF NamesInv, NamesTyped
<1>2. \A id : (Opened(id) => Opened(id)') /\ (Registered(id) => Registered(id)')
  <2>1. claims' \in Nat /\ claims' >= claims
    BY NamesBounds DEF NamesInv, NamesTyped
  <2>2. to.at \notin Claiming /\ to.at \notin {"replace", "open"}
    BY DEF Claiming
  <2>. QED
    BY <2>1, <2>2, OpenedStays
<1>3. NamesTyped' /\ ClaimsAreOnes'
  <2>1. tool' \in [ToolCall -> ToolStates]
    BY DEF NamesInv, NamesTyped
  <2>. QED
    BY <2>1, ClaimsStay DEF NamesInv, NamesTyped
<1>4. EntriesAreTheirClaims'
  BY <1>2 DEF NamesInv, EntriesAreTheirClaims
<1>5. HeardOfIsOpened'
  BY <1>1, <1>2 DEF NamesInv, HeardOfIsOpened, Claiming
<1>6. GoneIsGone'
  BY <1>1 DEF NamesInv, GoneIsGone
<1>7. AgentWindows!NoWindowLeftBehind'
  BY <1>1 DEF NamesInv, AgentWindows!NoWindowLeftBehind, AgentWindows!Known, AgentWindows!Is, Claiming
<1>8. AgentWindows!LaterClaimWins'
  BY <1>1 DEF NamesInv, AgentWindows!LaterClaimWins, Claiming
<1>. QED
  BY <1>3, <1>4, <1>5, <1>6, <1>7, <1>8 DEF NamesInv

\* What changes of a call, and of nothing but the call, when it is the only one to move.
LEMMA ToolGoes ==
    ASSUME NamesInv, NEW t \in ToolCall, NEW to \in ToolStates, tool' = [tool EXCEPT ![t] = to]
    PROVE  /\ \A u \in ToolCall : tool'[u] = IF u = t THEN to ELSE tool[u]
           /\ tool' \in [ToolCall -> ToolStates]
  BY DEF NamesInv, NamesTyped

LEMMA ClaimNameKeeps ==
    ASSUME NamesInv, NEW t \in ToolCall, NEW n \in Name, AgentWindows!ClaimName(t, n)
    PROVE  NamesInv'
<1>. DEFINE to == [AgentWindows!Resting EXCEPT !.at = IF names[n].id = 0 THEN "open" ELSE "replace",
                               !.name = n, !.claim = claims + 1, !.id = names[n].id]
<1>0. names[n].id \in 0..MaxClaims /\ claims \in Nat /\ claims + 1 \in 1..MaxClaims /\ MaxClaims \in Nat
  BY NamesBounds DEF AgentWindows!ClaimName, NamesInv, NamesTyped, AgentWindows!Claim
<1>1. /\ to \in ToolStates /\ to.at = (IF names[n].id = 0 THEN "open" ELSE "replace")
      /\ to.claim = claims + 1 /\ to.id = names[n].id /\ to.name = n
  <2>1. (IF names[n].id = 0 THEN "open" ELSE "replace") \in ToolSteps
    BY DEF ToolSteps, Claiming
  <2>2. claims + 1 \in 0..MaxClaims
    BY <1>0
  <2>. QED
    BY <1>0, <2>1, <2>2, NamesBounds DEF ToolStates
<1>2. tool' = [tool EXCEPT ![t] = to] /\ tool[t].at = "rest"
  BY DEF AgentWindows!ClaimName, AgentWindows!Step, AgentWindows!Is
<1>. HIDE DEF to
<1>3. claims' = claims + 1 /\ names' = [names EXCEPT ![n] = [id |-> 0, claim |-> claims + 1]]
      /\ UNCHANGED <<hosted, unheard>>
  BY DEF AgentWindows!ClaimName, AgentWindows!Set
<1>4. /\ \A u \in ToolCall : tool'[u] = IF u = t THEN to ELSE tool[u]
      /\ tool' \in [ToolCall -> ToolStates]
  BY <1>1, <1>2, ToolGoes
<1>5. \A id : (Opened(id) => Opened(id)') /\ (Registered(id) => Registered(id)')
  <2>1. claims' \in Nat /\ claims' >= claims /\ to.claim > claims
    BY <1>0, <1>1, <1>3
  <2>. QED
    BY <1>1, <1>2, <2>1, OpenedStays
<1>6. NamesTyped'
  BY <1>0, <1>3, <1>4 DEF NamesInv, NamesTyped, AgentWindows!Claim
<1>7. ClaimsAreOnes'
  <2>1. claims' = claims + 1 /\ claims \in Nat /\ to.claim = claims + 1
    BY <1>0, <1>1, <1>3
  <2>2. \A u \in ToolCall : tool[u].at \in Claiming =>
           /\ tool[u].claim \in 1..claims
           /\ \A w \in ToolCall \ {u} : tool[w].at \in Claiming => tool[w].claim # tool[u].claim
    BY DEF NamesInv, ClaimsAreOnes
  <2>3. ASSUME NEW u \in ToolCall, tool'[u].at \in Claiming PROVE tool'[u].claim \in 1..claims'
    <3>1. CASE u = t
      BY <1>4, <2>1, <3>1
    <3>2. CASE u # t
      BY <1>4, <2>1, <2>2, <2>3, <3>2
    <3>. QED
      BY <3>1, <3>2
  <2>4. ASSUME NEW u \in ToolCall, NEW w \in ToolCall \ {u}, tool'[u].at \in Claiming, tool'[w].at \in Claiming
        PROVE  tool'[w].claim # tool'[u].claim
    <3>1. \A v \in ToolCall : tool[v].at \in Claiming => tool[v].claim # claims + 1
      BY <2>1, <2>2
    <3>2. CASE u = t
      BY <1>4, <2>1, <2>4, <3>1, <3>2
    <3>3. CASE w = t
      BY <1>4, <2>1, <2>4, <3>1, <3>3
    <3>4. CASE u # t /\ w # t
      BY <1>4, <2>2, <2>4, <3>4
    <3>. QED
      BY <3>2, <3>3, <3>4
  <2>. QED
    BY <2>3, <2>4 DEF ClaimsAreOnes
<1>8. EntriesAreTheirClaims'
  <2>1. \A m \in Name : names'[m] = IF m = n THEN [id |-> 0, claim |-> claims + 1] ELSE names[m]
    BY <1>3 DEF NamesInv, NamesTyped
  <2>. QED
    BY <1>0, <1>3, <1>5, <2>1 DEF NamesInv, EntriesAreTheirClaims
<1>9. HeardOfIsOpened'
  BY <1>1, <1>3, <1>4, <1>5 DEF NamesInv, HeardOfIsOpened
<1>10. GoneIsGone'
  BY <1>1, <1>3, <1>4 DEF NamesInv, GoneIsGone
<1>11. AgentWindows!NoWindowLeftBehind'
  <2>. SUFFICES ASSUME NEW id \in hosted PROVE AgentWindows!Known(id)'
    BY <1>3 DEF AgentWindows!NoWindowLeftBehind
  <2>0. AgentWindows!Known(id) /\ id # 0
    BY DEF NamesInv, NamesTyped, AgentWindows!NoWindowLeftBehind, AgentWindows!Claim
  <2>1. CASE \E m \in Name : names[m].id = id
    <3>1. PICK m \in Name : names[m].id = id
      BY <2>1
    <3>2. CASE m = n
      BY <1>1, <1>4, <2>0, <3>1, <3>2 DEF AgentWindows!Known
    <3>3. CASE m # n
      BY <1>3, <3>1, <3>3 DEF AgentWindows!Known, NamesInv, NamesTyped
    <3>. QED
      BY <3>2, <3>3
  <2>2. CASE \E u \in ToolCall : \/ AgentWindows!Is(u, "commit") /\ tool[u].claim = id
                                 \/ tool[u].at \in {"replace", "loser", "close"} /\ tool[u].id = id
    BY <1>2, <1>4, <2>2 DEF AgentWindows!Known, AgentWindows!Is
  <2>3. CASE id \in unheard
    BY <1>3, <2>3 DEF AgentWindows!Known
  <2>. QED
    BY <2>0, <2>1, <2>2, <2>3 DEF AgentWindows!Known
<1>12. AgentWindows!LaterClaimWins'
  <2>1. \A m \in Name : names'[m].claim = IF m = n THEN claims + 1 ELSE names[m].claim
    BY <1>3 DEF NamesInv, NamesTyped
  <2>2. \A u \in ToolCall : tool[u].at \in {"replace", "open", "commit"} => tool[u].claim \in 1..claims /\ tool[u].name \in Name
    BY DEF NamesInv, ClaimsAreOnes, Claiming, NamesTyped, ToolStates
  <2>3. \A m \in Name : names[m].claim \in Nat
    BY <1>0 DEF NamesInv, EntriesAreTheirClaims
  <2>. QED
    BY <1>0, <1>1, <1>4, <2>1, <2>2, <2>3 DEF NamesInv, AgentWindows!LaterClaimWins
<1>. QED
  BY <1>6, <1>7, <1>8, <1>9, <1>10, <1>11, <1>12 DEF NamesInv

LEMMA HostCloseKeeps ==
    ASSUME NamesInv, NEW t \in ToolCall,
           AgentWindows!CloseReplaced(t) \/ AgentWindows!CloseLoser(t) \/ AgentWindows!CloseNamed(t)
    PROVE  NamesInv'
<1>0. MaxClaims \in Nat /\ claims \in Nat /\ tool[t] \in ToolStates
  BY NamesBounds DEF NamesInv, NamesTyped
<1>1. PICK to \in ToolStates :
        /\ tool' = [tool EXCEPT ![t] = to]
        /\ \/ tool[t].at = "replace" /\ to.at = "open" /\ to.claim = tool[t].claim /\ to.name = tool[t].name
           \/ tool[t].at \in {"loser", "close"} /\ to.at = "rest"
  <2>1. CASE AgentWindows!CloseReplaced(t)
    <3>. DEFINE to == [tool[t] EXCEPT !.at = "open"]
    <3>1. to \in ToolStates /\ to.at = "open" /\ to.claim = tool[t].claim /\ to.name = tool[t].name
      BY <1>0 DEF ToolStates, ToolSteps, Claiming
    <3>2. tool' = [tool EXCEPT ![t] = to] /\ tool[t].at = "replace"
      BY <2>1 DEF AgentWindows!CloseReplaced, AgentWindows!HostClose, AgentWindows!Step, AgentWindows!Is
    <3>. HIDE DEF to
    <3>. QED
      BY <3>1, <3>2
  <2>2. CASE AgentWindows!CloseLoser(t) \/ AgentWindows!CloseNamed(t)
    BY <2>2, NamesBounds DEF AgentWindows!CloseLoser, AgentWindows!CloseNamed, AgentWindows!HostClose,
       AgentWindows!Done, AgentWindows!Step, AgentWindows!Is
  <2>. QED
    BY <2>1, <2>2
<1>2. UNCHANGED <<names, claims>>
  BY DEF AgentWindows!CloseReplaced, AgentWindows!CloseLoser, AgentWindows!CloseNamed, AgentWindows!HostClose
<1>3. \/ hosted' = hosted \ {tool[t].id} /\ unheard' = unheard
      \/ unheard' = unheard \cup {tool[t].id} /\ hosted' = hosted
  BY DEF AgentWindows!CloseReplaced, AgentWindows!CloseLoser, AgentWindows!CloseNamed, AgentWindows!HostClose
<1>4. /\ \A u \in ToolCall : tool'[u] = IF u = t THEN to ELSE tool[u]
      /\ tool' \in [ToolCall -> ToolStates]
  BY <1>1, ToolGoes
<1>5. \A id : (Opened(id) => Opened(id)') /\ (Registered(id) => Registered(id)')
  <2>1. claims' \in Nat /\ claims' >= claims
    BY <1>0, <1>2
  <2>. QED
    BY <1>1, <2>1, OpenedStays DEF Claiming
<1>6. tool[t].id \in AgentWindows!Claim
  BY <1>0, <1>1 DEF NamesInv, HeardOfIsOpened, ToolStates, AgentWindows!Claim
<1>7. NamesTyped'
  BY <1>2, <1>3, <1>4, <1>6 DEF NamesInv, NamesTyped
<1>8. ClaimsAreOnes'
  BY <1>1, <1>2, ClaimsStay DEF Claiming
<1>9. EntriesAreTheirClaims'
  BY <1>2, <1>5 DEF NamesInv, EntriesAreTheirClaims
<1>10. HeardOfIsOpened' /\ GoneIsGone'
  BY <1>1, <1>3, <1>4, <1>5 DEF NamesInv, HeardOfIsOpened, GoneIsGone
<1>11. AgentWindows!NoWindowLeftBehind'
  BY <1>1, <1>2, <1>3, <1>4
  DEF NamesInv, AgentWindows!NoWindowLeftBehind, AgentWindows!Known, AgentWindows!Is
<1>12. AgentWindows!LaterClaimWins'
  BY <1>1, <1>2, <1>4 DEF NamesInv, AgentWindows!LaterClaimWins
<1>. QED
  BY <1>7, <1>8, <1>9, <1>10, <1>11, <1>12 DEF NamesInv

LEMMA HostOpenKeeps ==
    ASSUME NamesInv, NEW t \in ToolCall, AgentWindows!HostOpens(t) \/ AgentWindows!HostOpenFails(t)
    PROVE  NamesInv'
<1>0. MaxClaims \in Nat /\ claims \in Nat /\ tool[t] \in ToolStates
  BY NamesBounds DEF NamesInv, NamesTyped
<1>1. PICK to \in ToolStates :
        /\ tool' = [tool EXCEPT ![t] = to] /\ tool[t].at = "open"
        /\ to.claim = tool[t].claim /\ to.name = tool[t].name
        /\ \/ /\ to.at = "commit" /\ hosted' = hosted \cup {tool[t].claim} /\ unheard' = unheard
           \/ /\ to.at = "release" /\ hosted' = hosted /\ unheard' = unheard
           \/ /\ to.at = "release" /\ hosted' = hosted \cup {tool[t].claim} /\ unheard' = unheard \cup {tool[t].claim}
  <2>1. CASE AgentWindows!HostOpens(t)
    <3>. DEFINE to == [tool[t] EXCEPT !.at = "commit"]
    <3>1. to \in ToolStates /\ to.at = "commit" /\ to.claim = tool[t].claim /\ to.name = tool[t].name
      BY <1>0 DEF ToolStates, ToolSteps, Claiming
    <3>2. tool' = [tool EXCEPT ![t] = to] /\ tool[t].at = "open" /\ hosted' = hosted \cup {tool[t].claim} /\ unheard' = unheard
      BY <2>1 DEF AgentWindows!HostOpens, AgentWindows!Step, AgentWindows!Is
    <3>. HIDE DEF to
    <3>. QED
      BY <3>1, <3>2
  <2>2. CASE AgentWindows!HostOpenFails(t)
    <3>. DEFINE to == [tool[t] EXCEPT !.at = "release"]
    <3>1. to \in ToolStates /\ to.at = "release" /\ to.claim = tool[t].claim /\ to.name = tool[t].name
      BY <1>0 DEF ToolStates, ToolSteps, Claiming
    <3>2. /\ tool' = [tool EXCEPT ![t] = to] /\ tool[t].at = "open"
          /\ \/ hosted' = hosted /\ unheard' = unheard
             \/ hosted' = hosted \cup {tool[t].claim} /\ unheard' = unheard \cup {tool[t].claim}
      BY <2>2 DEF AgentWindows!HostOpenFails, AgentWindows!Step, AgentWindows!Is
    <3>. HIDE DEF to
    <3>. QED
      BY <3>1, <3>2
  <2>. QED
    BY <2>1, <2>2
<1>2. UNCHANGED <<names, claims>>
  BY DEF AgentWindows!HostOpens, AgentWindows!HostOpenFails
<1>4. /\ \A u \in ToolCall : tool'[u] = IF u = t THEN to ELSE tool[u]
      /\ tool' \in [ToolCall -> ToolStates]
  BY <1>1, ToolGoes
<1>5. \A id : (Opened(id) => Opened(id)') /\ (Registered(id) => Registered(id)')
  <2>1. claims' \in Nat /\ claims' >= claims
    BY <1>0, <1>2
  <2>. QED
    BY <1>1, <2>1, OpenedStays DEF Claiming
<1>6. tool[t].claim \in AgentWindows!Claim /\ tool[t].claim \in 1..claims
  BY <1>0, <1>1 DEF NamesInv, ClaimsAreOnes, Claiming, NamesTyped, AgentWindows!Claim
<1>7. NamesTyped'
  BY <1>1, <1>2, <1>4, <1>6 DEF NamesInv, NamesTyped
<1>8. ClaimsAreOnes'
  BY <1>1, <1>2, ClaimsStay DEF Claiming
<1>9. EntriesAreTheirClaims'
  BY <1>2, <1>5 DEF NamesInv, EntriesAreTheirClaims
<1>10. Opened(tool[t].claim)'
  BY <1>1, <1>2, <1>4, <1>6 DEF NamesInv, ClaimsAreOnes, Claiming, Opened
<1>11. HeardOfIsOpened'
  BY <1>1, <1>4, <1>5, <1>10 DEF NamesInv, HeardOfIsOpened
<1>12. GoneIsGone'
  <2>1. ~Opened(tool[t].claim)
    BY <1>1 DEF Opened
  <2>2. \A u \in ToolCall : tool'[u].at \in {"forget", "prune"} => tool'[u] = tool[u] /\ tool[u].at \in {"forget", "prune"}
    BY <1>1, <1>4
  <2>3. \A u \in ToolCall : tool[u].at = "forget" => tool[u].id # tool[t].claim
    BY <2>1 DEF NamesInv, HeardOfIsOpened, Registered
  <2>4. \A u \in ToolCall : tool[u].at = "prune" => \A id \in tool[u].asked : id # 0 => id # tool[t].claim
    BY <2>1 DEF NamesInv, HeardOfIsOpened, Registered
  <2>. QED
    BY <1>1, <2>2, <2>3, <2>4 DEF NamesInv, GoneIsGone
<1>13. AgentWindows!NoWindowLeftBehind'
  BY <1>1, <1>2, <1>4
  DEF NamesInv, AgentWindows!NoWindowLeftBehind, AgentWindows!Known, AgentWindows!Is
<1>14. AgentWindows!LaterClaimWins'
  BY <1>1, <1>2, <1>4 DEF NamesInv, AgentWindows!LaterClaimWins
<1>. QED
  BY <1>7, <1>8, <1>9, <1>11, <1>12, <1>13, <1>14 DEF NamesInv

\* A call that ends, or goes on to close what it forgot, may clear entries that show no window.
LEMMA ClearingKeeps ==
    ASSUME NamesInv, NEW t \in ToolCall, NEW to \in ToolStates,
           tool' = [tool EXCEPT ![t] = to], UNCHANGED <<claims, hosted, unheard>>,
           tool[t].at \in {"release", "forget", "forgetclose", "prune"},
           \/ to.at = "rest"
           \/ to.at = "close" /\ tool[t].at = "forgetclose" /\ to.id = tool[t].id,
           names' \in [Name -> [id : {0} \cup AgentWindows!Claim, claim : {0} \cup AgentWindows!Claim]],
           \A n \in Name : \/ names'[n] = names[n]
                           \/ /\ names'[n] = AgentWindows!NoEntry
                              /\ names[n].id # 0 /\ names[n].id \in hosted => to.at = "close" /\ to.id = names[n].id
    PROVE  NamesInv'
<1>1. \A u \in ToolCall : tool'[u] = IF u = t THEN to ELSE tool[u]
  BY ToolGoes
<1>2. \A id : (Opened(id) => Opened(id)') /\ (Registered(id) => Registered(id)')
  <2>1. claims' \in Nat /\ claims' >= claims
    BY NamesBounds DEF NamesInv, NamesTyped
  <2>2. to.at \notin Claiming /\ to.at \notin {"replace", "open"}
    BY DEF Claiming
  <2>. QED
    BY <2>1, <2>2, OpenedStays
<1>3. NamesTyped'
  <2>1. tool' \in [ToolCall -> ToolStates]
    BY ToolGoes
  <2>. QED
    BY <2>1 DEF NamesInv, NamesTyped
<1>4. ClaimsAreOnes'
  BY ClaimsStay DEF Claiming
<1>5. EntriesAreTheirClaims'
  <2>1. claims \in Nat
    BY NamesBounds DEF NamesInv, NamesTyped
  <2>. SUFFICES ASSUME NEW n \in Name
                PROVE  /\ names'[n].claim \in 0..claims /\ names'[n].id \in {0, names'[n].claim}
                       /\ \A id : id = names'[n].id /\ id # 0 => Registered(id)'
    BY DEF EntriesAreTheirClaims
  <2>2. CASE names'[n] = names[n]
    BY <1>2, <2>2 DEF NamesInv, EntriesAreTheirClaims
  <2>3. CASE names'[n] = AgentWindows!NoEntry
    BY <2>1, <2>3 DEF AgentWindows!NoEntry
  <2>. QED
    BY <2>2, <2>3
<1>6. HeardOfIsOpened'
  BY <1>1, <1>2 DEF NamesInv, HeardOfIsOpened
<1>7. GoneIsGone'
  BY <1>1 DEF NamesInv, GoneIsGone
<1>8. AgentWindows!NoWindowLeftBehind'
  <2>. SUFFICES ASSUME NEW id \in hosted PROVE AgentWindows!Known(id)'
    BY DEF AgentWindows!NoWindowLeftBehind
  <2>1. AgentWindows!Known(id) /\ id # 0
    BY DEF NamesInv, NamesTyped, AgentWindows!NoWindowLeftBehind, AgentWindows!Claim
  <2>2. CASE \E m \in Name : names[m].id = id
    <3>1. PICK m \in Name : names[m].id = id
      BY <2>2
    <3>2. CASE names'[m] = names[m]
      BY <3>1, <3>2 DEF AgentWindows!Known
    <3>3. CASE to.at = "close" /\ to.id = id
      BY <1>1, <3>3 DEF AgentWindows!Known
    <3>. QED
      BY <2>1, <3>1, <3>2, <3>3
  <2>3. CASE \E u \in ToolCall : \/ AgentWindows!Is(u, "commit") /\ tool[u].claim = id
                                 \/ tool[u].at \in {"replace", "loser", "close"} /\ tool[u].id = id
    BY <1>1, <2>3 DEF AgentWindows!Known, AgentWindows!Is
  <2>4. CASE id \in unheard
    BY <2>4 DEF AgentWindows!Known
  <2>. QED
    BY <2>1, <2>2, <2>3, <2>4 DEF AgentWindows!Known
<1>9. AgentWindows!LaterClaimWins'
  <2>1. \A n \in Name : names'[n].claim = names[n].claim \/ names'[n].claim = 0
    BY DEF AgentWindows!NoEntry
  <2>2. \A u \in ToolCall : tool[u].name \in Name
    BY ToolFields
  <2>. QED
    BY <1>1, <2>1, <2>2 DEF NamesInv, AgentWindows!LaterClaimWins
<1>. QED
  BY <1>3, <1>4, <1>5, <1>6, <1>7, <1>8, <1>9 DEF NamesInv

LEMMA ForgetsKeep ==
    ASSUME NamesInv, NEW t \in ToolCall,
           AgentWindows!Release(t) \/ AgentWindows!Forget(t) \/ AgentWindows!Prune(t)
    PROVE  NamesInv'
<1>. DEFINE Entries == [id : {0} \cup AgentWindows!Claim, claim : {0} \cup AgentWindows!Claim]
<1>0. names \in [Name -> Entries] /\ AgentWindows!NoEntry \in Entries /\ tool[t] \in ToolStates
  BY DEF NamesInv, NamesTyped, AgentWindows!NoEntry
<1>1. CASE AgentWindows!Release(t)
  <2>1. /\ tool' = [tool EXCEPT ![t] = AgentWindows!Resting] /\ tool[t].at = "release"
        /\ UNCHANGED <<claims, hosted, unheard>>
    BY <1>1 DEF AgentWindows!Release, AgentWindows!Done, AgentWindows!Step, AgentWindows!Is
  <2>2. names' \in [Name -> Entries] /\ \A n \in Name :
           names'[n] = names[n] \/ (names'[n] = AgentWindows!NoEntry /\ names[n].claim = tool[t].claim)
    BY <1>0, <1>1 DEF AgentWindows!Release, AgentWindows!Set
  <2>3. \A n \in Name : names[n].claim = tool[t].claim => names[n].id = 0
    BY <2>1 DEF NamesInv, EntriesAreTheirClaims, Registered, Claiming
  <2>. QED
    BY <2>1, <2>2, <2>3, NamesBounds, ClearingKeeps
<1>2. CASE AgentWindows!Forget(t)
  <2>1. UNCHANGED <<claims, hosted, unheard>> /\ tool[t].at \in {"forget", "forgetclose"}
    BY <1>2 DEF AgentWindows!Forget
  <2>2. names' \in [Name -> Entries] /\ \A n \in Name :
           names'[n] = names[n] \/ (names'[n] = AgentWindows!NoEntry /\ names[n].id = tool[t].id)
    BY <1>0, <1>2 DEF AgentWindows!Forget, AgentWindows!Set
  <2>3. CASE tool[t].at = "forget"
    <3>1. tool' = [tool EXCEPT ![t] = AgentWindows!Resting]
      BY <1>2, <2>3 DEF AgentWindows!Forget, AgentWindows!Done, AgentWindows!Step, AgentWindows!Is
    <3>2. tool[t].id \notin hosted
      BY <2>3 DEF NamesInv, GoneIsGone
    <3>. QED
      BY <2>1, <2>2, <2>3, <3>1, <3>2, NamesBounds, ClearingKeeps
  <2>4. CASE tool[t].at = "forgetclose"
    <3>. DEFINE to == [tool[t] EXCEPT !.at = "close"]
    <3>1. to \in ToolStates /\ to.at = "close" /\ to.id = tool[t].id
      BY <1>0 DEF ToolStates, ToolSteps
    <3>2. tool' = [tool EXCEPT ![t] = to]
      BY <1>2, <2>4 DEF AgentWindows!Forget, AgentWindows!Step, AgentWindows!Is
    <3>. HIDE DEF to
    <3>. QED
      BY <2>1, <2>2, <2>4, <3>1, <3>2, ClearingKeeps
  <2>. QED
    BY <2>1, <2>3, <2>4
<1>3. CASE AgentWindows!Prune(t)
  <2>1. /\ tool' = [tool EXCEPT ![t] = AgentWindows!Resting] /\ tool[t].at = "prune"
        /\ UNCHANGED <<claims, hosted, unheard>>
    BY <1>3 DEF AgentWindows!Prune, AgentWindows!Done, AgentWindows!Step, AgentWindows!Is
  <2>2. names' \in [Name -> Entries] /\ \A n \in Name :
           names'[n] = names[n] \/ (names'[n] = AgentWindows!NoEntry /\ ~AgentWindows!Stays(t, names[n].id))
    BY <1>0, <1>3 DEF AgentWindows!Prune
  <2>3. \A n \in Name : ~AgentWindows!Stays(t, names[n].id) => names[n].id \notin hosted
    BY <2>1 DEF NamesInv, GoneIsGone, AgentWindows!Stays
  <2>. QED
    BY <2>1, <2>2, <2>3, NamesBounds, ClearingKeeps
<1>. QED
  BY <1>1, <1>2, <1>3

LEMMA ClaimCommitKeeps ==
    ASSUME NamesInv, NEW t \in ToolCall, AgentWindows!Commit(t)
    PROVE  NamesInv'
<1>0. MaxClaims \in Nat /\ claims \in Nat /\ tool[t] \in ToolStates /\ tool[t].at = "commit" /\ tool[t].name \in Name
  BY NamesBounds, ToolFields DEF NamesInv, NamesTyped, AgentWindows!Commit, AgentWindows!Is
<1>1. tool[t].claim \in AgentWindows!Claim /\ tool[t].claim \in 1..claims /\ Opened(tool[t].claim)
  BY <1>0 DEF NamesInv, ClaimsAreOnes, Claiming, NamesTyped, AgentWindows!Claim, Opened
<1>2. PICK to \in ToolStates :
        /\ tool' = [tool EXCEPT ![t] = to]
        /\ \/ /\ to.at = "rest" /\ names[tool[t].name].claim = tool[t].claim
              /\ names' = [names EXCEPT ![tool[t].name] = [id |-> tool[t].claim, claim |-> tool[t].claim]]
           \/ to.at = "loser" /\ to.id = tool[t].claim /\ UNCHANGED names
  <2>1. CASE names[tool[t].name].claim = tool[t].claim
    BY <2>1, NamesBounds DEF AgentWindows!Commit, AgentWindows!Set, AgentWindows!Done, AgentWindows!Step
  <2>2. CASE names[tool[t].name].claim # tool[t].claim
    <3>. DEFINE to == [tool[t] EXCEPT !.at = "loser", !.id = tool[t].claim]
    <3>1. to \in ToolStates /\ to.at = "loser" /\ to.id = tool[t].claim
      BY <1>0, <1>1 DEF ToolStates, ToolSteps
    <3>2. tool' = [tool EXCEPT ![t] = to] /\ UNCHANGED names
      BY <2>2 DEF AgentWindows!Commit, AgentWindows!Step
    <3>. HIDE DEF to
    <3>. QED
      BY <3>1, <3>2
  <2>. QED
    BY <2>1, <2>2
<1>3. UNCHANGED <<claims, hosted, unheard>>
  BY DEF AgentWindows!Commit
<1>4. /\ \A u \in ToolCall : tool'[u] = IF u = t THEN to ELSE tool[u]
      /\ tool' \in [ToolCall -> ToolStates]
  BY <1>2, ToolGoes
<1>5. \A id : (Opened(id) => Opened(id)') /\ (Registered(id) => Registered(id)')
  <2>1. claims' \in Nat /\ claims' >= claims
    BY <1>0, <1>3
  <2>. QED
    BY <1>2, <2>1, OpenedStays DEF Claiming
<1>6. NamesTyped'
  <2>1. names' \in [Name -> [id : {0} \cup AgentWindows!Claim, claim : {0} \cup AgentWindows!Claim]]
    BY <1>1, <1>2 DEF NamesInv, NamesTyped
  <2>. QED
    BY <1>3, <1>4, <2>1 DEF NamesInv, NamesTyped
<1>7. ClaimsAreOnes'
  BY <1>2, <1>3, ClaimsStay DEF Claiming
<1>. PICK mine : mine = tool[t].claim
  OBVIOUS
<1>8. Registered(mine)'
  BY <1>0, <1>1, <1>2, <1>3, <1>4, <1>5 DEF NamesInv, ClaimsAreOnes, Claiming, Opened, Registered
<1>9. \A n \in Name : names'[n] = names[n] \/ names'[n] = [id |-> tool[t].claim, claim |-> tool[t].claim]
  BY <1>2 DEF NamesInv, NamesTyped
<1>10. EntriesAreTheirClaims'
  BY <1>1, <1>3, <1>5, <1>8, <1>9 DEF NamesInv, EntriesAreTheirClaims
<1>11. HeardOfIsOpened' /\ GoneIsGone'
  BY <1>1, <1>2, <1>3, <1>4, <1>5 DEF NamesInv, HeardOfIsOpened, GoneIsGone
<1>12. AgentWindows!NoWindowLeftBehind'
  <2>. SUFFICES ASSUME NEW id \in hosted PROVE AgentWindows!Known(id)'
    BY <1>3 DEF AgentWindows!NoWindowLeftBehind
  <2>1. AgentWindows!Known(id) /\ id # 0
    BY DEF NamesInv, NamesTyped, AgentWindows!NoWindowLeftBehind, AgentWindows!Claim
  <2>2. CASE id = tool[t].claim
    <3>1. CASE to.at = "loser" /\ to.id = tool[t].claim
      BY <1>4, <2>2, <3>1 DEF AgentWindows!Known
    <3>2. CASE names' = [names EXCEPT ![tool[t].name] = [id |-> tool[t].claim, claim |-> tool[t].claim]]
      <4>1. names'[tool[t].name].id = id
        BY <1>0, <2>2, <3>2 DEF NamesInv, NamesTyped
      <4>. QED
        BY <1>0, <4>1 DEF AgentWindows!Known
    <3>. QED
      BY <1>2, <3>1, <3>2
  <2>3. CASE id # tool[t].claim /\ \E m \in Name : names[m].id = id
    <3>1. PICK m \in Name : names[m].id = id
      BY <2>3
    <3>2. names'[m] = names[m]
      <4>1. m # tool[t].name \/ names[m].claim # tool[t].claim
        BY <2>1, <2>3, <3>1 DEF NamesInv, EntriesAreTheirClaims
      <4>. QED
        BY <1>2, <4>1 DEF NamesInv, NamesTyped
    <3>. QED
      BY <3>1, <3>2 DEF AgentWindows!Known
  <2>4. CASE \E u \in ToolCall :
                /\ u # t
                /\ \/ AgentWindows!Is(u, "commit") /\ tool[u].claim = id
                   \/ tool[u].at \in {"replace", "loser", "close"} /\ tool[u].id = id
    BY <1>0, <1>4, <2>4 DEF AgentWindows!Known, AgentWindows!Is
  <2>5. CASE id \in unheard
    BY <1>3, <2>5 DEF AgentWindows!Known
  <2>6. /\ AgentWindows!Is(t, "commit") /\ tool[t].claim = id => id = tool[t].claim
        /\ tool[t].at \notin {"replace", "loser", "close"}
    BY <1>0
  <2>. QED
    BY <2>1, <2>2, <2>3, <2>4, <2>5, <2>6 DEF AgentWindows!Known
<1>13. AgentWindows!LaterClaimWins'
  <2>1. \A n \in Name : names'[n].claim = names[n].claim
    BY <1>2 DEF NamesInv, NamesTyped
  <2>2. \A u \in ToolCall : tool[u].name \in Name
    BY ToolFields
  <2>. QED
    BY <1>2, <1>4, <2>1, <2>2 DEF NamesInv, AgentWindows!LaterClaimWins
<1>. QED
  BY <1>6, <1>7, <1>10, <1>11, <1>12, <1>13 DEF NamesInv

LEMMA LooksKeep ==
    ASSUME NamesInv, NEW t \in ToolCall,
           \/ \E n \in Name : AgentWindows!LookUp(t, n)
           \/ AgentWindows!HostExists(t) \/ AgentWindows!ListAsked(t)
           \/ AgentWindows!HostLists(t) \/ AgentWindows!HostListFails(t)
    PROVE  NamesInv'
<1>0. tool[t] \in ToolStates /\ AgentWindows!Resting \in ToolStates /\ AgentWindows!Resting.at = "rest"
  BY NamesBounds, ToolFields
<1>. USE DEF AgentWindows!Step, AgentWindows!Is, AgentWindows!Done
<1>1. ASSUME NEW n \in Name, AgentWindows!LookUp(t, n)
      PROVE  NamesInv'
  <2>. DEFINE to == [AgentWindows!Resting EXCEPT !.at = "ask", !.name = n, !.id = names[n].id]
  <2>0. names[n].id \in 0..MaxClaims
    BY NamesBounds DEF NamesInv, NamesTyped, AgentWindows!Claim
  <2>1. to \in ToolStates /\ to.at = "ask" /\ to.id = names[n].id
    BY <1>0, <2>0 DEF ToolStates, ToolSteps
  <2>2. tool' = [tool EXCEPT ![t] = to] /\ tool[t].at = "rest" /\ names[n].id # 0
        /\ UNCHANGED <<names, claims, hosted, unheard>>
    BY <1>1 DEF AgentWindows!LookUp
  <2>3. Registered(names[n].id)
    BY <2>2 DEF NamesInv, EntriesAreTheirClaims
  <2>. HIDE DEF to
  <2>. QED
    BY <2>1, <2>2, <2>3, CallGoesOn DEF Claiming
<1>2. CASE AgentWindows!HostExists(t)
  <2>1. tool[t].at = "ask" /\ UNCHANGED <<names, claims, hosted, unheard>> /\ tool[t].id # 0 /\ Registered(tool[t].id)
    BY <1>2 DEF AgentWindows!HostExists, NamesInv, HeardOfIsOpened
  <2>2. CASE tool' = [tool EXCEPT ![t] = AgentWindows!Resting]
    BY <1>0, <2>1, <2>2, CallGoesOn DEF Claiming
  <2>3. ASSUME NEW step \in {"forget", "forgetclose"}, tool' = [tool EXCEPT ![t] = [tool[t] EXCEPT !.at = step]],
               step = "forget" => tool[t].id \notin hosted
        PROVE  NamesInv'
    <3>. DEFINE to == [tool[t] EXCEPT !.at = step]
    <3>1. to \in ToolStates /\ to.at = step /\ to.id = tool[t].id
      BY <1>0 DEF ToolStates, ToolSteps
    <3>2. tool' = [tool EXCEPT ![t] = to]
      BY <2>3
    <3>. HIDE DEF to
    <3>. QED
      BY <2>1, <2>3, <3>1, <3>2, CallGoesOn DEF Claiming
  <2>. QED
    BY <1>2, <2>2, <2>3 DEF AgentWindows!HostExists
<1>3. CASE AgentWindows!ListAsked(t)
  <2>. DEFINE to == [AgentWindows!Resting EXCEPT !.at = "list", !.asked = {names[n].id : n \in Name}]
  <2>0. {names[n].id : n \in Name} \subseteq 0..MaxClaims
    BY NamesBounds DEF NamesInv, NamesTyped, AgentWindows!Claim
  <2>1. to \in ToolStates /\ to.at = "list" /\ to.asked = {names[n].id : n \in Name}
    BY <1>0, <2>0 DEF ToolStates, ToolSteps
  <2>2. tool' = [tool EXCEPT ![t] = to] /\ tool[t].at = "rest" /\ UNCHANGED <<names, claims, hosted, unheard>>
    BY <1>3 DEF AgentWindows!ListAsked
  <2>. HIDE DEF to
  <2>3. \A id \in to.asked : id # 0 => Registered(id)
    BY <2>1 DEF NamesInv, EntriesAreTheirClaims
  <2>. QED
    BY <2>1, <2>2, <2>3, CallGoesOn DEF Claiming
<1>4. CASE AgentWindows!HostLists(t)
  <2>. DEFINE to == [tool[t] EXCEPT !.at = "prune", !.live = hosted]
  <2>1. to \in ToolStates /\ to.at = "prune" /\ to.live = hosted /\ to.asked = tool[t].asked
    BY <1>0 DEF ToolStates, ToolSteps, NamesInv, NamesTyped
  <2>2. tool' = [tool EXCEPT ![t] = to] /\ tool[t].at = "list" /\ UNCHANGED <<names, claims, hosted, unheard>>
    BY <1>4 DEF AgentWindows!HostLists
  <2>. HIDE DEF to
  <2>3. \A id \in to.asked : id # 0 => Registered(id)
    BY <2>1, <2>2 DEF NamesInv, HeardOfIsOpened
  <2>. QED
    BY <2>1, <2>2, <2>3, CallGoesOn DEF Claiming
<1>5. CASE AgentWindows!HostListFails(t)
  <2>1. /\ tool' = [tool EXCEPT ![t] = AgentWindows!Resting] /\ tool[t].at = "list"
        /\ UNCHANGED <<names, claims, hosted, unheard>>
    BY <1>5 DEF AgentWindows!HostListFails
  <2>. QED
    BY <1>0, <2>1, CallGoesOn DEF Claiming
<1>. QED
  BY <1>1, <1>2, <1>3, <1>4, <1>5

LEMMA NamesStep == NamesInv /\ [AgentWindows!Next]_(AgentWindows!nameVars) => NamesInv'
<1>. SUFFICES ASSUME NamesInv, [AgentWindows!Next]_(AgentWindows!nameVars)
              PROVE  NamesInv'
  OBVIOUS
<1>1. ASSUME NEW id \in hosted, AgentWindows!ClosedOutside(id)
      PROVE  NamesInv'
  <2>1. hosted' \subseteq hosted /\ UNCHANGED <<names, claims, unheard, tool>>
    BY <1>1 DEF AgentWindows!ClosedOutside
  <2>. QED
    BY <2>1 DEF NamesInv, NamesTyped, ClaimsAreOnes, EntriesAreTheirClaims, HeardOfIsOpened, GoneIsGone, Registered,
       Opened, AgentWindows!NoWindowLeftBehind, AgentWindows!Known, AgentWindows!Is, AgentWindows!LaterClaimWins
<1>2. CASE UNCHANGED AgentWindows!nameVars
  BY <1>2 DEF AgentWindows!nameVars, NamesInv, NamesTyped, ClaimsAreOnes, EntriesAreTheirClaims, HeardOfIsOpened,
     GoneIsGone, Registered, Opened, AgentWindows!NoWindowLeftBehind, AgentWindows!Known, AgentWindows!Is,
     AgentWindows!LaterClaimWins
<1>. QED
  BY <1>1, <1>2, ClaimNameKeeps, HostCloseKeeps, HostOpenKeeps, ForgetsKeep, ClaimCommitKeeps, LooksKeep, Zenon
  DEF AgentWindows!Next

LEMMA NamesShow == NamesInv => AgentWindows!NamesTypeOK /\ AgentWindows!WindowNamesAreFaithful
  BY ToolFields DEF NamesInv, NamesTyped, AgentWindows!NamesTypeOK, AgentWindows!WindowNamesAreFaithful

-----------------------------------------------------------------------------
(* The terminals.  What is on its way to the page runs on from what it shows,   *)
(* up to the last chunk sent.                                                   *)

written == v1
buffer == v2
streamBy == v3
served == v4
isOver == v5
sent == v6
mounts == v7
screen == v8
firsts == v9
USE DEF written, buffer, streamBy, served, isOver, sent, mounts, screen, firsts

RunsOn(chunks) == \A i \in 1..(Len(chunks) - 1) : chunks[i + 1] = chunks[i] + 1
EndsAt(chunks, n) == chunks # << >> => chunks[Len(chunks)] = n

Sent(k) == IF k = 0 THEN screen ELSE sent[k].chunks
SentSoFar == IF streamBy = Terminal!Pump THEN written - 1 ELSE written

TerminalTyped ==
    /\ Terminal!TerminalTypeOK
    /\ buffer \in Seq(Nat) /\ screen \in Seq(Nat) /\ firsts \in Nat
    /\ sent \in Seq([replay : BOOLEAN, chunks : Seq(Nat)])

BufferIsTheLast ==
    /\ Len(buffer) <= written
    /\ \A i \in 1..Len(buffer) : buffer[i] = written - Len(buffer) + i

StreamIsHeld ==
    /\ streamBy = Terminal!Pump => written > 0
    /\ \A m \in Mount : mounts[m] \in {"resize", "live", "replay"} => streamBy = m

SentInOrder ==
    /\ RunsOn(screen)
    /\ \A k \in 1..Len(sent) :
        /\ RunsOn(sent[k].chunks)
        /\ ~sent[k].replay => /\ Len(sent[k].chunks) = 1
                              /\ EndsAt(Sent(k - 1), sent[k].chunks[1] - 1)
    /\ EndsAt(Sent(Len(sent)), SentSoFar)

TerminalInv ==
    /\ TerminalTyped
    /\ BufferIsTheLast /\ StreamIsHeld /\ SentInOrder
    /\ firsts <= 1 /\ (firsts > 0 => served)

LEMMA TerminalInit == Terminal!Init => TerminalInv
<1>. SUFFICES ASSUME Terminal!Init PROVE TerminalInv
  OBVIOUS
<1>0. Limit \in Nat /\ MaxChunks \in Nat
  BY PartsAssumption DEF Terminal!TerminalAssumption
<1>1. /\ written = 0 /\ buffer = << >> /\ streamBy = "nobody" /\ served \in BOOLEAN /\ isOver = FALSE
      /\ sent = << >> /\ screen = << >> /\ firsts = 0
  BY DEF Terminal!Init, Terminal!Nobody
<1>2. mounts \in [Mount -> {"idle"}]
  BY DEF Terminal!Init
<1>3. mounts \in [Mount -> {"idle", "resize", "live", "replay", "done"}]
      /\ \A m \in Mount : mounts[m] \notin {"resize", "live", "replay"}
  BY <1>2
<1>4. isOver \in BOOLEAN
  BY <1>1, Zenon
<1>5. TerminalTyped
  BY <1>0, <1>1, <1>3, <1>4 DEF TerminalTyped, Terminal!TerminalTypeOK, Terminal!Nobody, Terminal!Pump
<1>6. BufferIsTheLast /\ StreamIsHeld /\ SentInOrder
  BY <1>1, <1>3 DEF BufferIsTheLast, StreamIsHeld, SentInOrder, RunsOn, EndsAt, Sent, Terminal!Pump
<1>. QED
  BY <1>1, <1>5, <1>6 DEF TerminalInv

\* What is sent next runs on from what was sent so far, or starts the screen over.
LEMMA SendsInOrder ==
    ASSUME TerminalInv, NEW chunks \in Seq(Nat), NEW again \in BOOLEAN,
           sent' = Append(sent, [replay |-> again, chunks |-> chunks]), UNCHANGED screen,
           RunsOn(chunks), EndsAt(chunks, SentSoFar'),
           ~again => Len(chunks) = 1 /\ EndsAt(Sent(Len(sent)), chunks[1] - 1)
    PROVE  SentInOrder'
<1>1. sent \in Seq([replay : BOOLEAN, chunks : Seq(Nat)])
  BY DEF TerminalInv, TerminalTyped
<1>2. /\ Len(sent') = Len(sent) + 1 /\ Len(sent) \in Nat
      /\ \A k \in 1..Len(sent) : sent'[k] = sent[k]
      /\ sent'[Len(sent) + 1] = [replay |-> again, chunks |-> chunks]
  BY <1>1
<1>3. \A k \in 0..Len(sent) : Sent(k)' = Sent(k)
  BY <1>2 DEF Sent
<1>4. \A k : k = Len(sent) + 1 => Sent(k)' = chunks
  BY <1>2 DEF Sent
<1>5. ASSUME NEW k \in 1..Len(sent')
      PROVE  /\ RunsOn(sent'[k].chunks)
             /\ ~sent'[k].replay => /\ Len(sent'[k].chunks) = 1
                                    /\ \A j : j = k - 1 => EndsAt(Sent(j)', sent'[k].chunks[1] - 1)
  <2>1. CASE k \in 1..Len(sent)
    <3>1. sent'[k] = sent[k] /\ k - 1 \in 0..Len(sent)
      BY <1>2, <2>1
    <3>2. Sent(k - 1)' = Sent(k - 1)
      BY <1>3, <3>1
    <3>. QED
      BY <2>1, <3>1, <3>2 DEF TerminalInv, SentInOrder
  <2>2. CASE k = Len(sent) + 1
    <3>1. sent'[k].chunks = chunks /\ sent'[k].replay = again
      BY <1>2, <2>2
    <3>2. \A j : j = k - 1 => Sent(j)' = Sent(Len(sent))
      BY <1>2, <1>3, <2>2
    <3>. QED
      BY <3>1, <3>2
  <2>. QED
    BY <1>2, <2>1, <2>2
<1>6. RunsOn(screen)' /\ EndsAt(Sent(Len(sent)), SentSoFar)'
  BY <1>2, <1>4 DEF TerminalInv, SentInOrder, RunsOn
<1>. QED
  BY <1>5, <1>6 DEF SentInOrder

LEMMA TerminalStep == TerminalInv /\ [Terminal!Next]_(Terminal!terminalVars) => TerminalInv'
<1>. SUFFICES ASSUME TerminalInv, [Terminal!Next]_(Terminal!terminalVars)
              PROVE  TerminalInv'
  OBVIOUS
<1>0. /\ Limit \in Nat /\ MaxChunks \in Nat /\ written \in 0..MaxChunks
      /\ Terminal!Nobody \notin Mount /\ Terminal!Pump \notin Mount /\ Terminal!Nobody # Terminal!Pump
  BY PartsAssumption
  DEF Terminal!TerminalAssumption, TerminalInv, TerminalTyped, Terminal!TerminalTypeOK, Terminal!Nobody, Terminal!Pump
<1>1. CASE Terminal!PumpWrites
  <2>1. /\ streamBy = Terminal!Nobody /\ streamBy' = Terminal!Pump /\ written' = written + 1 /\ written' \in 0..MaxChunks
        /\ UNCHANGED <<served, isOver, sent, mounts, screen, firsts>>
    BY <1>0, <1>1 DEF Terminal!PumpWrites
  <2>2. /\ buffer' \in Seq(Nat) /\ Len(buffer') <= Limit /\ Len(buffer') <= written'
        /\ \A i \in 1..Len(buffer') : buffer'[i] = written' - Len(buffer') + i
    <3>. DEFINE more == Append(buffer, written + 1)
    <3>1. /\ more \in Seq(Nat) /\ Len(more) = Len(buffer) + 1 /\ Len(more) \in Nat \ {0}
          /\ \A i \in 1..Len(buffer) : more[i] = buffer[i]
          /\ more[Len(buffer) + 1] = written + 1
      BY <1>0 DEF TerminalInv, TerminalTyped
    <3>2. Len(more) <= written' /\ Len(buffer) <= Limit /\ \A i \in 1..Len(more) : more[i] = written' - Len(more) + i
      BY <1>0, <2>1, <3>1 DEF TerminalInv, TerminalTyped, Terminal!TerminalTypeOK, BufferIsTheLast
    <3>3. buffer' = IF Len(more) > Limit THEN Tail(more) ELSE more
      BY <1>1 DEF Terminal!PumpWrites, Terminal!Retained
    <3>. HIDE DEF more
    <3>4. Tail(more) \in Seq(Nat) /\ Len(Tail(more)) = Len(more) - 1
          /\ \A i \in 1..Len(Tail(more)) : Tail(more)[i] = more[i + 1]
      BY <3>1
    <3>5. CASE Len(more) > Limit
      <4>1. buffer' = Tail(more)
        BY <3>3, <3>5
      <4>2. Len(buffer') = Len(more) - 1 /\ Len(more) - 1 <= Limit
        BY <1>0, <3>1, <3>2, <3>4, <4>1
      <4>3. \A i \in 1..Len(buffer') : buffer'[i] = more[i + 1] /\ i + 1 \in 1..Len(more)
        BY <3>1, <3>4, <4>1, <4>2
      <4>4. ASSUME NEW i \in 1..Len(buffer') PROVE buffer'[i] = written' - Len(buffer') + i
        <5>1. buffer'[i] = written' - Len(more) + (i + 1)
          BY <3>2, <4>3
        <5>. QED
          BY <2>1, <3>1, <4>2, <5>1
      <4>5. Len(buffer') <= written' /\ buffer' \in Seq(Nat)
        BY <2>1, <3>1, <3>2, <3>4, <4>1, <4>2
      <4>. QED
        BY <1>0, <3>1, <4>2, <4>4, <4>5
    <3>6. CASE Len(more) <= Limit
      BY <1>0, <3>1, <3>2, <3>3, <3>6
    <3>. QED
      BY <1>0, <3>1, <3>5, <3>6
  <2>3. SentSoFar' = SentSoFar
    BY <1>0, <2>1 DEF SentSoFar
  <2>4. TerminalTyped' /\ BufferIsTheLast'
    BY <1>0, <2>1, <2>2 DEF TerminalInv, TerminalTyped, Terminal!TerminalTypeOK, BufferIsTheLast
  <2>5. StreamIsHeld'
    BY <1>0, <2>1 DEF TerminalInv, StreamIsHeld
  <2>6. SentInOrder'
    BY <2>1, <2>3 DEF TerminalInv, SentInOrder, Sent
  <2>. QED
    BY <2>1, <2>4, <2>5, <2>6 DEF TerminalInv
<1>2. CASE Terminal!PumpSends
  <2>1. /\ streamBy = Terminal!Pump /\ streamBy' = Terminal!Nobody /\ written > 0
        /\ sent' = Append(sent, [replay |-> FALSE, chunks |-> <<written>>])
        /\ UNCHANGED <<written, buffer, served, isOver, mounts, screen, firsts>>
    BY <1>2 DEF Terminal!PumpSends, TerminalInv, StreamIsHeld
  <2>2. /\ <<written>> \in Seq(Nat) /\ RunsOn(<<written>>) /\ EndsAt(<<written>>, SentSoFar')
        /\ Len(<<written>>) = 1 /\ EndsAt(Sent(Len(sent)), <<written>>[1] - 1)
    BY <1>0, <2>1 DEF RunsOn, EndsAt, SentSoFar, TerminalInv, SentInOrder
  <2>3. SentInOrder'
    BY <2>1, <2>2, SendsInOrder, Zenon
  <2>4. TerminalTyped'
    BY <1>0, <2>1, <2>2 DEF TerminalInv, TerminalTyped, Terminal!TerminalTypeOK
  <2>5. StreamIsHeld' /\ BufferIsTheLast'
    BY <1>0, <2>1 DEF TerminalInv, StreamIsHeld, BufferIsTheLast
  <2>. QED
    BY <2>1, <2>3, <2>4, <2>5 DEF TerminalInv
<1>3. ASSUME NEW m \in Mount, Terminal!Replay(m)
      PROVE  TerminalInv'
  <2>1. /\ mounts[m] \in {"live", "replay"} /\ streamBy = m /\ streamBy' = Terminal!Nobody /\ served' = TRUE
        /\ firsts' = (IF mounts[m] = "live" /\ ~served THEN firsts + 1 ELSE firsts)
        /\ mounts' = [mounts EXCEPT ![m] = "done"]
        /\ sent' = Append(sent, [replay |-> TRUE, chunks |-> buffer])
        /\ UNCHANGED <<written, buffer, isOver, screen>>
    BY <1>3 DEF Terminal!Replay, TerminalInv, StreamIsHeld
  <2>2. buffer \in Seq(Nat) /\ RunsOn(buffer) /\ EndsAt(buffer, SentSoFar')
    <3>1. buffer \in Seq(Nat) /\ SentSoFar' = written
      BY <1>0, <2>1 DEF TerminalInv, TerminalTyped, SentSoFar
    <3>. QED
      BY <1>0, <3>1 DEF TerminalInv, BufferIsTheLast, RunsOn, EndsAt
  <2>3. SentInOrder'
    BY <2>1, <2>2, SendsInOrder, Zenon
  <2>4. mounts' \in [Mount -> {"idle", "resize", "live", "replay", "done"}]
    BY <2>1 DEF TerminalInv, TerminalTyped, Terminal!TerminalTypeOK
  <2>5. firsts' \in Nat /\ firsts' <= 1 /\ served' \in BOOLEAN
    BY <2>1 DEF TerminalInv, TerminalTyped
  <2>6. TerminalTyped'
    BY <1>0, <2>1, <2>2, <2>4, <2>5 DEF TerminalInv, TerminalTyped, Terminal!TerminalTypeOK
  <2>7. StreamIsHeld' /\ BufferIsTheLast'
    BY <1>0, <2>1 DEF TerminalInv, TerminalTyped, Terminal!TerminalTypeOK, StreamIsHeld, BufferIsTheLast
  <2>. QED
    BY <2>1, <2>3, <2>5, <2>6, <2>7 DEF TerminalInv
<1>4. CASE Terminal!Arrives
  <2>1. /\ sent # << >> /\ sent' = Tail(sent) /\ sent \in Seq([replay : BOOLEAN, chunks : Seq(Nat)])
        /\ screen' = IF sent[1].replay THEN sent[1].chunks ELSE screen \o sent[1].chunks
        /\ UNCHANGED <<written, buffer, streamBy, served, isOver, mounts, firsts>>
    BY <1>4 DEF Terminal!Arrives, TerminalInv, TerminalTyped
  <2>2. /\ Len(sent) \in Nat \ {0} /\ sent' \in Seq([replay : BOOLEAN, chunks : Seq(Nat)]) /\ Len(sent') = Len(sent) - 1
        /\ \A k \in 1..Len(sent') : sent'[k] = sent[k + 1]
        /\ sent[1] \in [replay : BOOLEAN, chunks : Seq(Nat)]
    <3>. DEFINE Events == [replay : BOOLEAN, chunks : Seq(Nat)]
    <3>0. sent \in Seq(Events) /\ sent # << >> /\ sent' = Tail(sent)
      BY <2>1
    <3>. HIDE DEF Events
    <3>1. Len(sent) \in Nat \ {0} /\ sent' \in Seq(Events) /\ Len(sent') = Len(sent) - 1
      BY <3>0
    <3>2. \A k \in 1..Len(sent') : sent'[k] = sent[k + 1]
      BY <3>0, <3>1
    <3>3. sent[1] \in Events
      BY <3>0, <3>1
    <3>. QED
      BY <3>1, <3>2, <3>3 DEF Events
  <2>3. /\ screen' \in Seq(Nat) /\ RunsOn(screen')
        /\ \A n : EndsAt(sent[1].chunks, n) => EndsAt(screen', n)
    <3>1. screen \in Seq(Nat) /\ sent[1].chunks \in Seq(Nat) /\ RunsOn(screen) /\ RunsOn(sent[1].chunks)
      BY <2>2 DEF TerminalInv, TerminalTyped, SentInOrder
    <3>2. CASE sent[1].replay
      BY <2>1, <3>1, <3>2
    <3>3. CASE ~sent[1].replay
      <4>1. Len(sent[1].chunks) = 1 /\ EndsAt(screen, sent[1].chunks[1] - 1)
        <5>1. Sent(1 - 1) = screen
          BY DEF Sent
        <5>. QED
          BY <2>2, <3>3, <5>1 DEF TerminalInv, SentInOrder
      <4>2. PICK x \in Nat : x = sent[1].chunks[1]
        BY <3>1, <4>1
      <4>3. /\ screen' \in Seq(Nat) /\ Len(screen') = Len(screen) + 1 /\ screen'[Len(screen) + 1] = x
            /\ \A i \in 1..Len(screen) : screen'[i] = screen[i] /\ screen[i] \in Nat
        <5>. DEFINE chunks == sent[1].chunks
        <5>1. chunks \in Seq(Nat) /\ Len(chunks) = 1 /\ chunks[1] = x /\ screen' = screen \o chunks
          BY <2>1, <3>1, <3>3, <4>1, <4>2
        <5>. HIDE DEF chunks
        <5>2. screen \o chunks \in Seq(Nat) /\ Len(screen \o chunks) = Len(screen) + 1
          <6>1. screen \in Seq(Nat) /\ chunks \in Seq(Nat)
            BY <3>1, <5>1
          <6>2. screen \o chunks \in Seq(Nat) /\ Len(screen \o chunks) = Len(screen) + Len(chunks)
            BY <6>1, ConcatProperties, Zenon
          <6>. QED
            BY <5>1, <6>2
        <5>3. (screen \o chunks)[Len(screen) + 1] = x
          BY <3>1, <5>1, <5>2
        <5>4. \A i \in 1..Len(screen) : (screen \o chunks)[i] = screen[i] /\ screen[i] \in Nat
          BY <3>1, <5>1, <5>2
        <5>. QED
          BY <5>1, <5>2, <5>3, <5>4
      <4>4. RunsOn(screen')
        <5>0. Len(screen) \in Nat /\ (screen # << >> <=> Len(screen) # 0)
          BY <3>1
        <5>. SUFFICES ASSUME NEW i \in 1..Len(screen) PROVE screen'[i + 1] = screen'[i] + 1
          BY <4>3, <5>0 DEF RunsOn
        <5>1. CASE i = Len(screen)
          BY <4>1, <4>2, <4>3, <5>0, <5>1 DEF EndsAt
        <5>2. CASE i # Len(screen)
          <6>1. i \in 1..(Len(screen) - 1) /\ i + 1 \in 1..Len(screen)
            BY <5>0, <5>2
          <6>. QED
            BY <3>1, <4>3, <6>1 DEF RunsOn
        <5>. QED
          BY <5>1, <5>2
      <4>5. \A n : EndsAt(sent[1].chunks, n) => EndsAt(screen', n)
        BY <3>1, <4>1, <4>2, <4>3 DEF EndsAt
      <4>. QED
        BY <4>3, <4>4, <4>5
    <3>. QED
      BY <3>2, <3>3
  <2>4. \A k \in 0..Len(sent') : \A n : EndsAt(Sent(k + 1), n) => EndsAt(Sent(k)', n)
    <3>. SUFFICES ASSUME NEW k \in 0..Len(sent'), NEW n, EndsAt(Sent(k + 1), n) PROVE EndsAt(Sent(k)', n)
      OBVIOUS
    <3>1. CASE k = 0
      BY <2>3, <3>1 DEF Sent
    <3>2. CASE k # 0
      BY <2>2, <3>2 DEF Sent
    <3>. QED
      BY <3>1, <3>2
  <2>5. SentInOrder'
    <3>1. ASSUME NEW k \in 1..Len(sent')
          PROVE  /\ RunsOn(sent'[k].chunks)
                 /\ ~sent'[k].replay => /\ Len(sent'[k].chunks) = 1
                                        /\ \A j : j = k - 1 => EndsAt(Sent(j)', sent'[k].chunks[1] - 1)
      <4>1. k + 1 \in 1..Len(sent) /\ sent'[k] = sent[k + 1] /\ (k + 1) - 1 = k /\ k - 1 \in 0..Len(sent') /\ (k - 1) + 1 = k
        BY <2>2
      <4>. QED
        BY <2>4, <4>1 DEF TerminalInv, SentInOrder
    <3>2. EndsAt(Sent(Len(sent)), SentSoFar)'
      <4>1. EndsAt(Sent(Len(sent)), SentSoFar) /\ SentSoFar' = SentSoFar
        BY <2>1 DEF TerminalInv, SentInOrder, SentSoFar
      <4>2. \A k : k = Len(sent') => k \in 0..Len(sent') /\ k + 1 = Len(sent)
        BY <2>2
      <4>3. \A k : k = Len(sent') => EndsAt(Sent(k)', SentSoFar)
        BY <2>4, <4>1, <4>2
      <4>. QED
        BY <4>1, <4>3
    <3>. QED
      BY <2>3, <3>1, <3>2 DEF SentInOrder
  <2>6. TerminalTyped'
    BY <1>0, <2>1, <2>2, <2>3 DEF TerminalInv, TerminalTyped, Terminal!TerminalTypeOK
  <2>7. StreamIsHeld' /\ BufferIsTheLast'
    BY <1>0, <2>1 DEF TerminalInv, StreamIsHeld, BufferIsTheLast
  <2>. QED
    BY <2>1, <2>5, <2>6, <2>7 DEF TerminalInv
<1>5. CASE \/ Terminal!ProcessDone \/ \E m \in Mount : Terminal!Attach(m) \/ Terminal!Resize(m)
           \/ UNCHANGED Terminal!terminalVars
  <2>1. UNCHANGED <<written, buffer, served, sent, screen, firsts>>
    BY <1>5 DEF Terminal!ProcessDone, Terminal!Attach, Terminal!Resize, Terminal!terminalVars
  <2>2. isOver' \in BOOLEAN
    BY <1>5 DEF Terminal!ProcessDone, Terminal!Attach, Terminal!Resize, Terminal!terminalVars, TerminalInv, TerminalTyped,
       Terminal!TerminalTypeOK
  <2>3. /\ mounts' \in [Mount -> {"idle", "resize", "live", "replay", "done"}]
        /\ streamBy' \in {Terminal!Nobody, Terminal!Pump} \cup Mount
        /\ (streamBy' = Terminal!Pump) <=> (streamBy = Terminal!Pump)
        /\ \A k \in Mount : mounts'[k] \in {"resize", "live", "replay"} => streamBy' = k
    <3>0. mounts \in [Mount -> {"idle", "resize", "live", "replay", "done"}]
          /\ streamBy \in {Terminal!Nobody, Terminal!Pump} \cup Mount
          /\ \A k \in Mount : mounts[k] \in {"resize", "live", "replay"} => streamBy = k
      BY DEF TerminalInv, TerminalTyped, StreamIsHeld, Terminal!TerminalTypeOK
    <3>1. ASSUME NEW m \in Mount, Terminal!Attach(m)
          PROVE  /\ mounts' \in [Mount -> {"idle", "resize", "live", "replay", "done"}]
                 /\ streamBy' \in {Terminal!Nobody, Terminal!Pump} \cup Mount
                 /\ (streamBy' = Terminal!Pump) <=> (streamBy = Terminal!Pump)
                 /\ \A k \in Mount : mounts'[k] \in {"resize", "live", "replay"} => streamBy' = k
      BY <1>0, <3>0, <3>1 DEF Terminal!Attach
    <3>2. ASSUME NEW m \in Mount, Terminal!Resize(m)
          PROVE  /\ mounts' \in [Mount -> {"idle", "resize", "live", "replay", "done"}]
                 /\ streamBy' \in {Terminal!Nobody, Terminal!Pump} \cup Mount
                 /\ (streamBy' = Terminal!Pump) <=> (streamBy = Terminal!Pump)
                 /\ \A k \in Mount : mounts'[k] \in {"resize", "live", "replay"} => streamBy' = k
      BY <1>0, <3>0, <3>2 DEF Terminal!Resize
    <3>3. CASE UNCHANGED <<mounts, streamBy>>
      BY <3>0, <3>3
    <3>. QED
      BY <1>5, <3>1, <3>2, <3>3 DEF Terminal!ProcessDone, Terminal!terminalVars
  <2>4. TerminalTyped'
    BY <2>1, <2>2, <2>3 DEF TerminalInv, TerminalTyped, Terminal!TerminalTypeOK
  <2>5. StreamIsHeld' /\ BufferIsTheLast'
    BY <2>1, <2>3 DEF TerminalInv, StreamIsHeld, BufferIsTheLast
  <2>6. SentInOrder'
    BY <2>1, <2>3 DEF TerminalInv, SentInOrder, Sent, SentSoFar
  <2>. QED
    BY <2>1, <2>4, <2>5, <2>6 DEF TerminalInv
<1>. QED
  BY <1>1, <1>2, <1>3, <1>4, <1>5 DEF Terminal!Next

LEMMA TerminalShows == TerminalInv => Terminal!TerminalTypeOK /\ Terminal!ScreenIsWhole
<1>. SUFFICES ASSUME TerminalInv PROVE Terminal!TerminalTypeOK /\ Terminal!ScreenIsWhole
  OBVIOUS
<1>1. Terminal!NoGap
  BY DEF TerminalInv, SentInOrder, RunsOn, Terminal!NoGap
<1>2. Terminal!NothingMissing
  <2>. SUFFICES ASSUME sent = << >>, streamBy = Terminal!Nobody, screen # << >>
                PROVE  screen[Len(screen)] = written
    BY DEF Terminal!NothingMissing, Terminal!Last
  <2>1. Sent(Len(sent)) = screen
    BY DEF Sent
  <2>2. SentSoFar = written
    BY DEF SentSoFar, Terminal!Nobody, Terminal!Pump
  <2>. QED
    BY <2>1, <2>2 DEF TerminalInv, SentInOrder, EndsAt
<1>. QED
  BY <1>1, <1>2 DEF TerminalInv, TerminalTyped, Terminal!ScreenIsWhole, Terminal!AnsweredOnce

-----------------------------------------------------------------------------
(* The speaker notes.  Notes that count as open have a window, one that is     *)
(* closing, or one that is being asked for.                                    *)

notesOpen == v1
notesEpoch == v2
notesAsked == v3
notesWindows == v4
notesClosing == v5
notesTold == v6
USE DEF notesOpen, notesEpoch, notesAsked, notesWindows, notesClosing, notesTold

NotesOnTheirWay ==
    \/ notesEpoch \in notesWindows \cup notesClosing
    \/ \E c \in PageCall : notesAsked[c] = [ask |-> "open", at |-> notesEpoch]

NotesCalls == [PageCall -> [ask : {"nothing", "open", "close"}, at : 0..MaxEpochs]]

NotesInv ==
    /\ Presenter!PresenterTypeOK
    /\ \A c \in PageCall : notesAsked[c].ask = "open" => notesAsked[c].at \in 1..notesEpoch
    /\ notesOpen => NotesOnTheirWay

LEMMA NotesInit == Presenter!Init => NotesInv
<1>. SUFFICES ASSUME Presenter!Init PROVE NotesInv
  OBVIOUS
<1>1. MaxEpochs \in Nat
  BY PartsAssumption DEF Presenter!PresenterAssumption
<1>2. notesAsked \in NotesCalls
  BY <1>1 DEF Presenter!Init, Presenter!Nothing, NotesCalls
<1>3. \A c \in PageCall : notesAsked[c].ask # "open"
  BY DEF Presenter!Init, Presenter!Nothing
<1>4. notesOpen = FALSE /\ notesEpoch = 0 /\ notesWindows = {} /\ notesClosing = {} /\ notesTold = {}
  BY DEF Presenter!Init
<1>5. Presenter!PresenterTypeOK
  <2>1. notesOpen \in BOOLEAN
    BY <1>4, Zenon
  <2>2. notesEpoch \in 0..MaxEpochs
    BY <1>1, <1>4
  <2>. QED
    BY <1>2, <1>4, <2>1, <2>2, Zenon DEF NotesCalls, Presenter!PresenterTypeOK
<1>. QED
  BY <1>3, <1>4, <1>5 DEF NotesInv

LEMMA NotesStep == NotesInv /\ [Presenter!Next]_(Presenter!presenterVars) => NotesInv'
<1>. SUFFICES ASSUME NotesInv, [Presenter!Next]_(Presenter!presenterVars)
              PROVE  NotesInv'
  OBVIOUS
<1>. USE DEF NotesInv, Presenter!PresenterTypeOK, Presenter!Nothing
<1>0. MaxEpochs \in Nat
  BY PartsAssumption DEF Presenter!PresenterAssumption
<1>1. ASSUME NEW c \in PageCall, Presenter!OpenNotes(c)
      PROVE  NotesInv'
  <2>1. /\ notesEpoch' = notesEpoch + 1 /\ notesEpoch' \in 1..MaxEpochs /\ notesOpen' = TRUE
        /\ notesAsked' = [notesAsked EXCEPT ![c] = [ask |-> "open", at |-> notesEpoch + 1]]
    BY <1>0, <1>1 DEF Presenter!OpenNotes
  <2>2. NotesOnTheirWay'
    BY <2>1 DEF NotesOnTheirWay
  <2>. QED
    BY <1>0, <1>1, <2>1, <2>2 DEF Presenter!OpenNotes
<1>2. ASSUME NEW c \in PageCall, Presenter!CloseNotes(c)
      PROVE  NotesInv'
  <2>1. notesAsked' = notesAsked \/ notesAsked' = [notesAsked EXCEPT ![c] = [ask |-> "close", at |-> 0]]
    BY <1>2 DEF Presenter!CloseNotes
  <2>2. notesAsked' \in NotesCalls
    BY <1>0, <2>1 DEF NotesCalls
  <2>3. \A d \in PageCall : notesAsked'[d].ask = "open" => notesAsked[d] = notesAsked'[d]
    BY <2>1
  <2>4. notesOpen' = FALSE /\ notesEpoch' = notesEpoch + 1 /\ notesEpoch' \in 0..MaxEpochs /\ UNCHANGED <<notesWindows, notesClosing, notesTold>>
    BY <1>0, <1>2 DEF Presenter!CloseNotes
  <2>5. \A d \in PageCall : notesAsked'[d].ask = "open" => notesAsked'[d].at \in 1..notesEpoch'
    BY <2>3, <2>4
  <2>. QED
    BY <2>2, <2>4, <2>5 DEF NotesCalls
<1>3. ASSUME NEW c \in PageCall, Presenter!RendererOpens(c)
      PROVE  NotesInv'
  <2>1. notesOpen => NotesOnTheirWay'
    BY <1>3 DEF Presenter!RendererOpens, NotesOnTheirWay
  <2>2. notesAsked' \in NotesCalls
    BY <1>0, <1>3 DEF Presenter!RendererOpens, NotesCalls
  <2>3. notesAsked[c].at \in 1..MaxEpochs /\ UNCHANGED <<notesOpen, notesEpoch, notesClosing, notesTold>>
    BY <1>0, <1>3 DEF Presenter!RendererOpens
  <2>4. notesWindows' \subseteq 1..MaxEpochs
    BY <1>3, <2>3 DEF Presenter!RendererOpens
  <2>5. \A d \in PageCall : notesAsked'[d].ask = "open" => notesAsked'[d].at \in 1..notesEpoch
    BY <1>3 DEF Presenter!RendererOpens
  <2>. QED
    BY <2>1, <2>2, <2>3, <2>4, <2>5 DEF NotesCalls
<1>4. ASSUME NEW c \in PageCall, Presenter!RendererFails(c)
      PROVE  NotesInv'
  <2>1. notesAsked' \in NotesCalls
    BY <1>0, <1>4 DEF Presenter!RendererFails, NotesCalls
  <2>. QED
    BY <1>0, <1>4, <2>1 DEF Presenter!RendererFails, NotesCalls
<1>5. ASSUME NEW c \in PageCall, Presenter!RendererCloses(c)
      PROVE  NotesInv'
  <2>1. notesOpen => NotesOnTheirWay'
    BY <1>5 DEF Presenter!RendererCloses, NotesOnTheirWay
  <2>2. notesAsked' \in NotesCalls
    BY <1>0, <1>5 DEF Presenter!RendererCloses, NotesCalls
  <2>. QED
    BY <1>0, <1>5, <2>1, <2>2 DEF Presenter!RendererCloses, NotesCalls
<1>6. ASSUME NEW w \in notesWindows, Presenter!UserCloses(w)
      PROVE  NotesInv'
  <2>1. notesOpen => NotesOnTheirWay'
    BY <1>6 DEF Presenter!UserCloses, NotesOnTheirWay
  <2>. QED
    BY <1>0, <1>6, <2>1 DEF Presenter!UserCloses
<1>7. ASSUME NEW w \in notesClosing, Presenter!OnClosed(w)
      PROVE  NotesInv'
  <2>1. notesOpen' => notesOpen /\ NotesOnTheirWay'
    BY <1>7 DEF Presenter!OnClosed, NotesOnTheirWay
  <2>. QED
    BY <1>0, <1>7, <2>1 DEF Presenter!OnClosed
<1>8. CASE UNCHANGED Presenter!presenterVars
  BY <1>8 DEF Presenter!presenterVars, NotesOnTheirWay
<1>. QED
  BY <1>1, <1>2, <1>3, <1>4, <1>5, <1>6, <1>7, <1>8 DEF Presenter!Next

LEMMA NotesShow == NotesInv => Presenter!PresenterTypeOK /\ Presenter!OpenIsOnScreen
  BY DEF NotesInv, NotesOnTheirWay, Presenter!OpenIsOnScreen, Presenter!Settled, Presenter!Nothing


-----------------------------------------------------------------------------
(* All of them: the part under check keeps its invariant, and the parts share  *)
(* nothing but the rest they are at.                                           *)

AgentsInv ==
    /\ TreeInv
    /\ part = "session directories" => DirsInv
    /\ part = "stamps" => StampsKept
    /\ part = "artefacts" => FilesInv
    /\ part = "marks" => MarksInv
    /\ part = "fences" => FencesInv
    /\ part = "activity" => ActivityInv
    /\ part = "tabs" => TabsInv
    /\ part = "agent windows" => NamesInv
    /\ part = "viewport" => ViewInv
    /\ part = "terminal" => TerminalInv
    /\ part = "presenter" => NotesInv

LEMMA AgentsInvInit == AgentsInit => AgentsInv
<1>. SUFFICES ASSUME AgentsInit PROVE AgentsInv
  OBVIOUS
<1>0. TreeInv
  BY TreeInit DEF AgentsInit
<1>1. part = "session directories" => DirsInv
  BY DirsInit DEF AgentsInit
<1>2. part = "stamps" => StampsKept
  BY StampsKeptInit DEF AgentsInit
<1>3. part = "artefacts" => FilesInv
  BY FilesInit DEF AgentsInit
<1>4. part = "activity" => ActivityInv
  BY ActivityInit DEF AgentsInit
<1>5. part = "tabs" => TabsInv
  BY TabsInit DEF AgentsInit
<1>6. part = "agent windows" => NamesInv
  BY NamesInit DEF AgentsInit
<1>7. part = "viewport" => ViewInv
  BY ViewInit DEF AgentsInit
<1>8. part = "terminal" => TerminalInv
  BY TerminalInit DEF AgentsInit
<1>9. part = "presenter" => NotesInv
  BY NotesInit DEF AgentsInit
<1>10. part = "marks" => MarksInv
  BY MarksInit DEF AgentsInit
<1>11. part = "fences" => FencesInv
  BY FencesInit DEF AgentsInit
<1>. QED
  BY <1>0, <1>1, <1>2, <1>3, <1>4, <1>5, <1>6, <1>7, <1>8, <1>9, <1>10, <1>11 DEF AgentsInv

\* A step of the tree, or one in which it rests.
LEMMA TreeStepOrRest == [AgentsNext]_AgentsVars => [Next]_vars
  BY DEF AgentsNext, AgentsVars

\* A step in which every part's variables stay as they are.
LEMMA AgentsRest ==
    ASSUME AgentsInv, UNCHANGED AgentsVars
    PROVE  AgentsInv'
<1>0. TreeInv'
  BY TreeStep, TreeStepOrRest DEF AgentsInv
<1>1. /\ UNCHANGED part
      /\ UNCHANGED SessionDirs!dirVars /\ UNCHANGED Stamps!stampVars /\ UNCHANGED Artefacts!artVars
      /\ UNCHANGED Activity!actVars /\ UNCHANGED Tabs!tabVars /\ UNCHANGED AgentWindows!nameVars
      /\ UNCHANGED Viewport!viewVars /\ UNCHANGED Terminal!terminalVars /\ UNCHANGED Presenter!presenterVars
      /\ UNCHANGED Marks!markVars /\ UNCHANGED Fences!fenceVars
  BY DEF AgentsVars, SessionDirs!dirVars, Stamps!stampVars, Artefacts!artVars, Activity!actVars, Tabs!tabVars,
     AgentWindows!nameVars, Viewport!viewVars, Terminal!terminalVars, Presenter!presenterVars, Marks!markVars, Fences!fenceVars
<1>2. /\ part' = "session directories" => DirsInv'
      /\ part' = "stamps" => StampsKept'
      /\ part' = "artefacts" => FilesInv'
  BY <1>1, DirsStep, StampsStep, FilesStep DEF AgentsInv
<1>3. /\ part' = "activity" => ActivityInv'
      /\ part' = "tabs" => TabsInv'
      /\ part' = "agent windows" => NamesInv'
  BY <1>1, ActivityStep, TabsStep, NamesStep DEF AgentsInv
<1>4. /\ part' = "viewport" => ViewInv'
      /\ part' = "terminal" => TerminalInv'
      /\ part' = "presenter" => NotesInv'
  BY <1>1, ViewStep, TerminalStep, NotesStep DEF AgentsInv
<1>5. /\ part' = "marks" => MarksInv'
      /\ part' = "fences" => FencesInv'
  BY <1>1, MarksStep, FencesStep DEF AgentsInv
<1>. QED
  BY <1>0, <1>2, <1>3, <1>4, <1>5 DEF AgentsInv

LEMMA AgentsInvStep == AgentsInv /\ [AgentsNext]_AgentsVars => AgentsInv'
<1>. SUFFICES ASSUME AgentsInv, [AgentsNext]_AgentsVars PROVE AgentsInv'
  OBVIOUS
<1>0. TreeInv'
  BY TreeStep, TreeStepOrRest DEF AgentsInv
<1>1. CASE part = "agent tree" /\ UNCHANGED part
  BY <1>0, <1>1 DEF AgentsInv
<1>2. CASE part = "session directories" /\ SessionDirs!Next /\ UNCHANGED part
  BY <1>0, <1>2, DirsStep DEF AgentsInv
<1>3. CASE part = "stamps" /\ Stamps!Next /\ UNCHANGED part
  BY <1>0, <1>3, StampsStep DEF AgentsInv
<1>4. CASE part = "artefacts" /\ Artefacts!ArtefactsNext /\ UNCHANGED part
  BY <1>0, <1>4, FilesStep DEF AgentsInv
<1>5. CASE part = "activity" /\ Activity!ActivityNext /\ UNCHANGED part
  BY <1>0, <1>5, ActivityStep DEF AgentsInv
<1>6. CASE part = "tabs" /\ Tabs!Next /\ UNCHANGED part
  BY <1>0, <1>6, TabsStep DEF AgentsInv
<1>7. CASE part = "agent windows" /\ AgentWindows!Next /\ UNCHANGED part
  BY <1>0, <1>7, NamesStep DEF AgentsInv
<1>8. CASE part = "viewport" /\ Viewport!Next /\ UNCHANGED part
  BY <1>0, <1>8, ViewStep DEF AgentsInv
<1>9. CASE part = "terminal" /\ Terminal!Next /\ UNCHANGED part
  BY <1>0, <1>9, TerminalStep DEF AgentsInv
<1>10. CASE part = "presenter" /\ Presenter!Next /\ UNCHANGED part
  BY <1>0, <1>10, NotesStep DEF AgentsInv
<1>11. CASE part = "marks" /\ Marks!Next /\ UNCHANGED part
  BY <1>0, <1>11, MarksStep DEF AgentsInv
<1>12. CASE part = "fences" /\ Fences!Next /\ UNCHANGED part
  BY <1>0, <1>12, FencesStep DEF AgentsInv
<1>. QED
  BY <1>1, <1>2, <1>3, <1>4, <1>5, <1>6, <1>7, <1>8, <1>9, <1>10, <1>11, <1>12, AgentsRest DEF AgentsNext

LEMMA AgentsInvShows ==
    AgentsInv => /\ AgentTypesOK /\ SessionIsWhole /\ TreeIsSettled
                 /\ ActivityIsTrue /\ TabsAreSound /\ WindowsAreFaithful /\ DocumentsAreReadRight
<1>. SUFFICES ASSUME AgentsInv
              PROVE  /\ AgentTypesOK /\ SessionIsWhole /\ TreeIsSettled
                     /\ ActivityIsTrue /\ TabsAreSound /\ WindowsAreFaithful /\ DocumentsAreReadRight
  OBVIOUS
<1>1. /\ part = "session directories" =>
            SessionDirs!DirTypeOK /\ SessionDirs!ManifestIsWhole /\ SessionDirs!CheckoutsAreListed
      /\ part = "stamps" => Stamps!StampsTypeOK /\ Stamps!RunnerFindsItsPrompt
      /\ part = "artefacts" => Artefacts!ArtefactsTypeOK /\ Artefacts!LatestIsTheNewest
  BY DirsShows, StampsShows, FilesShow DEF AgentsInv
<1>2. /\ part = "activity" => Activity!ActivityTypeOK /\ Activity!TreeIsWhole /\ Activity!UnreadMeansAway
      /\ part = "tabs" => Tabs!TypeOK /\ Tabs!StripIsSound /\ Tabs!NothingOutlivesItsSession
      /\ part = "agent windows" => AgentWindows!NamesTypeOK /\ AgentWindows!WindowNamesAreFaithful
  BY ActivityShows, TabsShow, NamesShow DEF AgentsInv
<1>3. /\ part = "viewport" =>
            Viewport!ViewTypeOK /\ Viewport!ViewIsOfThisLoad /\ Viewport!ViewCoversTheReport
      /\ part = "terminal" => Terminal!TerminalTypeOK /\ Terminal!ScreenIsWhole
      /\ part = "presenter" => Presenter!PresenterTypeOK /\ Presenter!OpenIsOnScreen
  BY ViewShows, TerminalShows, NotesShow DEF AgentsInv, ViewInv
<1>4. TypeOK /\ TreeIsSettled
  BY TreeShows DEF AgentsInv, TreeIsSettled
<1>5. AgentTypesOK
  BY <1>1, <1>2, <1>3, <1>4 DEF AgentTypesOK
<1>6. SessionIsWhole
  BY <1>1 DEF SessionIsWhole
<1>7. ActivityIsTrue /\ TabsAreSound
  BY <1>2 DEF ActivityIsTrue, TabsAreSound
<1>8. WindowsAreFaithful
  BY <1>2, <1>3 DEF WindowsAreFaithful
<1>9. /\ part = "marks" => Marks!PhasesCountTheirOwn /\ Marks!MarksAreEarned
      /\ part = "fences" => Fences!ScanFindsTheFences
  BY MarksShow, FencesShow DEF AgentsInv
<1>10. DocumentsAreReadRight
  BY <1>3, <1>9 DEF DocumentsAreReadRight
<1>. QED
  BY <1>4, <1>5, <1>6, <1>7, <1>8, <1>10

\* What SessionIsKept says of one step.
LEMMA AgentsMoves ==
    AgentsInv /\ [AgentsNext]_AgentsVars =>
        /\ part = "session directories" => SessionDirs!ForgetsNoRepo /\ SessionDirs!ReclaimsItsOwn
        /\ part = "stamps" => Stamps!LeavesTheUsers /\ Stamps!RefusesTheUsers
        /\ part = "tabs" => Tabs!LeavesTheOverview
<1>. SUFFICES ASSUME AgentsInv, [AgentsNext]_AgentsVars
              PROVE  /\ part = "session directories" => SessionDirs!ForgetsNoRepo /\ SessionDirs!ReclaimsItsOwn
                     /\ part = "stamps" => Stamps!LeavesTheUsers /\ Stamps!RefusesTheUsers
                     /\ part = "tabs" => Tabs!LeavesTheOverview
  OBVIOUS
<1>1. CASE UNCHANGED AgentsVars
  <2>1. UNCHANGED SessionDirs!dirVars /\ UNCHANGED Stamps!stampVars /\ UNCHANGED <<opened, tabSeq, selected>>
    BY <1>1 DEF AgentsVars, SessionDirs!dirVars, Stamps!stampVars
  <2>. QED
    BY <2>1, DirsMoves, StampsMoves, TabsRest DEF AgentsInv
<1>2. CASE AgentsNext
  <2>1. part = "session directories" => SessionDirs!Next
    BY <1>2 DEF AgentsNext
  <2>2. part = "stamps" => Stamps!Next
    BY <1>2 DEF AgentsNext
  <2>3. part = "tabs" => Tabs!Next
    BY <1>2 DEF AgentsNext
  <2>. QED
    BY <2>1, <2>2, <2>3, DirsMoves, StampsMoves, TabsNextKeeps DEF AgentsInv
<1>. QED
  BY <1>1, <1>2

LEMMA AgentsInvariant == Agents => []AgentsInv
  BY AgentsInvInit, AgentsInvStep, PTL DEF Agents

\* What the code's own types let the variables of every part hold is all they ever hold.
THEOREM AgentsAreTyped == Agents => []AgentTypesOK
  BY AgentsInvariant, AgentsInvShows, PTL

\* What the tree of agents said for good it keeps, however late and in whichever order the
\* hooks come: who is whose child, that a report ended an agent, that its question was
\* answered.
THEOREM TreeStaysSettled == Agents => []TreeIsSettled
  BY AgentsInvariant, AgentsInvShows, PTL

\* A stop alone finishes no agent whose own children still run.
THEOREM AgentsOutliveNone == Agents => OutlivesChildren
  BY AgentsInvariant, TreeStepOrRest, TreeStep, PTL DEF Agents, AgentsInv, OutlivesChildren

\* Whatever a session's assembly, its confirms and its removal do, and wherever they crash,
\* a manifest stands for a whole session with every checkout on its list; a runner finds
\* the prompt its session was launched with; and the newest of the numbered documents is
\* the last one made.
THEOREM SessionsAreWhole == Agents => []SessionIsWhole
  BY AgentsInvariant, AgentsInvShows, PTL

\* The tree of a runner that reports only its agents' lives has no agent without a parent
\* and none of another run, and its session is marked unread only while the user has not
\* looked.
THEOREM ActivityTreeIsTrue == Agents => []ActivityIsTrue
  BY AgentsInvariant, AgentsInvShows, PTL

\* For any number of goroutines that open, move, close and stop tabs, the strip selects an
\* open tab of its own session and shows one file in one tab, and neither a process
\* outlives its tab nor a tab its session.
THEOREM TabsStaySound == Agents => []TabsAreSound
  BY AgentsInvariant, AgentsInvShows, PTL

\* However many blocks and lines a document has: a plan's phases count the boxes under
\* their own headings, a stage is marked by what earns it, the fences one pass over
\* the lines finds are those that opening and closing lines make of the whole document, and
\* the lines a page says it shows are kept, in order and apart.
THEOREM DocumentsStayReadRight == Agents => []DocumentsAreReadRight
  BY AgentsInvariant, AgentsInvShows, PTL

\* A name of an agent is the latest window opened under it, a viewport the newest report of
\* the page's present load, a terminal the whole output once, and notes that count as open
\* are on screen.
THEOREM WindowsStayFaithful == Agents => []WindowsAreFaithful
  BY AgentsInvariant, AgentsInvShows, PTL

\* No writer forgets a repository another put on the list since it read it, no assembly
\* removes a directory that is not its own, no launch replaces or writes through what the
\* user put at a path, and no tab takes the overview's place.
THEOREM SessionsAreKept == Agents => SessionIsKept
  BY AgentsInvariant, AgentsInvStep, AgentsMoves, PTL DEF Agents, SessionIsKept

-----------------------------------------------------------------------------
(* And of each component by itself, from its own specification. *)

\* As above, of a session's directory alone, its list and its removals with it.
THEOREM DirectoriesAreWhole ==
    SessionDirs!Spec => /\ []SessionDirs!ManifestIsWhole /\ []SessionDirs!CheckoutsAreListed
                        /\ SessionDirs!NoRepoForgotten /\ SessionDirs!OnlyOwnDirsReclaimed
<1>1. DirsInv => SessionDirs!ManifestIsWhole /\ SessionDirs!CheckoutsAreListed
  BY DirsShows
<1>2. DirsInv /\ [SessionDirs!Next]_(SessionDirs!dirVars) => SessionDirs!ForgetsNoRepo /\ SessionDirs!ReclaimsItsOwn
  BY DirsMoves
<1>. QED
  BY <1>1, <1>2, DirsInit, DirsStep, PTL
  DEF SessionDirs!Spec, SessionDirs!NoRepoForgotten, SessionDirs!OnlyOwnDirsReclaimed

\* As above, of the prompts of a session's launches alone.
THEOREM PromptsAreFound ==
    Stamps!StampsSpec => []Stamps!RunnerFindsItsPrompt /\ Stamps!UsersOwnStands
<1>1. StampsKept => Stamps!RunnerFindsItsPrompt
  BY StampsShows
<1>2. StampsKept /\ [Stamps!Next]_(Stamps!stampVars) => Stamps!LeavesTheUsers
  BY StampsMoves
<1>. QED
  BY <1>1, <1>2, StampsKeptInit, StampsStep, PTL DEF Stamps!StampsSpec, Stamps!UsersOwnStands

\* As above, of the numbered documents alone.
THEOREM DocumentsAreNumbered == Artefacts!ArtefactsSpec => []Artefacts!LatestIsTheNewest
<1>1. FilesInv => Artefacts!LatestIsTheNewest
  BY FilesShow
<1>. QED
  BY <1>1, FilesInit, FilesStep, PTL DEF Artefacts!ArtefactsSpec

\* As above, of a runner that reports only its agents' lives.
THEOREM ReportedTreeIsWhole ==
    Activity!ActivitySpec => []Activity!TreeIsWhole /\ []Activity!UnreadMeansAway
<1>1. ActivityInv => Activity!TreeIsWhole /\ Activity!UnreadMeansAway
  BY ActivityShows
<1>. QED
  BY <1>1, ActivityInit, ActivityStep, PTL DEF Activity!ActivitySpec

\* As above, of the tabs alone, the overview's place with them.
THEOREM StripIsSound ==
    Tabs!Spec => []Tabs!StripIsSound /\ []Tabs!NothingOutlivesItsSession /\ Tabs!OverviewStays
<1>1. TabsInv => Tabs!StripIsSound /\ Tabs!NothingOutlivesItsSession
  BY TabsShow
<1>2. TabsInv /\ [Tabs!Next]_(Tabs!tabVars) => [Tabs!LeavesTheOverview]_(Tabs!tabVars)
  BY TabsNextKeeps
<1>. QED
  BY <1>1, <1>2, TabsInit, TabsStep, PTL DEF Tabs!Spec, Tabs!OverviewStays

\* As above, of the names agents give their windows.
THEOREM NamesAreFaithful == AgentWindows!Spec => []AgentWindows!WindowNamesAreFaithful
<1>1. NamesInv => AgentWindows!WindowNamesAreFaithful
  BY NamesShow
<1>. QED
  BY <1>1, NamesInit, NamesStep, PTL DEF AgentWindows!Spec

\* As above, of the marks of a document.
THEOREM MarksAreOfTheirOwn ==
    Marks!MarksSpec => []Marks!PhasesCountTheirOwn /\ []Marks!MarksAreEarned
<1>1. MarksInv => Marks!PhasesCountTheirOwn /\ Marks!MarksAreEarned
  BY MarksShow
<1>. QED
  BY <1>1, MarksInit, MarksStep, PTL DEF Marks!MarksSpec

\* One pass over the lines of a document, of any number, finds its blocks: each from a line
\* that opens one to the first that closes it, no two sharing a line, none missed.
THEOREM FencesAreFound == Fences!FencesSpec => []Fences!ScanFindsTheFences
<1>1. FencesInv => Fences!ScanFindsTheFences
  BY FencesShow
<1>. QED
  BY <1>1, FencesInit, FencesStep, PTL DEF Fences!FencesSpec

\* As above, of the lines a page has on screen.
THEOREM ViewsAreOfTheirLoad == Viewport!Spec => []Viewport!ViewIsOfThisLoad /\ []Viewport!ViewCoversTheReport
<1>1. ViewInv => Viewport!ViewIsOfThisLoad /\ Viewport!ViewCoversTheReport
  BY ViewShows
<1>. QED
  BY <1>1, ViewInit, ViewStep, PTL DEF Viewport!Spec

\* As above, of a terminal's output.
THEOREM ScreensAreWhole == Terminal!Spec => []Terminal!ScreenIsWhole
<1>1. TerminalInv => Terminal!ScreenIsWhole
  BY TerminalShows
<1>. QED
  BY <1>1, TerminalInit, TerminalStep, PTL DEF Terminal!Spec

\* As above, of the speaker notes.
THEOREM NotesAreOnScreen == Presenter!Spec => []Presenter!OpenIsOnScreen
<1>1. NotesInv => Presenter!OpenIsOnScreen
  BY NotesShow
<1>. QED
  BY <1>1, NotesInit, NotesStep, PTL DEF Presenter!Spec
=============================================================================
