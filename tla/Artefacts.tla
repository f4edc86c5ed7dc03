----------------------------- MODULE Artefacts ------------------------------
(***************************************************************************)
(* The numbered documents of one folder under thoughts/shared: agents of   *)
(* several processes create them (artefact/artefact.go), a sync tool       *)
(* delivers and removes files meanwhile, and the stage marks read the      *)
(* latest one (status/stages.go).  A creator may die at any step; the      *)
(* folder's lock dies with it.                                             *)
(***************************************************************************)
EXTENDS Integers, FiniteSets, FiniteSetsExt

CONSTANTS Creator,      \* processes creating a document
          Title,        \* slugs of their titles
          MaxTries,     \* maxNameTries
          MaxFiles      \* bound: files ever made in the folder

ArtefactsAssumption ==
    /\ IsFiniteSet(Creator) /\ IsFiniteSet(Title) /\ Title # {}
    /\ MaxTries \in Nat \ {0} /\ MaxFiles \in Nat

VARIABLES folder,       \* the files of the folder
          creator,      \* what each creator is at
          lock,         \* who holds the folder's lock, {} or one creator
          at            \* the clock of write times: files made so far

artVars == <<folder, creator, lock, at>>

\* A file without a number in its name counts as -1.
File == [number : -1..(2 * MaxFiles + MaxTries), title : Title, at : 1..MaxFiles,
         ours : BOOLEAN, whole : BOOLEAN]

Waiting == [at |-> "idle", number |-> 0, tries |-> 0, title |-> CHOOSE t \in Title : TRUE]

Numbers(files) == {f.number : f \in files}

\* Mutant: the files are counted, so a file that is gone gives its number again.
NextNumberByCount(files) == Cardinality(files) + 1

NextNumber(files) == Max({0} \cup Numbers(files)) + 1

\* latest: the highest number, and the last written among those of one number.
Latest(files) ==
    CHOOSE f \in files : \A g \in files :
        \/ f.number > g.number
        \/ f.number = g.number /\ f.at >= g.at

ArtefactsInit ==
    /\ folder = {}
    /\ creator = [c \in Creator |-> Waiting]
    /\ lock = {}
    /\ at = 0

\* Mutant: nobody waits for the folder's lock.
LockFreeAlways == TRUE

LockFree == lock = {}

\* withFolderLock: the number is chosen under it.
Begin(c, t) ==
    /\ creator[c].at = "idle"
    /\ LockFree
    /\ lock' = {c}
    /\ creator' = [creator EXCEPT ![c] = [Waiting EXCEPT !.at = "locked", !.title = t]]
    /\ UNCHANGED <<folder, at>>

Pick(c) ==
    /\ creator[c].at = "locked"
    /\ creator' = [creator EXCEPT ![c].at = "picked", ![c].number = NextNumber(folder)]
    /\ UNCHANGED <<folder, lock, at>>

Taken(c) == \E f \in folder : f.number = creator[c].number /\ f.title = creator[c].title

\* The exclusive create: the name is free.
Create(c) ==
    /\ creator[c].at = "picked" /\ ~Taken(c)
    /\ at < MaxFiles
    /\ at' = at + 1
    /\ folder' = folder \cup {[number |-> creator[c].number, title |-> creator[c].title,
                               at |-> at + 1, ours |-> TRUE, whole |-> FALSE]}
    /\ creator' = [creator EXCEPT ![c].at = "writing"]
    /\ UNCHANGED lock

\* A file of that very name was delivered meanwhile: the next number, a few times.
TryNext(c) ==
    /\ creator[c].at = "picked" /\ Taken(c)
    /\ IF creator[c].tries + 1 < MaxTries
         THEN creator' = [creator EXCEPT ![c].number = @ + 1, ![c].tries = @ + 1]
         ELSE creator' = [creator EXCEPT ![c].at = "done"]
    /\ lock' = IF creator[c].tries + 1 < MaxTries THEN lock ELSE {}
    /\ UNCHANGED <<folder, at>>

\* The content follows, and the lock is let go.
Write(c) ==
    /\ creator[c].at = "writing"
    /\ folder' = {IF f.number = creator[c].number /\ f.title = creator[c].title
                    THEN [f EXCEPT !.whole = TRUE] ELSE f : f \in folder}
    /\ creator' = [creator EXCEPT ![c].at = "done"]
    /\ lock' = {}
    /\ UNCHANGED at

\* The process ends: after its document or in the middle of it.
Ends(c) ==
    /\ creator[c].at # "idle"
    /\ creator' = [creator EXCEPT ![c] = Waiting]
    /\ lock' = lock \ {c}
    /\ UNCHANGED <<folder, at>>

\* The sync tool brings a file some other machine made, numbered or not.
Deliver(n, t) ==
    /\ at < MaxFiles
    /\ ~\E f \in folder : f.number = n /\ f.title = t
    /\ at' = at + 1
    /\ folder' = folder \cup {[number |-> n, title |-> t, at |-> at + 1,
                               ours |-> FALSE, whole |-> TRUE]}
    /\ UNCHANGED <<creator, lock>>

Remove(f) ==
    /\ f \in folder
    /\ folder' = folder \ {f}
    /\ UNCHANGED <<creator, lock, at>>

ArtefactsNext ==
    \/ \E c \in Creator :
         \/ \E t \in Title : Begin(c, t)
         \/ Pick(c) \/ Create(c) \/ TryNext(c) \/ Write(c) \/ Ends(c)
    \/ \E n \in {-1} \cup 1..MaxFiles, t \in Title : Deliver(n, t)
    \/ \E f \in folder : Remove(f)

ArtefactsSpec == ArtefactsInit /\ [][ArtefactsNext]_artVars

-----------------------------------------------------------------------------
\* The variables hold what the code's own types let them hold.
ArtefactsTypeOK ==
    /\ folder \subseteq File
    /\ lock \subseteq Creator
    /\ \A c \in Creator : creator[c].number \in 0..(2 * MaxFiles + MaxTries)

\* "Concurrent creates cannot both pick the same number": of the documents the
\* workbench's agents made in a folder the later always has the higher number, so the
\* stage marks read the one made last unless another machine has a higher one.
LatestIsTheNewest ==
    /\ \A f, g \in folder : f.ours /\ g.ours /\ f.at < g.at => f.number < g.number
    /\ \A f \in folder : f.ours => \/ Latest(folder).at >= f.at
                                   \/ ~Latest(folder).ours
=============================================================================
