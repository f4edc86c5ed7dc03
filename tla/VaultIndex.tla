----------------------------- MODULE VaultIndex -----------------------------
(***************************************************************************)
(* The text index of one thoughts root: Service.refreshLocked and Read.    *)
(* The service's mutex keeps two refreshes apart, but the files belong to  *)
(* everyone: they are stamped in one walk and read afterwards, one by one, *)
(* and may change, go, or lose their whole root in between.  A change is    *)
(* known by the size and mtime of the file alone.                           *)
(***************************************************************************)
EXTENDS Naturals, FiniteSets

CONSTANTS
    Name,          \* files of the root
    Text,          \* what they may hold
    Sealed,        \* of these, what stands in files that cannot be read
    MaxEdits       \* bound: edits, removals, and comings and goings of the root

Missing == "missing"
VaultIndexAssumption == Missing \notin Text /\ Sealed \subseteq Text /\ MaxEdits \in Nat

VARIABLES
    files,         \* the disk: a text, or Missing
    stampOf,       \* the size and mtime a stat answers, 0 for no file
    twins,         \* files whose stamp another text of theirs bore too
    rootUp,        \* the root can be opened
    edits,         \* edits so far
    due,           \* the walk interval has passed
    walking,       \* a refresh holds the mutex
    walked,        \* its stamps of this walk
    toLoad,        \* files it still has to read
    stamps,        \* Service.stamps
    byName,        \* Service.byName, and with it the lexicon
    rootErr        \* Service.rootErr is set

indexVars == <<files, stampOf, twins, rootUp, edits, due, walking, walked, toLoad, stamps, byName, rootErr>>

NoStamps == [n \in Name |-> 0]
NoEntries == [n \in Name |-> Missing]

IndexTypeOK ==
    /\ files \in [Name -> Text \cup {Missing}] /\ stampOf \in [Name -> Nat]
    /\ twins \subseteq Name /\ edits \in 0..MaxEdits /\ rootUp \in BOOLEAN /\ due \in BOOLEAN
    /\ walking \in BOOLEAN /\ rootErr \in BOOLEAN
    /\ walked \in [Name -> Nat] /\ toLoad \subseteq Name
    /\ stamps \in [Name -> Nat] /\ byName \in [Name -> Text \cup {Missing}]

Init ==
    /\ files \in [Name -> Text \cup {Missing}]
    /\ stampOf = [n \in Name |-> IF files[n] = Missing THEN 0 ELSE 1]
    /\ twins = {} /\ rootUp \in BOOLEAN /\ edits = 0 /\ due = TRUE
    /\ walking = FALSE /\ walked = NoStamps /\ toLoad = {}
    /\ stamps = NoStamps /\ byName = NoEntries /\ rootErr = FALSE

-----------------------------------------------------------------------------
(* The disk. *)

\* An edit that keeps the size, within one tick of the mtime, keeps the stamp; so
\* may a file that was removed and is made again.
Borne(n) == {stampOf[n], walked[n], stamps[n]} \ {0}
New == edits + 2

Edit(n, t) ==
    /\ edits < MaxEdits /\ rootUp /\ t # files[n]
    /\ edits' = edits + 1
    /\ files' = [files EXCEPT ![n] = t]
    /\ \E s \in IF t = Missing THEN {0} ELSE {New} \cup Borne(n) :
          /\ stampOf' = [stampOf EXCEPT ![n] = s]
          /\ twins' = IF s \in Borne(n) THEN twins \cup {n} ELSE twins \ {n}
    /\ UNCHANGED <<rootUp, due, walking, walked, toLoad, stamps, byName, rootErr>>

RootComesOrGoes ==
    /\ edits < MaxEdits /\ edits' = edits + 1
    /\ rootUp' = ~rootUp
    /\ UNCHANGED <<files, stampOf, twins, due, walking, walked, toLoad, stamps, byName, rootErr>>

IntervalPasses ==
    /\ ~due /\ due' = TRUE
    /\ UNCHANGED <<files, stampOf, twins, rootUp, edits, walking, walked, toLoad, stamps, byName, rootErr>>

-----------------------------------------------------------------------------
(* refreshLocked. *)

\* walk: every file stamped; a root that cannot be opened empties the index
Walk ==
    /\ ~walking /\ due /\ due' = FALSE
    /\ IF rootUp
       THEN /\ walking' = TRUE /\ walked' = stampOf /\ rootErr' = FALSE
            /\ toLoad' = {n \in Name : stampOf[n] # 0 /\ stampOf[n] # stamps[n]}
            /\ UNCHANGED <<stamps, byName>>
       ELSE /\ rootErr' = TRUE /\ stamps' = NoStamps /\ byName' = NoEntries
            /\ UNCHANGED <<walking, walked, toLoad>>
    /\ UNCHANGED <<files, stampOf, twins, rootUp, edits>>

\* readDocument
Readable(n) == rootUp /\ files[n] \notin Sealed \cup {Missing}

\* Mutant: a file that could not be read keeps the stamp of the walk.
LoadUnread(n) ==
    byName' = [byName EXCEPT ![n] = IF Readable(n) THEN files[n] ELSE Missing] /\ UNCHANGED walked

\* loadLocked: what cannot be read loses its stamp, so that the next walk tries again
Load(n) ==
    /\ byName' = [byName EXCEPT ![n] = IF Readable(n) THEN files[n] ELSE Missing]
    /\ walked' = [walked EXCEPT ![n] = IF Readable(n) THEN @ ELSE 0]

LoadNext(n) ==
    /\ walking /\ n \in toLoad
    /\ Load(n) /\ toLoad' = toLoad \ {n}
    /\ UNCHANGED <<files, stampOf, twins, rootUp, edits, due, walking, stamps, rootErr>>

\* Mutant: the stamps kept are those of the end of the refresh.
IndexedRestamped ==
    /\ walking /\ toLoad = {}
    /\ walking' = FALSE
    /\ byName' = [n \in Name |-> IF stamps[n] # 0 /\ walked[n] = 0 THEN Missing ELSE byName[n]]
    /\ stamps' = [n \in Name |-> IF walked[n] = 0 THEN 0 ELSE stampOf[n]] /\ walked' = NoStamps
    /\ UNCHANGED <<files, stampOf, twins, rootUp, edits, due, toLoad, rootErr>>

\* the files that are gone leave the index, and the lexicon is rebuilt
Indexed ==
    /\ walking /\ toLoad = {}
    /\ walking' = FALSE
    /\ byName' = [n \in Name |-> IF stamps[n] # 0 /\ walked[n] = 0 THEN Missing ELSE byName[n]]
    /\ stamps' = walked /\ walked' = NoStamps
    /\ UNCHANGED <<files, stampOf, twins, rootUp, edits, due, toLoad, rootErr>>

\* Search and Read refresh at most once per interval; Warm always does
Refresh == Walk \/ (\E n \in Name : LoadNext(n)) \/ Indexed

Next ==
    \/ \E n \in Name, t \in Text \cup {Missing} : Edit(n, t)
    \/ RootComesOrGoes \/ IntervalPasses
    \/ Refresh

Spec == Init /\ [][Next]_indexVars

\* A refresh once begun runs to its end, time passes, and the root is searched again.
FairSpec == Spec /\ WF_indexVars(Refresh) /\ WF_indexVars(IntervalPasses)

-----------------------------------------------------------------------------
(* Properties. *)

\* A file whose stamp is the indexed one is indexed as it is: an edit that
\* falls between the walk and the read leaves an older stamp, never a newer.
\* An edit that keeps the stamp is missed, and so left out.
StampTellsTheText ==
    \A n \in Name \ twins :
        stamps[n] # 0 /\ stamps[n] = stampOf[n] /\ n \notin toLoad => byName[n] = files[n]

\* An answer never comes from a file the index has no stamp for.
NothingUnstamped ==
    ~walking => \A n \in Name : (byName[n] = Missing) <=> (stamps[n] = 0)

\* Once the files are left alone the index comes to hold what can be read of
\* them, whatever went missing or could not be read meanwhile; of a file that
\* changed under its stamp it may hold an older text.
LeftAlone == edits = MaxEdits
Held(n)   == IF Readable(n) THEN files[n] ELSE Missing
Indexes   ==
    \A n \in Name :
        byName[n] = Held(n) \/ (n \in twins /\ rootUp /\ Missing \notin {files[n], byName[n]})

IndexCatchesUp == LeftAlone ~> Indexes
=============================================================================
