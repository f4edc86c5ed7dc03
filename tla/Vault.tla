------------------------------- MODULE Vault -------------------------------
(***************************************************************************)
(* One thoughts root's embeddings: vault.Service.  A search, or the warm   *)
(* up at start, asks Ollama which model it serves, embeds the windows that *)
(* have no vector yet and saves the vectors to a cache file.  The mutex is *)
(* released around every call to Ollama and around the write of the cache, *)
(* so searches, a background build, a model that changes and a restart     *)
(* fall between each other's steps.                                        *)
(*                                                                         *)
(* A vector is modelled by the header it was asked for under and the model *)
(* that made it: a header remembered from a probe says nothing of what     *)
(* Ollama serves by now, and an embedding asks for a model by name alone.  *)
(***************************************************************************)
EXTENDS Integers, FiniteSets, FiniteSetsExt, Functions

CONSTANTS
    Window,        \* embedding windows, each named by the hash of its input
    Bad,           \* the windows the model rejects even alone
    Digest,        \* models Ollama may serve: a cacheHeader each
    Search,        \* searches under way
    Batch,         \* embedBatch
    SaveEvery,     \* saveEvery
    Failures,      \* maxFailures
    MaxChanges     \* bound: changes of what Ollama serves, of the files, and restarts

None == "none"             \* no header, or an Ollama that cannot be reached
Absent == "absent"         \* an Ollama that answers, and has no model of the name
Builder == "build"         \* the goroutine of Service.build
Warmer == "warm"           \* the goroutine of Service.Warm
Task == Search \cup {Builder, Warmer}

VaultAssumption ==
    /\ Bad \subseteq Window
    /\ {None, Absent} \cap Digest = {}
    /\ {Builder, Warmer} \cap Search = {}
    /\ {Batch, SaveEvery, Failures, MaxChanges} \subseteq Nat \ {0}

VARIABLES
    serving,       \* what Ollama serves now, Absent, or None
    live,          \* the windows of the indexed files
    header,        \* Service.header
    loaded,        \* Service.loaded: the header the vectors are filed under
    vectors,       \* Service.vectors: window -> the header it was asked under, its model
    failures,      \* Service.failures
    building,      \* Service.building
    builds,        \* how many builds are really under way
    cacheFile,     \* the cache on disk: its header and its vectors
    task,          \* where every goroutine is
    stray,         \* headers that were relied on when Ollama was given another model
    changes        \* changes so far

vaultVars == <<serving, live, header, loaded, vectors, failures, building, builds,
               cacheFile, task, stray, changes>>

NoVectors == [w \in {} |-> None]
NoneMade == [w \in {} |-> None]
Idle == [at |-> "idle", batch |-> {}, under |-> None, made |-> NoneMade, answer |-> None,
         query |-> None, turn |-> 1,
         blob |-> [header |-> None, vectors |-> NoVectors]]

Places == {"idle", "done", "model", "probed", "semantic", "next", "embed", "asked", "alone", "keep",
           "save", "write", "last save", "last write", "query", "rank"}

VaultTypeOK ==
    /\ serving \in Digest \cup {None, Absent} /\ live \subseteq Window
    /\ header \in Digest \cup {None} /\ loaded \in Digest \cup {None}
    /\ DOMAIN vectors \subseteq Window
    /\ failures \in [Window -> Nat] /\ building \in BOOLEAN /\ builds \in Nat
    /\ DOMAIN cacheFile.vectors \subseteq Window
    /\ \A t \in Task : task[t].at \in Places /\ task[t].batch \subseteq Window
    /\ stray \subseteq Digest /\ changes \in 0..MaxChanges

Init ==
    /\ serving \in Digest \cup {None, Absent} /\ live = Window
    /\ header = None /\ loaded = None
    /\ vectors = NoVectors /\ failures = [w \in Window |-> 0]
    /\ building = FALSE /\ builds = 0
    /\ cacheFile = [header |-> None, vectors |-> NoVectors]
    /\ task = [t \in Task |-> Idle]
    /\ stray = {} /\ changes = 0

-----------------------------------------------------------------------------
(* Pieces of the handlers. *)

\* pendingLocked: windows still to embed, but for those given up on
Pending == {w \in live \ DOMAIN vectors : failures[w] < Failures}

\* loadCache: any other header is a miss
Cached(d) == IF cacheFile.header = d THEN cacheFile.vectors ELSE NoVectors

\* model, once Ollama has answered d
Adopt(d) ==
    /\ IF loaded = d THEN UNCHANGED <<vectors, loaded>>
                     ELSE vectors' = Cached(d) /\ loaded' = d
    /\ header' = d

\* Mutant: whatever model the vectors are filed under by now.
KeepableAlways(t) == loaded # None

\* embed, once the answer is back: nothing is kept if the model changed meanwhile
Keepable(t) == loaded = task[t].under

Embedded(t) == {w \in DOMAIN task[t].made : task[t].made[w] # None}
Kept(t) ==
    [w \in DOMAIN vectors \cup Embedded(t) |->
        IF w \in Embedded(t) THEN [under |-> task[t].under, by |-> task[t].made[w]] ELSE vectors[w]]

\* Mutant: a window refused alone is not counted.
KeepUncounted(t) == vectors' = Kept(t) /\ UNCHANGED failures

Keep(t) ==
    /\ vectors' = Kept(t)
    /\ failures' = [w \in Window |->
                       failures[w] + (IF w \in DOMAIN task[t].made \ Embedded(t) THEN 1 ELSE 0)]

\* save keeps only what a current window uses, and answers what to write
Blob == [header |-> header, vectors |-> Restrict(vectors, live \cap DOMAIN vectors)]

Go(t, place) == task' = [task EXCEPT ![t].at = place]

-----------------------------------------------------------------------------
(* Searches and the warm up. *)

\* Search and Warm refresh the index first; a root that cannot be read empties it
Refresh(t, found) ==
    /\ task[t].at = "idle" /\ t # Builder
    /\ found = live \/ changes < MaxChanges
    /\ live' = found
    /\ changes' = IF found = live THEN changes ELSE changes + 1
    /\ UNCHANGED stray
    /\ \/ Go(t, "model")
       \/ found = {} /\ t # Warmer /\ UNCHANGED task   \* unavailable: Search answers so
    /\ UNCHANGED <<serving, header, loaded, vectors, failures, building, builds, cacheFile>>

\* model: the header it kept, or a probe outside the mutex
Known(t) ==
    /\ task[t].at = "model" /\ header # None
    /\ Go(t, "semantic")
    /\ UNCHANGED <<serving, live, header, loaded, vectors, failures, building, builds, cacheFile, stray, changes>>

Probe(t) ==
    /\ task[t].at = "model" /\ header = None
    /\ task' = [task EXCEPT ![t] =
                  IF serving \notin Digest THEN [@ EXCEPT !.at = IF t = Warmer THEN "done" ELSE "rank"]
                                           ELSE [@ EXCEPT !.at = "probed", !.answer = serving]]
    /\ UNCHANGED <<serving, live, header, loaded, vectors, failures, building, builds, cacheFile, stray, changes>>

Probed(t) ==
    /\ task[t].at = "probed"
    /\ Adopt(task[t].answer)
    /\ task' = [task EXCEPT ![t].at = "semantic", ![t].answer = None]
    /\ UNCHANGED <<serving, live, failures, building, builds, cacheFile, stray, changes>>

StartBuild(t) ==
    /\ building' = TRUE /\ builds' = builds + 1
    /\ task' = [task EXCEPT ![t].at = IF t = Warmer THEN "done" ELSE "query",
                            ![Builder] = [Idle EXCEPT !.at = "next"]]

\* Mutant: the warm up does not look whether a search already builds.
WarmBuildsToo ==
    /\ task[Warmer].at = "semantic"
    /\ StartBuild(Warmer)
    /\ UNCHANGED <<serving, live, header, loaded, vectors, failures, cacheFile, stray, changes>>

\* Warm, once after a start: builds, on its own goroutine, unless a search already does
WarmBuilds ==
    /\ task[Warmer].at = "semantic"
    /\ IF building THEN Go(Warmer, "done") /\ UNCHANGED <<building, builds>>
                   ELSE StartBuild(Warmer)
    /\ UNCHANGED <<serving, live, header, loaded, vectors, failures, cacheFile, stray, changes>>

\* semantic: nothing to do, a build already under way, one begun, or one batch at once
Semantic(t) ==
    /\ t \in Search /\ task[t].at = "semantic"
    /\ \/ /\ Pending = {} \/ building
          /\ Go(t, "query") /\ UNCHANGED <<building, builds>>
       \/ /\ Pending # {} /\ ~building /\ Cardinality(Pending) > Batch
          /\ StartBuild(t)
       \/ /\ Pending # {} /\ ~building /\ Cardinality(Pending) <= Batch
          /\ task' = [task EXCEPT ![t].at = "embed", ![t].batch = Pending]
          /\ UNCHANGED <<building, builds>>
    /\ UNCHANGED <<serving, live, header, loaded, vectors, failures, cacheFile, stray, changes>>

\* Search: the query itself is embedded, by what is served now; failing that, lexical only
EmbedQuery(t) ==
    /\ task[t].at = "query"
    /\ IF serving \in Digest
       THEN task' = [task EXCEPT ![t].at = "rank", ![t].query = serving] /\ UNCHANGED header
       ELSE Go(t, "rank") /\ header' = None
    /\ UNCHANGED <<serving, live, loaded, vectors, failures, building, builds, cacheFile, stray, changes>>

\* channelsLocked and hitsLocked: only reads
Rank(t) ==
    /\ task[t].at = "rank"
    /\ task' = [task EXCEPT ![t] = Idle]
    /\ UNCHANGED <<serving, live, header, loaded, vectors, failures, building, builds, cacheFile, stray, changes>>

-----------------------------------------------------------------------------
(* embed, save and build: shared by searches and the build. *)

\* embed notes which header it embeds for, then asks outside the mutex
EmbedAsks(t) ==
    /\ task[t].at = "embed"
    /\ task' = [task EXCEPT ![t].at = "asked", ![t].under = loaded]
    /\ UNCHANGED <<serving, live, header, loaded, vectors, failures, building, builds, cacheFile, stray, changes>>

\* embedAll: Ollama answers for the whole batch, rejects it, or cannot be reached
EmbedAnswers(t) ==
    /\ task[t].at = "asked"
    /\ IF serving \in Digest /\ task[t].batch \cap Bad = {}
       THEN task' = [task EXCEPT ![t].at = "keep", ![t].made = [w \in task[t].batch |-> serving]]
       ELSE serving # None /\ Go(t, "alone")
    /\ UNCHANGED <<serving, live, header, loaded, vectors, failures, building, builds, cacheFile, stray, changes>>

\* a batch it rejects is asked for one window at a time, by whichever model is there then
EmbedAlone(t) ==
    /\ task[t].at = "alone" /\ serving # None
    /\ \E w \in task[t].batch \ DOMAIN task[t].made :
          LET answered == DOMAIN task[t].made \cup {w}
              answer == IF w \in Bad \/ serving = Absent THEN None ELSE serving
          IN task' = [task EXCEPT
               ![t].at = IF answered = task[t].batch THEN "keep" ELSE "alone",
               ![t].made = [v \in answered |-> IF v = w THEN answer ELSE task[t].made[v]]]
    /\ UNCHANGED <<serving, live, header, loaded, vectors, failures, building, builds, cacheFile, stray, changes>>

\* one call that fails otherwise fails it all, and build forgets the model
EmbedFails(t) ==
    /\ task[t].at \in {"asked", "alone"} /\ serving = None
    /\ header' = IF t = Builder THEN None ELSE header
    /\ task' = [task EXCEPT ![t].at = IF t = Builder THEN "last save" ELSE "save",
                            ![t].batch = {}, ![t].under = None, ![t].made = NoneMade]
    /\ UNCHANGED <<serving, live, loaded, vectors, failures, building, builds, cacheFile, stray, changes>>

EmbedKeeps(t) ==
    /\ task[t].at = "keep"
    /\ IF Keepable(t)
       THEN Keep(t) /\ UNCHANGED header
       ELSE /\ header' = IF t = Builder THEN None ELSE header          \* ErrModelChanged
            /\ UNCHANGED <<vectors, failures>>
    /\ task' = [task EXCEPT
         ![t].at = IF t # Builder THEN "save" ELSE IF Keepable(t) THEN "next" ELSE "last save",
         ![t].batch = {}, ![t].under = None, ![t].made = NoneMade]
    /\ UNCHANGED <<serving, live, loaded, building, builds, cacheFile, stray, changes>>

\* build: saves every SaveEvery-th turn, then takes the next batch, or the last save
BuildSaves ==
    /\ task[Builder].at = "next" /\ task[Builder].turn = SaveEvery
    /\ task' = [task EXCEPT ![Builder].at = "save", ![Builder].turn = 0]
    /\ UNCHANGED <<serving, live, header, loaded, vectors, failures, building, builds, cacheFile, stray, changes>>

BuildNext ==
    /\ task[Builder].at = "next" /\ task[Builder].turn < SaveEvery
    /\ \/ Pending = {} /\ Go(Builder, "last save")
       \/ \E b \in SUBSET Pending :
             /\ Cardinality(b) = Min({Batch, Cardinality(Pending)}) /\ b # {}
             /\ task' = [task EXCEPT ![Builder].at = "embed", ![Builder].batch = b,
                                     ![Builder].turn = @ + 1]
    /\ UNCHANGED <<serving, live, header, loaded, vectors, failures, building, builds, cacheFile, stray, changes>>

\* save: prunes and encodes under the mutex, unless the model is not known
Save(t) ==
    /\ task[t].at \in {"save", "last save"}
    /\ LET last == task[t].at = "last save"
       IN IF header = None
          THEN /\ UNCHANGED vectors
               /\ Go(t, IF last THEN "last write" ELSE "write")
          ELSE /\ vectors' = Blob.vectors
               /\ task' = [task EXCEPT ![t].at = IF last THEN "last write" ELSE "write",
                                       ![t].blob = Blob]
    /\ UNCHANGED <<serving, live, header, loaded, failures, building, builds, cacheFile, stray, changes>>

\* writeCache, after the mutex: the file is replaced whole
Write(t) ==
    /\ task[t].at \in {"write", "last write"}
    /\ cacheFile' = IF task[t].blob.header = None THEN cacheFile ELSE task[t].blob
    /\ IF task[t].at = "write"
       THEN /\ task' = [task EXCEPT ![t].at = IF t = Builder THEN "next" ELSE "query",
                                    ![t].blob = Idle.blob]
            /\ UNCHANGED <<building, builds>>
       ELSE task' = [task EXCEPT ![t] = Idle] /\ building' = FALSE /\ builds' = builds - 1
    /\ UNCHANGED <<serving, live, header, loaded, vectors, failures, stray, changes>>

-----------------------------------------------------------------------------
(* Outside the service. *)

\* What the service takes Ollama to serve: the headers remembered, answered to a probe, or
\* asked under, and the models whose query is still to be ranked.
Midway == {"semantic", "next", "embed", "asked", "alone", "keep", "save", "write", "query"}
Relied ==
    (   (UNION {{task[t].answer, task[t].under, task[t].query} : t \in Task})
     \cup (IF header # None \/ \E t \in Task : task[t].at \in Midway THEN {loaded} ELSE {}))
    \ {None}

\* Ollama is stopped, started, or given a new model, and tells nobody
Serve(d) ==
    /\ d # serving /\ changes < MaxChanges
    /\ serving' = d /\ changes' = changes + 1
    /\ stray' = IF d \in Digest THEN stray \cup (Relied \ {d}) ELSE stray
    /\ UNCHANGED <<live, header, loaded, vectors, failures, building, builds, cacheFile, task>>

\* the program ends and starts again: New, and the cache file is all that stays
Restart ==
    /\ changes < MaxChanges /\ changes' = changes + 1
    /\ header' = None /\ loaded' = None
    /\ vectors' = NoVectors /\ failures' = [w \in Window |-> 0]
    /\ building' = FALSE /\ builds' = 0
    /\ task' = [t \in Task |-> Idle]
    /\ UNCHANGED <<serving, live, cacheFile, stray>>

Embeds(t) ==
    \/ EmbedAsks(t) \/ EmbedAnswers(t) \/ EmbedAlone(t) \/ EmbedFails(t) \/ EmbedKeeps(t)
    \/ Save(t) \/ Write(t)
Build == BuildSaves \/ BuildNext \/ Embeds(Builder)

Next ==
    \/ \E t \in Search \cup {Warmer} :
         \/ \E found \in {Window, {}} : Refresh(t, found)
         \/ Known(t) \/ Probe(t) \/ Probed(t)
    \/ WarmBuilds
    \/ \E t \in Search : Semantic(t) \/ EmbedQuery(t) \/ Rank(t) \/ Embeds(t)
    \/ Build
    \/ \E d \in Digest \cup {None, Absent} : Serve(d)
    \/ Restart

\* Every call to Ollama ends: probeTimeout and requestTimeout bound them.
Fairness == WF_vaultVars(Build)

Spec == Init /\ [][Next]_vaultVars
FairSpec == Spec /\ Fairness

-----------------------------------------------------------------------------
(* Properties. *)

\* No vector is filed under another header than it was asked for under, in memory
\* or in the cache file: an embedding begun before the model changed is dropped, and
\* a save writes the header the vectors are filed under.
VectorsAsFiled ==
    /\ \A w \in DOMAIN vectors : vectors[w].under = loaded
    /\ \A w \in DOMAIN cacheFile.vectors : cacheFile.vectors[w].under = cacheFile.header
    /\ header # None => header = loaded

\* The header is the model that made them, and a query is ranked against vectors of
\* the model that made it, unless Ollama was given another while the service relied
\* on the one it had: that goes unseen until an embedding fails, and what the new
\* model makes meanwhile is filed under the old one's header.
VectorsOfTheirModel ==
    /\ \A w \in DOMAIN vectors : loaded \in stray \/ vectors[w].by = loaded
    /\ \A w \in DOMAIN cacheFile.vectors :
          cacheFile.header \in stray \/ cacheFile.vectors[w].by = cacheFile.header
    /\ \A t \in Search : task[t].query \in {None, loaded} \/ {task[t].query, loaded} \cap stray # {}

\* Searches and the warm up never have two builds embed the same backlog, and
\* the flag that keeps them apart is never left set with no build under way.
OneBuild == builds = (IF building THEN 1 ELSE 0)

\* A build ends: a window the model will never take is given up on after
\* maxFailures, and an unreachable Ollama ends the build.
Building == building

BuildEnds == Building ~> ~Building
=============================================================================
