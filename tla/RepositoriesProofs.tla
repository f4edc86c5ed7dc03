------------------------ MODULE RepositoriesProofs ------------------------
(***************************************************************************)
(* The list the picker draws from keeps its types and never goes back to an  *)
(* older one, for any owners, presses of the button and changes of settings. *)
(***************************************************************************)
EXTENDS Repositories, FiniteSetTheorems, SequenceTheorems, TLAPS

States == {"started", "failed", "succeeded", "complete"}
Places == {"none", "token", "starting", "retry", "refused", "told", "dropped", "asking",
           "stamping", "last", "collecting", "writing", "closing", "closed"}
MessageSet ==
    [state : States, owner : SUBSET Owner, list : {{}} \cup {{l} : l \in Lists}]
GenSet ==
    [at : Places, owners : SUBSET Owner, left : SUBSET Owner, merged : Lists,
     fresh : SUBSET Owner, queue : Seq(MessageSet), reading : BOOLEAN]
DiskSet == [list : Lists, at : Lists]

\* The most that was ever put in a channel.
Room == 2 * Cardinality(Owner) + 1

\* A run that asks has somebody to ask, and its messages had room.
InOrder(r) ==
    /\ r.at = "token" => r.owners # {}
    /\ r.at \in {"starting", "asking"} => r.left # {}
    /\ Len(r.queue) <= Room

RepoInv ==
    /\ configured \in (SUBSET Owner) \ {{}} /\ repos \in Lists
    /\ errs \subseteq Owner /\ gen \in 0 .. MaxGen /\ disk \in DiskSet
    /\ ownerEdits \in 0 .. MaxEdits
    /\ runs \in [Gens -> GenSet]
    /\ \A g \in Gens : InOrder(runs[g])

LEMMA OwnersAreFinite == RepositoriesAssumption => IsFiniteSet(Owner)
  BY DEF RepositoriesAssumption

LEMMA ZeroList ==
    ASSUME RepositoriesAssumption
    PROVE  /\ None \in Lists
           /\ NoRun \in GenSet /\ Room \in Nat
           /\ NoRun.queue = <<>>
<1>1. 0 \in 0 .. MaxGen
  BY DEF RepositoriesAssumption
<1>2. None \in Lists
  BY <1>1 DEF None, Lists
<1>3. <<>> \in Seq(MessageSet)
  OBVIOUS
<1>4. NoRun \in GenSet /\ NoRun.queue = <<>>
  BY <1>2, <1>3 DEF NoRun, GenSet, Places
<1>5. Cardinality(Owner) \in Nat
  BY OwnersAreFinite, FS_CardinalityType
<1>6. Room \in Nat
  BY <1>5 DEF Room
<1>. QED
  BY <1>2, <1>4, <1>6

LEMMA RepositoriesInit ==
    ASSUME RepositoriesAssumption, RepoInit PROVE RepoInv
<1>. USE DEF RepoInit
<1>1. configured \in (SUBSET Owner) \ {{}} /\ errs \subseteq Owner
  BY DEF RepositoriesAssumption
<1>2. gen \in 0 .. MaxGen /\ ownerEdits \in 0 .. MaxEdits
  BY DEF RepositoriesAssumption
<1>3. repos \in Lists /\ disk \in DiskSet
  BY ZeroList DEF DiskSet
<1>4. runs \in [Gens -> GenSet]
  BY ZeroList
<1>5. NoRun.at = "none" /\ Len(<<>>) = 0 /\ Room >= 0
  BY ZeroList, EmptySeq DEF NoRun
<1>6. InOrder(NoRun)
  BY <1>5, ZeroList DEF InOrder
<1>7. \A g \in Gens : InOrder(runs[g])
  BY <1>6
<1>. QED
  BY <1>1, <1>2, <1>3, <1>4, <1>7 DEF RepoInv

\* A message leaves lists that are lists, and errors that are owners.
LEMMA Pushed ==
    ASSUME RepoInv, NEW g \in Gens, NEW msg \in MessageSet,
           Push(g, msg)
    PROVE  repos' \in Lists /\ errs' \subseteq Owner
<1>1. repos \in Lists /\ errs \subseteq Owner
  BY DEF RepoInv
<1>2. CASE Superseded(g)
  BY <1>1, <1>2 DEF Push
<1>3. CASE ~Superseded(g)
  <2>1. /\ errs' = CASE msg.state = "succeeded" -> errs \ msg.owner
                     [] msg.state = "failed"    -> errs \cup msg.owner
                     [] OTHER                   -> errs
        /\ repos' = IF msg.list = {} THEN repos
                    ELSE CHOOSE l \in Lists : msg.list = {l}
    BY <1>3 DEF Push
  <2>2. msg.owner \subseteq Owner /\ msg.list \in {{}} \cup {{l} : l \in Lists}
    BY DEF MessageSet
  <2>. QED
    BY <1>1, <2>1, <2>2
<1>. QED
  BY <1>2, <1>3

\* A run gets on, whatever it tells.
LEMMA GenMoves ==
    ASSUME RepoInv, NEW g \in Gens, NEW k \in GenSet, InOrder(k),
           runs' = [runs EXCEPT ![g] = k],
           repos' \in Lists, errs' \subseteq Owner, disk' \in DiskSet,
           UNCHANGED <<configured, gen, ownerEdits>>
    PROVE  RepoInv'
<1>1. runs' \in [Gens -> GenSet]
  BY DEF RepoInv
<1>2. \A h \in Gens : runs'[h] = IF h = g THEN k ELSE runs[h]
  BY DEF RepoInv
<1>3. \A h \in Gens : InOrder(runs'[h])
  BY <1>2 DEF RepoInv
<1>. QED
  BY <1>1, <1>3 DEF RepoInv

LEMMA Messages ==
    ASSUME NEW o \in Owner, NEW l \in Lists
    PROVE  /\ Started(o) \in MessageSet /\ Failed(o) \in MessageSet
           /\ Succeeded(o, {}) \in MessageSet
           /\ Succeeded(o, {l}) \in MessageSet
           /\ Complete({}) \in MessageSet
           /\ Complete({l}) \in MessageSet
BY DEF MessageSet, States, Started, Failed, Succeeded,
       Complete

LEMMA SentKeeps ==
    ASSUME RepositoriesAssumption, RepoInv, NEW g \in Gens,
           NEW msg \in MessageSet, NEW where \in Places, NEW left \in SUBSET Owner,
           NEW merged \in Lists, NEW fresh \in SUBSET Owner,
           where \notin {"token", "asking"}, where = "starting" => left # {},
           Send(g, msg, where, left, merged, fresh)
    PROVE  RepoInv'
<1>. DEFINE q == runs[g].queue
            k == [runs[g] EXCEPT !.queue = Append(q, msg), !.at = where, !.left = left,
                                 !.merged = merged, !.fresh = fresh]
<1>1. runs[g] \in GenSet /\ q \in Seq(MessageSet)
  BY DEF RepoInv, GenSet
<1>2. Append(q, msg) \in Seq(MessageSet) /\ Len(Append(q, msg)) = Len(q) + 1
  BY <1>1, AppendProperties
<1>3. Len(q) + 1 <= Room
  <2>1. IsFiniteSet(Owner) /\ runs[g].owners \subseteq Owner
    BY <1>1, OwnersAreFinite DEF GenSet
  <2>. DEFINE c == Cardinality(runs[g].owners)
              C == Cardinality(Owner)
  <2>2. c \in Nat /\ C \in Nat /\ c <= C
    BY <2>1, FS_Subset, FS_CardinalityType
  <2>4. Len(q) < 2 * c + 1 /\ Len(q) \in Nat
    BY <1>1, LenProperties DEF Send, Buffer
  <2>. HIDE DEF c, C, q
  <2>5. Len(q) + 1 <= 2 * C + 1
    BY <2>2, <2>4
  <2>. QED
    BY <2>5 DEF Room, C
<1>4. runs' = [runs EXCEPT ![g] = k]
  BY DEF Send
<1>5. UNCHANGED <<repos, errs, configured, gen, disk, ownerEdits>>
  BY DEF Send, Quietly
<1>. HIDE DEF q
<1>6. k \in GenSet /\ k.at = where /\ k.left = left /\ k.queue = Append(q, msg)
  BY <1>1, <1>2 DEF GenSet
<1>. HIDE DEF k
<1>7. InOrder(k)
  BY <1>2, <1>3, <1>6 DEF InOrder
<1>. QED
  BY <1>4, <1>5, <1>6, <1>7, GenMoves DEF RepoInv

\* What writeOwnerCaches leaves in the file.
LEMMA FileOfLists ==
    ASSUME RepositoriesAssumption, RepoInv, NEW g \in Gens,
           NEW owners \in SUBSET Owner, NEW lists \in Lists, NEW fresh \in SUBSET Owner
    PROVE  Written(owners, lists, fresh, g) \in DiskSet
<1>1. g \in 0 .. MaxGen /\ 0 \in 0 .. MaxGen
  BY DEF Gens, RepositoriesAssumption
<1>2. OwnedBy(lists, owners) \in Lists
  BY <1>1 DEF OwnedBy, Lists
<1>. DEFINE times == [o \in Owner |-> CASE o \in owners \cap fresh -> g
                                        [] o \in owners \ fresh    -> disk.at[o]
                                        [] OTHER                   -> 0]
<1>3. \A o \in Owner : disk.at[o] \in 0 .. MaxGen
  BY DEF RepoInv, DiskSet, Lists
<1>4. times \in Lists
  BY <1>1, <1>3 DEF Lists
<1>5. Written(owners, lists, fresh, g) =
        [list |-> OwnedBy(lists, owners), at |-> times]
  BY DEF Written
<1>. HIDE DEF times
<1>. QED
  BY <1>2, <1>4, <1>5 DEF DiskSet

LEMMA Nexts ==
    ASSUME NEW S \in SUBSET Owner, S # {}
    PROVE  NextOf(S) \in S /\ NextOf(S) \in Owner
BY DEF NextOf

\* Only the fields named change.
LEMMA TokenKeeps ==
    ASSUME RepoInv, NEW g \in Gens,
           HasToken(g) \/ HasNoToken(g)
    PROVE  RepoInv'
<1>. DEFINE r == runs[g]
<1>0. r \in GenSet /\ InOrder(r) /\ r.at = "token"
  BY DEF RepoInv, HasToken, HasNoToken
<1>1. UNCHANGED <<configured, repos, errs, gen, disk, ownerEdits>>
  BY DEF HasToken, HasNoToken, Quietly
<1>2. \E k \in GenSet : runs' = [runs EXCEPT ![g] = k] /\ InOrder(k)
  <2>1. CASE HasToken(g) /\ r.left = {}
    <3>. DEFINE k == [r EXCEPT !.at = "starting", !.left = r.owners, !.reading = TRUE]
    <3>1. runs' = [runs EXCEPT ![g] = k]
      BY <2>1 DEF HasToken
    <3>. HIDE DEF r
    <3>2. k \in GenSet /\ k.at = "starting" /\ k.left = r.owners /\ k.queue = r.queue
      BY <1>0 DEF GenSet, Places
    <3>. HIDE DEF k
    <3>. QED
      BY <1>0, <3>1, <3>2 DEF InOrder
  <2>2. CASE HasToken(g) /\ r.left # {}
    <3>. DEFINE k == [r EXCEPT !.at = "retry"]
    <3>1. runs' = [runs EXCEPT ![g] = k]
      BY <2>2 DEF HasToken
    <3>. HIDE DEF r
    <3>2. k \in GenSet /\ k.at = "retry" /\ k.queue = r.queue
      BY <1>0 DEF GenSet, Places
    <3>. HIDE DEF k
    <3>. QED
      BY <1>0, <3>1, <3>2 DEF InOrder
  <2>3. CASE HasNoToken(g)
    <3>. DEFINE k == [r EXCEPT !.at = "refused", !.left = IF r.left = {} THEN r.owners ELSE r.left]
    <3>1. runs' = [runs EXCEPT ![g] = k]
      BY <2>3 DEF HasNoToken
    <3>. HIDE DEF r
    <3>2. k \in GenSet /\ k.at = "refused" /\ k.queue = r.queue
      BY <1>0 DEF GenSet, Places
    <3>. HIDE DEF k
    <3>. QED
      BY <1>0, <3>1, <3>2 DEF InOrder
  <2>. QED
    BY <2>1, <2>2, <2>3
<1>. QED
  BY <1>1, <1>2, GenMoves DEF RepoInv

\* A run's place changes, and what it has left, if it has any.
LEMMA GenGoes ==
    ASSUME RepoInv, NEW g \in Gens, NEW where \in Places, NEW left \in SUBSET Owner,
           NEW merged \in Lists,
           where \notin {"token", "starting"}, where = "asking" => left # {},
           runs' = [runs EXCEPT ![g] = [@ EXCEPT !.at = where, !.left = left, !.merged = merged]],
           repos' \in Lists, errs' \subseteq Owner, disk' \in DiskSet,
           UNCHANGED <<configured, gen, ownerEdits>>
    PROVE  RepoInv'
<1>. DEFINE r == runs[g]
            k == [r EXCEPT !.at = where, !.left = left, !.merged = merged]
<1>0. r \in GenSet /\ InOrder(r) /\ runs' = [runs EXCEPT ![g] = k]
  BY DEF RepoInv
<1>. HIDE DEF r
<1>1. k \in GenSet /\ k.at = where /\ k.left = left /\ k.queue = r.queue
  BY <1>0 DEF GenSet
<1>. HIDE DEF k
<1>. QED
  BY <1>0, <1>1, GenMoves DEF InOrder

\* The whole of what a run holds, to write one of its changes as all of them.
LEMMA Fields ==
    ASSUME RepoInv, NEW g \in Gens
    PROVE  /\ runs[g].at \in Places /\ runs[g].left \in SUBSET Owner
           /\ runs[g].owners \in SUBSET Owner /\ runs[g].merged \in Lists
           /\ runs[g].fresh \in SUBSET Owner /\ runs[g].queue \in Seq(MessageSet)
           /\ InOrder(runs[g])
           /\ \A w \in Places, l \in SUBSET Owner :
                 /\ [runs[g] EXCEPT !.at = w] =
                       [runs[g] EXCEPT !.at = w, !.left = runs[g].left, !.merged = runs[g].merged]
                 /\ [runs[g] EXCEPT !.left = l] =
                       [runs[g] EXCEPT !.at = runs[g].at, !.left = l, !.merged = runs[g].merged]
<1>. DEFINE r == runs[g]
<1>1. r \in GenSet /\ InOrder(r)
  BY DEF RepoInv
<1>. HIDE DEF r
<1>2. /\ r.at \in Places /\ r.left \in SUBSET Owner /\ r.owners \in SUBSET Owner
      /\ r.merged \in Lists /\ r.fresh \in SUBSET Owner /\ r.queue \in Seq(MessageSet)
  BY <1>1 DEF GenSet
<1>3. \A w \in Places, l \in SUBSET Owner :
        /\ [r EXCEPT !.at = w] = [r EXCEPT !.at = w, !.left = r.left, !.merged = r.merged]
        /\ [r EXCEPT !.left = l] = [r EXCEPT !.at = r.at, !.left = l, !.merged = r.merged]
  BY <1>1 DEF GenSet
<1>. QED
  BY <1>1, <1>2, <1>3 DEF r

LEMMA RefusedKeeps ==
    ASSUME RepositoriesAssumption, RepoInv, NEW g \in Gens,
           TellRefused(g) \/ CompleteRefused(g)
    PROVE  RepoInv'
<1>. DEFINE r == runs[g]
<1>0. /\ UNCHANGED <<configured, gen, disk, ownerEdits>> /\ disk' \in DiskSet
      /\ r.at = "refused" /\ r.left \in SUBSET Owner /\ r.merged \in Lists
  BY Fields DEF RepoInv, TellRefused, CompleteRefused,
     Quietly
<1>1. CASE TellRefused(g)
  <2>. DEFINE o    == NextOf(r.left)
              left == r.left \ {o}
  <2>1. /\ runs' = [runs EXCEPT ![g].left = left] /\ r.left # {}
        /\ Push(g, Failed(o))
    BY <1>1 DEF TellRefused
  <2>2. o \in Owner /\ left \in SUBSET Owner
    BY <1>0, <2>1, Nexts
  <2>. HIDE DEF o, left
  <2>3. Failed(o) \in MessageSet
    BY <2>2, Messages, ZeroList
  <2>4. repos' \in Lists /\ errs' \subseteq Owner
    BY <2>1, <2>3, Pushed
  <2>5. runs' = [runs EXCEPT ![g] = [r EXCEPT !.left = left]]
    BY <2>1
  <2>6. [r EXCEPT !.left = left] = [r EXCEPT !.at = r.at, !.left = left, !.merged = r.merged]
    BY <2>2, Fields
  <2>7. runs' = [runs EXCEPT ![g] = [@ EXCEPT !.at = r.at, !.left = left, !.merged = r.merged]]
    BY <2>5, <2>6
  <2>8. r.at \in Places
    BY Fields
  <2>. HIDE DEF r
  <2>. QED
    BY <1>0, <2>2, <2>4, <2>7, <2>8, GenGoes
<1>2. CASE CompleteRefused(g)
  <2>. DEFINE where == IF Superseded(g) THEN "dropped" ELSE "told"
  <2>1. /\ runs' = [runs EXCEPT ![g].at = where]
        /\ Push(g, Complete({}))
    BY <1>2 DEF CompleteRefused
  <2>2. where \in Places /\ where \notin {"token", "starting", "asking"}
    BY DEF Places
  <2>. HIDE DEF where
  <2>3. Complete({}) \in MessageSet
    BY Messages, ZeroList DEF RepositoriesAssumption
  <2>4. repos' \in Lists /\ errs' \subseteq Owner
    BY <2>1, <2>3, Pushed
  <2>5. runs' = [runs EXCEPT ![g] = [r EXCEPT !.at = where]]
    BY <2>1
  <2>6. [r EXCEPT !.at = where] = [r EXCEPT !.at = where, !.left = r.left, !.merged = r.merged]
    BY <1>0, <2>2, Fields
  <2>7. runs' = [runs EXCEPT ![g] = [@ EXCEPT !.at = where, !.left = r.left, !.merged = r.merged]]
    BY <2>5, <2>6
  <2>. HIDE DEF r
  <2>. QED
    BY <1>0, <2>2, <2>4, <2>7, GenGoes
<1>. QED
  BY <1>1, <1>2

\* Only its place changes.
LEMMA GenGoesTo ==
    ASSUME RepoInv, NEW g \in Gens, NEW where \in Places,
           where \notin {"token", "starting"}, where = "asking" => runs[g].left # {},
           runs' = [runs EXCEPT ![g].at = where],
           repos' \in Lists, errs' \subseteq Owner, disk' \in DiskSet,
           UNCHANGED <<configured, gen, ownerEdits>>
    PROVE  RepoInv'
<1>. DEFINE r == runs[g]
<1>1. runs' = [runs EXCEPT ![g] = [r EXCEPT !.at = where]]
  OBVIOUS
<1>2. [r EXCEPT !.at = where] = [r EXCEPT !.at = where, !.left = r.left, !.merged = r.merged]
  BY Fields
<1>3. runs' = [runs EXCEPT ![g] = [@ EXCEPT !.at = where, !.left = r.left, !.merged = r.merged]]
  BY <1>1, <1>2
<1>4. r.left \in SUBSET Owner /\ r.merged \in Lists
  BY Fields
<1>5. where = "asking" => r.left # {}
  OBVIOUS
<1>. HIDE DEF r
<1>. QED
  BY <1>3, <1>4, <1>5, GenGoes

LEMMA RetryKeeps ==
    ASSUME RepositoriesAssumption, RepoInv, NEW g \in Gens,
           \/ RetryStarts(g) \/ RetryJudges(g)
           \/ RetryStamps(g) \/ RetryCompletes(g)
           \/ \E ok \in BOOLEAN : RetryAnswers(g, ok)
    PROVE  RepoInv'
<1>0. /\ repos \in Lists /\ errs \subseteq Owner /\ disk \in DiskSet
      /\ runs[g].left \in SUBSET Owner /\ runs[g].merged \in Lists
      /\ runs[g].owners \in SUBSET Owner /\ InOrder(runs[g])
  BY Fields DEF RepoInv
<1>1. CASE RetryStarts(g)
  <2>. DEFINE o     == NextOf(runs[g].left)
              where == IF Superseded(g) THEN "dropped" ELSE "asking"
  <2>1. /\ runs' = [runs EXCEPT ![g].at = where] /\ runs[g].left # {}
        /\ Push(g, Started(o))
        /\ UNCHANGED <<configured, gen, disk, ownerEdits>>
    BY <1>1 DEF RetryStarts, Quietly
  <2>2. where \in Places /\ where \notin {"token", "starting"}
    BY DEF Places
  <2>3. o \in Owner
    BY <1>0, <2>1, Nexts
  <2>. HIDE DEF o, where
  <2>4. Started(o) \in MessageSet
    BY <2>3, Messages, ZeroList
  <2>5. repos' \in Lists /\ errs' \subseteq Owner
    BY <2>1, <2>4, Pushed
  <2>. QED
    BY <1>0, <2>1, <2>2, <2>5, GenGoesTo
<1>2. CASE RetryJudges(g)
  <2>. DEFINE where == IF errs = {} /\ ~Superseded(g) THEN "stamping" ELSE "last"
  <2>1. /\ runs' = [runs EXCEPT ![g].at = where]
        /\ UNCHANGED <<configured, gen, disk, ownerEdits, repos, errs>>
    BY <1>2 DEF RetryJudges, Quietly
  <2>2. where \in Places /\ where \notin {"token", "starting", "asking"}
    BY DEF Places
  <2>. HIDE DEF where
  <2>. QED
    BY <1>0, <2>1, <2>2, GenGoesTo
<1>3. CASE RetryStamps(g)
  <2>1. /\ runs' = [runs EXCEPT ![g].at = "last"]
        /\ UNCHANGED <<configured, gen, ownerEdits, repos, errs>>
        /\ disk' \in {disk, Written(runs[g].owners, runs[g].merged,
                                                 runs[g].owners, g)}
    BY <1>3 DEF RetryStamps
  <2>2. disk' \in DiskSet
    BY <1>0, <2>1, FileOfLists
  <2>3. "last" \in Places /\ "last" \notin {"token", "starting", "asking"}
    BY DEF Places
  <2>. QED
    BY <1>0, <2>1, <2>2, <2>3, GenGoesTo
<1>4. CASE RetryCompletes(g)
  <2>. DEFINE where == IF Superseded(g) THEN "dropped" ELSE "told"
  <2>1. /\ runs' = [runs EXCEPT ![g].at = where]
        /\ Push(g, Complete({runs[g].merged}))
        /\ UNCHANGED <<configured, gen, disk, ownerEdits>>
    BY <1>4 DEF RetryCompletes, Quietly
  <2>2. where \in Places /\ where \notin {"token", "starting", "asking"}
    BY DEF Places
  <2>. HIDE DEF where
  <2>3. Complete({runs[g].merged}) \in MessageSet
    BY <1>0, Messages DEF RepositoriesAssumption
  <2>4. repos' \in Lists /\ errs' \subseteq Owner
    BY <2>1, <2>3, Pushed
  <2>. QED
    BY <1>0, <2>1, <2>2, <2>4, GenGoesTo
<1>5. CASE \E ok \in BOOLEAN : RetryAnswers(g, ok)
  <2>0. PICK ok \in BOOLEAN : RetryAnswers(g, ok)
    BY <1>5
  <2>. DEFINE o      == NextOf(runs[g].left)
              where  == IF Superseded(g) THEN "dropped" ELSE "retry"
              left   == runs[g].left \ {o}
              merged == [runs[g].merged EXCEPT ![o] = IF ok THEN g ELSE runs[g].merged[o]]
              msg    == IF ok THEN Succeeded(o, {}) ELSE Failed(o)
  <2>1. /\ runs[g].at = "asking" /\ Push(g, msg)
        /\ UNCHANGED <<configured, gen, disk, ownerEdits>>
    BY <2>0 DEF RetryAnswers, Quietly
  <2>2. runs' = [runs EXCEPT ![g] = [@ EXCEPT !.at = where, !.left = left, !.merged = merged]]
    <3>1. runs' = [runs EXCEPT ![g].at = where, ![g].left = left,
                              ![g].merged[o] = IF ok THEN g ELSE runs[g].merged[o]]
      BY <2>0 DEF RetryAnswers
    <3>2. runs' = [runs EXCEPT ![g].at = where, ![g].left = left, ![g].merged = merged]
      BY Zenon, <3>1
    <3>. HIDE DEF merged, where, left, o
    <3>. QED
      BY <3>2
  <2>3. o \in Owner /\ left \in SUBSET Owner
    BY <1>0, <2>1, Nexts DEF InOrder
  <2>4. g \in 0 .. MaxGen
    BY DEF Gens, RepositoriesAssumption
  <2>5. merged \in Lists
    BY <1>0, <2>3, <2>4 DEF Lists
  <2>6. where \in Places /\ where \notin {"token", "starting", "asking"}
    BY DEF Places
  <2>. HIDE DEF o, where, left, merged
  <2>7. msg \in MessageSet
    BY <2>3, Messages, ZeroList
  <2>. HIDE DEF msg
  <2>8. repos' \in Lists /\ errs' \subseteq Owner
    BY <2>1, <2>7, Pushed
  <2>. QED
    BY <1>0, <2>1, <2>2, <2>3, <2>5, <2>6, <2>8, GenGoes
<1>. QED
  BY <1>1, <1>2, <1>3, <1>4, <1>5

\* The fan-out: the coordinator's steps, each with its room in the channel.
LEMMA FanOutKeeps ==
    ASSUME RepositoriesAssumption, RepoInv, NEW g \in Gens,
           \/ StartOwner(g) \/ Judge(g) \/ Write(g)
           \/ SendComplete(g)
           \/ \E ok \in BOOLEAN, o \in Owner : Collect(g, o, ok)
    PROVE  RepoInv'
<1>. DEFINE r == runs[g]
<1>0. /\ repos \in Lists /\ errs \subseteq Owner /\ disk \in DiskSet
      /\ r.left \in SUBSET Owner /\ r.merged \in Lists
      /\ r.owners \in SUBSET Owner /\ r.fresh \in SUBSET Owner /\ InOrder(r)
  BY Fields DEF RepoInv
<1>1. CASE StartOwner(g)
  <2>. DEFINE o == NextOf(r.left)
  <2>1. o \in Owner /\ o \in r.left
    BY <1>0, <1>1, Nexts DEF InOrder, StartOwner
  <2>2. Started(o) \in MessageSet
    BY <2>1, Messages, ZeroList
  <2>3. "collecting" \in Places /\ "starting" \in Places /\ {} \in SUBSET Owner
    BY DEF Places
  <2>4. CASE r.left = {o}
    <3>1. Send(g, Started(o), "collecting", r.owners, r.merged, {})
      BY <1>1, <2>4 DEF StartOwner
    <3>. HIDE DEF r, o
    <3>. QED
      BY <1>0, <2>2, <2>3, <3>1, SentKeeps
  <2>5. CASE r.left # {o}
    <3>1. Send(g, Started(o), "starting", r.left \ {o}, r.merged, {})
      BY <1>1, <2>5 DEF StartOwner
    <3>2. r.left \ {o} \in SUBSET Owner /\ r.left \ {o} # {}
      BY <1>0, <2>1, <2>5
    <3>. HIDE DEF r, o
    <3>. QED
      BY <1>0, <2>2, <2>3, <3>1, <3>2, SentKeeps
  <2>. QED
    BY <2>4, <2>5
<1>2. CASE Judge(g)
  <2>. DEFINE where == IF ~Superseded(g) /\ r.fresh # {} THEN "writing" ELSE "closing"
  <2>1. /\ runs' = [runs EXCEPT ![g].at = where]
        /\ UNCHANGED <<configured, gen, disk, ownerEdits, repos, errs>>
    BY <1>2 DEF Judge, Quietly
  <2>2. where \in Places /\ where \notin {"token", "starting", "asking"}
    BY DEF Places
  <2>. HIDE DEF where, r
  <2>. QED
    BY <1>0, <2>1, <2>2, GenGoesTo
<1>3. CASE Write(g)
  <2>1. /\ runs' = [runs EXCEPT ![g].at = "closing"]
        /\ UNCHANGED <<configured, gen, ownerEdits, repos, errs>>
        /\ disk' \in {disk, Written(r.owners, r.merged, r.fresh, g)}
    BY <1>3 DEF Write
  <2>. HIDE DEF r
  <2>2. disk' \in DiskSet
    BY <1>0, <2>1, FileOfLists
  <2>3. "closing" \in Places /\ "closing" \notin {"token", "starting", "asking"}
    BY DEF Places
  <2>. QED
    BY <1>0, <2>1, <2>2, <2>3, GenGoesTo
<1>4. CASE SendComplete(g)
  <2>1. Send(g, Complete({r.merged}), "closed", {}, r.merged, r.fresh)
    BY <1>4 DEF SendComplete
  <2>. HIDE DEF r
  <2>2. Complete({r.merged}) \in MessageSet
    BY <1>0, Messages DEF RepositoriesAssumption
  <2>3. "closed" \in Places /\ {} \in SUBSET Owner
    BY DEF Places
  <2>. QED
    BY <1>0, <2>1, <2>2, <2>3, SentKeeps
<1>5. CASE \E ok \in BOOLEAN, o \in Owner : Collect(g, o, ok)
  <2>0. PICK ok \in BOOLEAN, o \in Owner : Collect(g, o, ok)
    BY <1>5
  <2>. DEFINE with == [r.merged EXCEPT ![o] = g]
  <2>1. IF ok THEN Send(g, Succeeded(o, {with}), "collecting",
                                     r.left \ {o}, with, r.fresh \cup {o})
              ELSE Send(g, Failed(o), "collecting", r.left \ {o},
                                     r.merged, r.fresh)
    BY <2>0 DEF Collect
  <2>2. g \in 0 .. MaxGen
    BY DEF Gens, RepositoriesAssumption
  <2>3. with \in Lists
    BY <1>0, <2>2 DEF Lists
  <2>. HIDE DEF with
  <2>4. Succeeded(o, {with}) \in MessageSet /\ Failed(o) \in MessageSet
    BY <2>3, Messages
  <2>5. /\ "collecting" \in Places /\ r.left \ {o} \in SUBSET Owner
        /\ r.fresh \cup {o} \in SUBSET Owner
    BY <1>0 DEF Places
  <2>. HIDE DEF r
  <2>6. CASE ok
    BY <1>0, <2>1, <2>3, <2>4, <2>5, <2>6, SentKeeps
  <2>7. CASE ~ok
    BY <1>0, <2>1, <2>4, <2>5, <2>7, SentKeeps
  <2>. QED
    BY <2>6, <2>7
<1>. QED
  BY <1>1, <1>2, <1>3, <1>4, <1>5

\* The run's own loop takes the oldest message.
LEMMA ReceiveKeeps ==
    ASSUME RepositoriesAssumption, RepoInv, NEW g \in Gens,
           Receive(g)
    PROVE  RepoInv'
<1>. DEFINE r       == runs[g]
            reading == ~Superseded(g) /\ Head(r.queue).state # "complete"
            where   == IF ~Superseded(g) /\ Head(r.queue).state = "complete"
                       THEN "told" ELSE r.at
            k       == [r EXCEPT !.queue = Tail(r.queue), !.reading = reading, !.at = where]
<1>0. r \in GenSet /\ InOrder(r) /\ r.queue \in Seq(MessageSet) /\ r.at \in Places
  BY Fields DEF RepoInv
<1>1. /\ r.queue # <<>> /\ Push(g, Head(r.queue))
      /\ UNCHANGED <<configured, gen, disk, ownerEdits>>
  BY DEF Receive, Quietly
<1>2. runs' = [runs EXCEPT ![g] = k]
  BY DEF Receive
<1>3. where \in Places /\ (where = r.at \/ where = "told")
  BY <1>0 DEF Places
<1>4. reading \in BOOLEAN
  OBVIOUS
<1>. HIDE DEF reading, where, r
<1>5. Head(r.queue) \in MessageSet /\ Tail(r.queue) \in Seq(MessageSet)
      /\ Len(Tail(r.queue)) = Len(r.queue) - 1 /\ Len(r.queue) \in Nat
  BY <1>0, <1>1, HeadTailProperties, LenProperties
<1>6. repos' \in Lists /\ errs' \subseteq Owner
  BY <1>1, <1>5, Pushed
<1>7. k \in GenSet /\ k.at = where /\ k.left = r.left /\ k.owners = r.owners
      /\ k.queue = Tail(r.queue)
  BY <1>0, <1>3, <1>4, <1>5 DEF GenSet
<1>. HIDE DEF k
<1>8. Len(k.queue) = Len(r.queue) - 1
  BY <1>5, <1>7
<1>9. Room \in Int /\ Len(r.queue) <= Room => Len(r.queue) - 1 <= Room
  BY <1>5
<1>10. Room \in Int
  BY ZeroList
<1>11. InOrder(k)
  BY <1>0, <1>3, <1>7, <1>8, <1>9, <1>10 DEF InOrder
<1>. QED
  BY <1>1, <1>2, <1>6, <1>7, <1>11, GenMoves DEF RepoInv

\* The owners are chosen, or the button is pressed.
LEMMA PressKeeps ==
    ASSUME RepositoriesAssumption, RepoInv,
           \/ Refresh
           \/ \E owners \in (SUBSET Owner) \ {{}} : Configure(owners)
    PROVE  RepoInv'
<1>1. CASE \E owners \in (SUBSET Owner) \ {{}} : Configure(owners)
  <2>1. PICK owners \in (SUBSET Owner) \ {{}} : Configure(owners)
    BY <1>1
  <2>2. /\ configured' = owners /\ ownerEdits < MaxEdits /\ ownerEdits' = ownerEdits + 1
        /\ UNCHANGED <<repos, errs, gen, runs, disk>>
    BY <2>1 DEF Configure
  <2>3. ownerEdits' \in 0 .. MaxEdits
    <3>1. ownerEdits \in 0 .. MaxEdits /\ MaxEdits \in Nat
      BY DEF RepoInv, RepositoriesAssumption
    <3>. QED
      BY <2>2, <3>1
  <2>. QED
    BY <2>2, <2>3 DEF RepoInv
<1>2. CASE Refresh
  <2>. DEFINE n == gen + 1
              z == NoRun
              m == OwnedBy(repos, configured)
              e == errs \cap configured
              k == [z EXCEPT !.at = "token", !.owners = configured, !.left = e, !.merged = m]
  <2>1. /\ gen < MaxGen /\ gen' = n /\ runs' = [runs EXCEPT ![n] = k]
        /\ UNCHANGED <<configured, repos, errs, disk, ownerEdits>>
    BY <1>2 DEF Refresh
  <2>2. n \in Gens /\ n \in 0 .. MaxGen
    BY <2>1 DEF RepoInv, Gens, RepositoriesAssumption
  <2>3. m \in Lists
    <3>1. 0 \in 0 .. MaxGen
      BY DEF RepositoriesAssumption
    <3>. QED
      BY <3>1 DEF RepoInv, OwnedBy, Lists
  <2>4. z \in GenSet /\ z.queue = <<>> /\ Room \in Nat
    BY ZeroList
  <2>5. configured \in SUBSET Owner /\ configured # {} /\ e \in SUBSET Owner
    BY DEF RepoInv
  <2>. HIDE DEF z, m, n, e
  <2>6. k \in GenSet /\ k.at = "token" /\ k.owners = configured /\ k.queue = <<>>
    BY <2>3, <2>4, <2>5 DEF GenSet, Places
  <2>. HIDE DEF k
  <2>7. Len(<<>>) = 0 /\ 0 <= Room
    BY <2>4, EmptySeq
  <2>8. InOrder(k)
    BY <2>5, <2>6, <2>7 DEF InOrder
  <2>9. runs' \in [Gens -> GenSet]
    BY <2>1, <2>2, <2>6 DEF RepoInv
  <2>10. \A h \in Gens : runs'[h] = IF h = n THEN k ELSE runs[h]
    BY <2>1, <2>2 DEF RepoInv
  <2>11. \A h \in Gens : InOrder(runs'[h])
    BY <2>8, <2>10 DEF RepoInv
  <2>. QED
    BY <2>1, <2>2, <2>9, <2>11 DEF RepoInv
<1>. QED
  BY <1>1, <1>2

LEMMA RepositoriesStep ==
    ASSUME RepositoriesAssumption, RepoInv,
           [RepoNext]_(repoVars)
    PROVE  RepoInv'
<1>1. CASE UNCHANGED repoVars
  <2>1. UNCHANGED <<configured, repos, errs, gen, runs, disk, ownerEdits>>
    BY <1>1 DEF repoVars
  <2>. QED
    BY <2>1 DEF RepoInv
<1>2. CASE Refresh \/ \E owners \in (SUBSET Owner) \ {{}} : Configure(owners)
  BY <1>2, PressKeeps
<1>3. CASE \E g \in Gens : Step(g)
  <2>1. PICK g \in Gens : Step(g)
    BY <1>3
  <2>. QED
    BY <2>1, TokenKeeps, RefusedKeeps, RetryKeeps, FanOutKeeps, ReceiveKeeps
    DEF Step
<1>. QED
  BY <1>1, <1>2, <1>3 DEF RepoNext

LEMMA RepositoriesShow ==
    ASSUME RepositoriesAssumption, RepoInv PROVE RepoTypeOK
<1>1. \A g \in Gens : /\ runs[g].merged \in Lists
                                   /\ Len(runs[g].queue) <= Room
  BY Fields DEF InOrder
<1>. QED
  BY <1>1 DEF RepoInv, Room, DiskSet, RepoTypeOK

-----------------------------------------------------------------------------
(* No list gives way to an older one: what the newest run has yet to send is   *)
(* never older than what is shown, nor than what it sent before.              *)

\* Where a run has sent nothing over its channel.
Asking == {"token", "retry", "asking", "stamping", "last", "refused"}

\* The lists a run has sent and not been heard on come one after the other, up to the
\* one it has by now, and none is of a later run.
Rises(r, g) ==
    /\ \A o \in Owner : r.merged[o] <= g
    /\ r.at \in Asking => r.queue = <<>>
    /\ \A i \in 1 .. Len(r.queue) : \A l \in r.queue[i].list :
          \A o \in Owner : l[o] <= r.merged[o]
    /\ \A i, j \in 1 .. Len(r.queue) : i < j =>
          \A l \in r.queue[i].list, m \in r.queue[j].list : \A o \in Owner : l[o] <= m[o]

\* None of them is older than the one shown, p.
NoneOlder(r, p) ==
    /\ \A o \in r.owners : p[o] <= r.merged[o]
    /\ \A i \in 1 .. Len(r.queue) : \A l \in r.queue[i].list :
          \A o \in r.owners : p[o] <= l[o]

OlderInv ==
    /\ RepoInv
    /\ \A o \in Owner : repos[o] <= gen
    /\ \A g \in Gens : Rises(runs[g], g)
    /\ \A g \in Gens : g > gen => runs[g] = NoRun
    /\ gen > 0 => NoneOlder(runs[gen], repos)

LEMMA OlderInit == ASSUME RepositoriesAssumption, RepoInit PROVE OlderInv
<1>1. RepoInv
  BY RepositoriesInit
<1>2. repos = None /\ gen = 0 /\ \A g \in Gens : runs[g] = NoRun
  BY DEF RepoInit
<1>3. NoRun.merged = None /\ NoRun.queue = <<>> /\ Len(<<>>) = 0 /\ 1 .. 0 = {}
  BY ZeroList, EmptySeq DEF NoRun
<1>4. \A o \in Owner : None[o] = 0
  BY DEF None
<1>5. \A g \in Gens : Rises(NoRun, g)
  BY <1>3, <1>4, RepositoriesAssumption DEF Rises, Gens
<1>. QED
  BY <1>1, <1>2, <1>4, <1>5 DEF OlderInv

\* A run that is under way is not a later one than the newest.
LEMMA NotLater ==
    ASSUME RepositoriesAssumption, OlderInv, NEW g \in Gens, runs[g] # NoRun
    PROVE  g <= gen /\ (Superseded(g) <=> g # gen) /\ gen > 0
<1>1. g \in Nat \ {0} /\ gen \in Nat /\ ~(g > gen)
  BY DEF OlderInv, RepoInv, Gens, RepositoriesAssumption
<1>. QED
  BY <1>1 DEF Superseded

LEMMA OneRunMoves ==
    ASSUME RepositoriesAssumption, OlderInv, RepoInv', NEW g \in Gens, runs[g] # NoRun,
           NEW k, Rises(k, g), runs' = [runs EXCEPT ![g] = k], gen' = gen,
           IF g = gen THEN NoneOlder(k, repos') /\ \A o \in Owner : repos'[o] <= gen
                      ELSE repos' = repos
    PROVE  OlderInv'
<1>1. \A h \in Gens : runs'[h] = IF h = g THEN k ELSE runs[h]
  BY DEF OlderInv, RepoInv
<1>2. g <= gen /\ gen > 0 /\ gen \in Gens
  BY NotLater DEF OlderInv, RepoInv, Gens, RepositoriesAssumption
<1>3. \A h \in Gens : Rises(runs'[h], h)
  BY <1>1 DEF OlderInv
<1>4. \A h \in Gens : h > gen' => runs'[h] = NoRun
  <2>1. \A h \in Gens : h > gen => h # g
    BY <1>2 DEF Gens, OlderInv, RepoInv, RepositoriesAssumption
  <2>. QED
    BY <1>1, <2>1 DEF OlderInv
<1>5. CASE g = gen
  BY <1>1, <1>3, <1>4, <1>5 DEF OlderInv
<1>6. CASE g # gen
  BY <1>1, <1>2, <1>3, <1>4, <1>6 DEF OlderInv
<1>. QED
  BY <1>5, <1>6

\* A run that goes on and has no other list.
LEMMA SameLists ==
    ASSUME RepositoriesAssumption, OlderInv, RepoInv', NEW g \in Gens, runs[g] # NoRun,
           NEW k, runs' = [runs EXCEPT ![g] = k], gen' = gen, repos' = repos,
           k.merged = runs[g].merged, k.queue = runs[g].queue, k.owners = runs[g].owners,
           k.at \in Asking => runs[g].at \in Asking
    PROVE  OlderInv'
<1>1. Rises(k, g)
  BY DEF OlderInv, Rises
<1>2. gen > 0 => NoneOlder(runs[gen], repos)
  BY DEF OlderInv
<1>3. g = gen => NoneOlder(k, repos') /\ \A o \in Owner : repos'[o] <= gen
  BY <1>2, NotLater DEF NoneOlder, OlderInv
<1>. QED
  BY <1>1, <1>3, OneRunMoves

\* What is told with no list changes none.
LEMMA ToldNoList ==
    ASSUME NEW g, NEW msg, msg.list = {}, Push(g, msg) PROVE repos' = repos
BY DEF Push

LEMMA QuietOlder ==
    ASSUME RepositoriesAssumption, OlderInv, RepoInv', NEW g \in Gens,
           \/ HasToken(g) \/ HasNoToken(g) \/ TellRefused(g) \/ CompleteRefused(g)
           \/ RetryStarts(g) \/ RetryJudges(g) \/ RetryStamps(g) \/ Judge(g) \/ Write(g)
    PROVE  OlderInv'
<1>. DEFINE r == runs[g]
<1>0. r \in GenSet
  BY DEF OlderInv, RepoInv
<1>1. gen' = gen /\ repos' = repos
  <2>1. \A o : Failed(o).list = {} /\ Started(o).list = {} /\ Complete({}).list = {}
    BY DEF Failed, Started, Complete
  <2>2. CASE TellRefused(g) \/ CompleteRefused(g) \/ RetryStarts(g)
    BY <2>1, <2>2, ToldNoList DEF TellRefused, CompleteRefused, RetryStarts, Quietly
  <2>. QED
    BY <2>2 DEF HasToken, HasNoToken, RetryJudges, RetryStamps, Judge, Write, Quietly
<1>2. r.at # "none" => r # NoRun
  BY DEF NoRun
<1>3. r.at # "none" /\ \E k : /\ runs' = [runs EXCEPT ![g] = k]
                              /\ k.merged = r.merged /\ k.queue = r.queue /\ k.owners = r.owners
                              /\ k.at \in Asking => r.at \in Asking
  <2>1. CASE HasToken(g)
    <3>. DEFINE k == IF r.left = {}
                     THEN [r EXCEPT !.at = "starting", !.left = r.owners, !.reading = TRUE]
                     ELSE [r EXCEPT !.at = "retry"]
    <3>1. runs' = [runs EXCEPT ![g] = k] /\ r.at = "token"
      BY <2>1 DEF HasToken
    <3>. HIDE DEF r
    <3>2. k.merged = r.merged /\ k.queue = r.queue /\ k.owners = r.owners
      BY <1>0 DEF GenSet
    <3>. HIDE DEF k
    <3>. QED
      BY <3>1, <3>2 DEF Asking
  <2>2. CASE HasNoToken(g)
    <3>. DEFINE k == [r EXCEPT !.at = "refused", !.left = IF r.left = {} THEN r.owners ELSE r.left]
    <3>1. runs' = [runs EXCEPT ![g] = k] /\ r.at = "token"
      BY <2>2 DEF HasNoToken
    <3>. HIDE DEF r
    <3>2. k.merged = r.merged /\ k.queue = r.queue /\ k.owners = r.owners
      BY <1>0 DEF GenSet
    <3>. HIDE DEF k
    <3>. QED
      BY <3>1, <3>2 DEF Asking
  <2>3. CASE TellRefused(g)
    <3>. DEFINE k == [r EXCEPT !.left = r.left \ {NextOf(r.left)}]
    <3>1. runs' = [runs EXCEPT ![g] = k] /\ r.at = "refused"
      BY <2>3 DEF TellRefused
    <3>. HIDE DEF r
    <3>2. k.merged = r.merged /\ k.queue = r.queue /\ k.owners = r.owners
      BY <1>0 DEF GenSet
    <3>. HIDE DEF k
    <3>. QED
      BY <3>1, <3>2 DEF Asking
  <2>4. ASSUME NEW to, runs' = [runs EXCEPT ![g].at = to], to \in Asking => r.at \in Asking,
               r.at # "none"
        PROVE  \E k : /\ runs' = [runs EXCEPT ![g] = k]
                      /\ k.merged = r.merged /\ k.queue = r.queue /\ k.owners = r.owners
                      /\ k.at \in Asking => r.at \in Asking
    <3>. DEFINE k == [r EXCEPT !.at = to]
    <3>1. runs' = [runs EXCEPT ![g] = k]
      BY <2>4
    <3>. HIDE DEF r
    <3>2. k.merged = r.merged /\ k.queue = r.queue /\ k.owners = r.owners /\ k.at = to
      BY <1>0 DEF GenSet
    <3>. HIDE DEF k
    <3>. QED
      BY <2>4, <3>1, <3>2
  <2>5. CASE CompleteRefused(g)
    BY <2>4, <2>5 DEF CompleteRefused, Asking
  <2>6. CASE RetryStarts(g)
    BY <2>4, <2>6 DEF RetryStarts, Asking
  <2>7. CASE RetryJudges(g)
    BY <2>4, <2>7 DEF RetryJudges, Asking
  <2>8. CASE RetryStamps(g)
    BY <2>4, <2>8 DEF RetryStamps, Asking
  <2>9. CASE Judge(g)
    BY <2>4, <2>9 DEF Judge, Asking
  <2>10. CASE Write(g)
    BY <2>4, <2>10 DEF Write, Asking
  <2>. QED
    BY <2>1, <2>2, <2>3, <2>5, <2>6, <2>7, <2>8, <2>9, <2>10
<1>. QED
  BY <1>1, <1>2, <1>3, SameLists

LEMMA ToldAList ==
    ASSUME NEW g, NEW msg, NEW l \in Lists, msg.list = {l}, Push(g, msg), ~Superseded(g)
    PROVE  repos' = l
<1>1. repos' = CHOOSE m \in Lists : {l} = {m}
  BY DEF Push
<1>2. \A m \in Lists : {l} = {m} <=> m = l
  OBVIOUS
<1>. QED
  BY <1>1, <1>2

\* What is compared is numbers.
LEMMA Numbers ==
    ASSUME RepositoriesAssumption, RepoInv
    PROVE  /\ \A l \in Lists : \A o \in Owner : l[o] \in Nat
           /\ gen \in Nat /\ \A g \in Gens : g \in Nat /\ runs[g].merged \in Lists
           /\ repos \in Lists
BY DEF Lists, Gens, RepoInv, GenSet, RepositoriesAssumption

LEMMA AnswersOlder ==
    ASSUME RepositoriesAssumption, OlderInv, RepoInv', NEW g \in Gens, NEW ok \in BOOLEAN,
           RetryAnswers(g, ok)
    PROVE  OlderInv'
<1>. DEFINE r == runs[g]
            o == NextOf(r.left)
            m == [r.merged EXCEPT ![o] = IF ok THEN g ELSE r.merged[o]]
            k == [r EXCEPT !.at = IF Superseded(g) THEN "dropped" ELSE "retry",
                           !.left = r.left \ {o}, !.merged = m]
<1>1. r \in GenSet /\ RepoInv
  BY DEF OlderInv, RepoInv
<1>2. /\ runs' = [runs EXCEPT ![g] = k] /\ r.at = "asking" /\ gen' = gen
  <2>1. runs' = [runs EXCEPT ![g].at = IF Superseded(g) THEN "dropped" ELSE "retry",
                             ![g].left = @ \ {o}, ![g].merged[o] = IF ok THEN g ELSE @]
    BY DEF RetryAnswers
  <2>2. runs' = [runs EXCEPT ![g] = k]
    BY <2>1
  <2>. QED
    BY <2>2 DEF RetryAnswers, Quietly
<1>3. repos' = repos
  <2>1. Succeeded(o, {}).list = {} /\ Failed(o).list = {}
    BY DEF Succeeded, Failed
  <2>. QED
    BY <2>1, ToldNoList DEF RetryAnswers
<1>4. r # NoRun
  BY <1>2 DEF NoRun
<1>5. r.queue = <<>> /\ Rises(r, g) /\ (gen > 0 => NoneOlder(runs[gen], repos))
  BY <1>2 DEF OlderInv, Rises, Asking
<1>6. /\ r.merged \in Lists /\ g \in Nat /\ gen \in Nat
      /\ \A p \in Owner : r.merged[p] \in Nat /\ repos[p] \in Nat
  BY <1>1, Numbers
<1>7. \A p \in Owner : m[p] <= g /\ r.merged[p] <= m[p] /\ m[p] \in Nat
  <2>1. \A p \in Owner : r.merged[p] <= g
    BY <1>5 DEF Rises
  <2>2. \A p \in Owner : m[p] = r.merged[p] \/ m[p] = g
    BY <1>6 DEF Lists
  <2>. QED
    BY <1>6, <2>1, <2>2
<1>. HIDE DEF r, m
<1>8. k.queue = <<>> /\ k.merged = m /\ k.owners = r.owners
  BY <1>1, <1>5 DEF GenSet
<1>. HIDE DEF k
<1>9. Len(<<>>) = 0 /\ 1 .. 0 = {}
  BY EmptySeq
<1>10. Rises(k, g)
  BY <1>7, <1>8, <1>9 DEF Rises
<1>11. ASSUME g = gen PROVE NoneOlder(k, repos') /\ \A p \in Owner : repos'[p] <= gen
  <2>1. gen > 0 /\ NoneOlder(r, repos)
    BY <1>4, <1>5, <1>11, NotLater DEF r
  <2>2. r.owners \subseteq Owner
    BY <1>1 DEF GenSet
  <2>3. \A p \in k.owners : repos[p] <= m[p]
    BY <1>6, <1>7, <1>8, <2>1, <2>2 DEF NoneOlder
  <2>. QED
    BY <1>3, <1>8, <1>9, <2>3 DEF NoneOlder, OlderInv
<1>. QED
  BY <1>2, <1>3, <1>4, <1>10, <1>11, OneRunMoves DEF r

\* What is shown after the last message of a retry is the list it has come to.
LEMMA CompletesShows ==
    ASSUME RepositoriesAssumption, OlderInv, NEW g \in Gens, RetryCompletes(g)
    PROVE  IF g = gen THEN repos' = runs[g].merged ELSE repos' = repos
<1>. DEFINE m == runs[g].merged
<1>1. Push(g, Complete({m})) /\ Complete({m}).list = {m} /\ m \in Lists /\ runs[g] # NoRun
  BY Numbers DEF RetryCompletes, Complete, OlderInv, NoRun
<1>2. Superseded(g) <=> g # gen
  BY <1>1, NotLater
<1>3. CASE Superseded(g)
  BY <1>1, <1>2, <1>3 DEF Push
<1>4. CASE ~Superseded(g)
  BY <1>1, <1>2, <1>4, ToldAList
<1>. QED
  BY <1>3, <1>4

LEMMA CompletesOlder ==
    ASSUME RepositoriesAssumption, OlderInv, RepoInv', NEW g \in Gens, RetryCompletes(g)
    PROVE  OlderInv'
<1>. DEFINE r == runs[g]
            k == [r EXCEPT !.at = IF Superseded(g) THEN "dropped" ELSE "told"]
<1>1. r \in GenSet /\ RepoInv
  BY DEF OlderInv, RepoInv
<1>2. runs' = [runs EXCEPT ![g] = k] /\ r.at = "last" /\ gen' = gen
  BY DEF RetryCompletes, Quietly
<1>3. r # NoRun
  BY <1>2 DEF NoRun
<1>4. r.queue = <<>> /\ Rises(r, g)
  BY <1>2 DEF OlderInv, Rises, Asking
<1>5. r.merged \in Lists /\ \A p \in Owner : r.merged[p] \in Nat
  BY <1>1, Numbers
<1>6. IF g = gen THEN repos' = r.merged ELSE repos' = repos
  BY CompletesShows
<1>. HIDE DEF r
<1>7. k.queue = <<>> /\ k.merged = r.merged /\ k.owners = r.owners
  BY <1>1, <1>4 DEF GenSet
<1>8. r.owners \subseteq Owner
  BY <1>1 DEF GenSet
<1>. HIDE DEF k
<1>9. Len(<<>>) = 0 /\ 1 .. 0 = {}
  BY EmptySeq
<1>10. Rises(k, g)
  BY <1>4, <1>7, <1>9 DEF Rises
<1>11. ASSUME g = gen PROVE NoneOlder(k, repos') /\ \A p \in Owner : repos'[p] <= gen
  <2>1. \A p \in Owner : r.merged[p] <= gen /\ r.merged[p] <= r.merged[p]
    BY <1>4, <1>5, <1>11 DEF Rises
  <2>. QED
    BY <1>6, <1>7, <1>8, <1>9, <1>11, <2>1 DEF NoneOlder
<1>. QED
  BY <1>2, <1>3, <1>6, <1>10, <1>11, OneRunMoves DEF r

\* A run sends the list it has by now, or none.
LEMMA SentOlder ==
    ASSUME RepositoriesAssumption, OlderInv, RepoInv', NEW g \in Gens, runs[g] # NoRun,
           NEW msg \in MessageSet, NEW where, NEW left, NEW merged \in Lists, NEW fresh,
           where \notin Asking, \A l \in msg.list : l = merged,
           \A o \in Owner : runs[g].merged[o] <= merged[o] /\ merged[o] <= g,
           Send(g, msg, where, left, merged, fresh)
    PROVE  OlderInv'
<1>. DEFINE r == runs[g]
            q == r.queue
            n == Len(q)
            u == Append(q, msg)
            k == [r EXCEPT !.queue = u, !.at = where, !.left = left, !.merged = merged,
                           !.fresh = fresh]
<1>1. r \in GenSet /\ RepoInv
  BY DEF OlderInv, RepoInv
<1>2. runs' = [runs EXCEPT ![g] = k] /\ gen' = gen /\ repos' = repos
  BY DEF Send, Quietly
<1>3. /\ q \in Seq(MessageSet) /\ n \in Nat
      /\ u \in Seq(MessageSet) /\ Len(u) = n + 1
      /\ \A i \in 1 .. n : u[i] = q[i]
      /\ u[n + 1] = msg
  BY <1>1, AppendProperties, LenProperties DEF GenSet
<1>4. Rises(r, g) /\ (gen > 0 => NoneOlder(runs[gen], repos))
  BY DEF OlderInv
<1>5. /\ \A o \in Owner : r.merged[o] \in Nat /\ merged[o] \in Nat /\ repos[o] \in Nat
      /\ \A l \in Lists : \A o \in Owner : l[o] \in Nat
      /\ r.owners \subseteq Owner
  BY <1>1, Numbers DEF GenSet
<1>6. \A i \in 1 .. n : q[i].list \subseteq Lists
  <2>1. \A i \in 1 .. n : q[i] \in MessageSet
    BY <1>3
  <2>. QED
    BY <2>1 DEF MessageSet
<1>7. /\ \A i \in 1 .. n : \A l \in q[i].list : \A o \in Owner : l[o] <= r.merged[o]
      /\ \A i, j \in 1 .. n : i < j =>
            \A l \in q[i].list, m \in q[j].list : \A o \in Owner : l[o] <= m[o]
  BY <1>4 DEF Rises
<1>8. ASSUME g = gen
      PROVE  /\ \A o \in r.owners : repos[o] <= r.merged[o]
             /\ \A i \in 1 .. n : \A l \in q[i].list : \A o \in r.owners : repos[o] <= l[o]
  <2>1. NoneOlder(r, repos)
    BY <1>4, <1>8, NotLater
  <2>. QED
    BY <2>1 DEF NoneOlder
<1>. HIDE DEF r
<1>9. k.queue = u /\ k.merged = merged /\ k.owners = r.owners /\ k.at = where
  BY <1>1 DEF GenSet
<1>. HIDE DEF k, u, q, n
<1>10. \A i \in 1 .. n + 1 : i \in 1 .. n \/ i = n + 1
  BY <1>3
<1>11. \A i \in 1 .. n : \A l \in u[i].list : \A o \in Owner : l[o] <= merged[o]
  <2>. TAKE i \in 1 .. n
  <2>. TAKE l \in u[i].list
  <2>. TAKE o \in Owner
  <2>1. l \in q[i].list /\ l \in Lists
    BY <1>3, <1>6
  <2>2. l[o] <= r.merged[o] /\ l[o] \in Nat
    BY <1>5, <1>7, <2>1
  <2>3. r.merged[o] <= merged[o]
    BY DEF r
  <2>. QED
    BY <1>5, <2>2, <2>3
<1>12. Rises(k, g)
  <2>1. \A i \in 1 .. n + 1 : \A l \in u[i].list : \A o \in Owner : l[o] <= merged[o]
    BY <1>3, <1>5, <1>10, <1>11
  <2>2. ASSUME NEW i \in 1 .. n + 1, NEW j \in 1 .. n + 1, i < j,
               NEW l \in u[i].list, NEW m \in u[j].list, NEW o \in Owner
        PROVE  l[o] <= m[o]
    <3>1. i \in 1 .. n
      BY <1>3, <2>2
    <3>2. CASE j \in 1 .. n
      BY <1>3, <1>7, <2>2, <3>1, <3>2
    <3>3. CASE j = n + 1
      BY <1>3, <1>11, <3>1, <3>3
    <3>. QED
      BY <1>10, <3>2, <3>3
  <2>. QED
    BY <1>3, <1>9, <2>1, <2>2 DEF Rises
<1>13. ASSUME g = gen PROVE NoneOlder(k, repos') /\ \A o \in Owner : repos'[o] <= gen
  <2>1. \A o \in r.owners : repos[o] <= merged[o]
    <3>. TAKE o \in r.owners
    <3>1. o \in Owner /\ r.merged[o] <= merged[o]
      BY <1>5 DEF r
    <3>. QED
      BY <1>5, <1>8, <1>13, <3>1
  <2>2. \A i \in 1 .. n + 1 : \A l \in u[i].list : \A o \in r.owners : repos[o] <= l[o]
    BY <1>3, <1>8, <1>10, <1>13, <2>1
  <2>. QED
    BY <1>2, <1>3, <1>9, <2>1, <2>2 DEF NoneOlder, OlderInv
<1>. QED
  BY <1>2, <1>12, <1>13, OneRunMoves

LEMMA FanOutOlder ==
    ASSUME RepositoriesAssumption, OlderInv, RepoInv', NEW g \in Gens,
           \/ StartOwner(g) \/ SendComplete(g)
           \/ \E ok \in BOOLEAN : \E o \in Owner : Collect(g, o, ok)
    PROVE  OlderInv'
<1>. DEFINE r == runs[g]
<1>1. r \in GenSet /\ RepoInv /\ r.merged \in Lists /\ Rises(r, g)
  BY DEF OlderInv, RepoInv, GenSet
<1>2. \A o \in Owner : r.merged[o] <= r.merged[o] /\ r.merged[o] <= g /\ r.merged[o] \in Nat
  <2>1. \A o \in Owner : r.merged[o] \in Nat
    BY <1>1, Numbers
  <2>. QED
    BY <1>1, <2>1 DEF Rises
<1>3. CASE StartOwner(g)
  <2>. DEFINE o == NextOf(r.left)
  <2>1. r.at = "starting"
    BY <1>3 DEF StartOwner
  <2>2. r # NoRun /\ r.left # {} /\ r.left \subseteq Owner
    BY <1>1, <2>1 DEF NoRun, OlderInv, RepoInv, InOrder, GenSet
  <2>3. o \in Owner
    BY <2>2, Nexts
  <2>4. Started(o) \in MessageSet /\ \A l \in Started(o).list : l = r.merged
    BY <1>1, <2>3, Messages DEF Started
  <2>. DEFINE msg == Started(o)
  <2>5. \/ Send(g, msg, "collecting", r.owners, r.merged, {})
        \/ Send(g, msg, "starting", r.left \ {o}, r.merged, {})
    BY <1>3 DEF StartOwner
  <2>. HIDE DEF msg, r, o
  <2>6. msg \in MessageSet /\ \A l \in msg.list : l = r.merged
    BY <2>4 DEF msg
  <2>. QED
    BY <1>1, <1>2, <2>2, <2>5, <2>6, SentOlder DEF Asking, r
<1>4. CASE SendComplete(g)
  <2>1. r.at = "closing" /\ r # NoRun
    BY <1>4 DEF SendComplete, NoRun
  <2>. DEFINE msg == Complete({r.merged})
  <2>2. msg \in MessageSet /\ \A l \in msg.list : l = r.merged
    <3>1. PICK o \in Owner : TRUE
      BY DEF RepositoriesAssumption
    <3>. QED
      BY <1>1, <3>1, Messages DEF Complete
  <2>3. Send(g, msg, "closed", {}, r.merged, r.fresh)
    BY <1>4 DEF SendComplete
  <2>. HIDE DEF msg, r
  <2>. QED
    BY <1>1, <1>2, <2>1, <2>2, <2>3, SentOlder DEF Asking, r
<1>5. ASSUME NEW ok \in BOOLEAN, NEW o \in Owner, Collect(g, o, ok) PROVE OlderInv'
  <2>1. r.at = "collecting" /\ r # NoRun
    BY <1>5 DEF Collect, NoRun
  <2>. DEFINE with == [r.merged EXCEPT ![o] = g]
              yes  == Succeeded(o, {with})
              no   == Failed(o)
  <2>2. /\ with \in Lists
        /\ \A p \in Owner : r.merged[p] <= with[p] /\ with[p] <= g
    <3>1. g \in 0 .. MaxGen /\ g \in Nat
      BY DEF Gens, RepositoriesAssumption
    <3>2. r.merged \in [Owner -> 0 .. MaxGen]
      BY <1>1 DEF Lists
    <3>3. with \in [Owner -> 0 .. MaxGen] /\ \A p \in Owner : with[p] = IF p = o THEN g ELSE r.merged[p]
      BY <3>1, <3>2
    <3>. HIDE DEF with
    <3>4. \A p \in Owner : r.merged[p] <= with[p] /\ with[p] <= g
      BY <1>2, <3>1, <3>3
    <3>. QED
      BY <3>3, <3>4 DEF Lists
  <2>3. yes \in MessageSet /\ \A l \in yes.list : l = with
    BY <2>2, Messages DEF Succeeded
  <2>4. no \in MessageSet /\ \A l \in no.list : l = r.merged
    BY <1>1, Messages DEF Failed
  <2>5. \/ Send(g, yes, "collecting", r.left \ {o}, with, r.fresh \cup {o})
        \/ Send(g, no, "collecting", r.left \ {o}, r.merged, r.fresh)
    BY <1>5 DEF Collect
  <2>. HIDE DEF yes, no, with, r
  <2>6. CASE Send(g, yes, "collecting", r.left \ {o}, with, r.fresh \cup {o})
    BY <2>1, <2>2, <2>3, <2>6, SentOlder DEF Asking, r
  <2>7. CASE Send(g, no, "collecting", r.left \ {o}, r.merged, r.fresh)
    BY <1>1, <1>2, <2>1, <2>4, <2>7, SentOlder DEF Asking, r
  <2>. QED
    BY <2>5, <2>6, <2>7
<1>. QED
  BY <1>3, <1>4, <1>5

\* What is shown after a message was heard is its list, if it has one.
LEMMA ReceiveShows ==
    ASSUME RepositoriesAssumption, OlderInv, NEW g \in Gens, Receive(g)
    PROVE  \/ repos' = repos
           \/ g = gen /\ \E l \in Head(runs[g].queue).list : repos' = l
<1>. DEFINE q == runs[g].queue
            msg == Head(q)
<1>1. q \in Seq(MessageSet) /\ q # <<>> /\ Push(g, msg)
  BY DEF OlderInv, RepoInv, GenSet, Receive
<1>2. msg \in MessageSet
  BY <1>1, HeadTailProperties
<1>3. Superseded(g) <=> g # gen
  BY <1>1, NotLater, ZeroList
<1>4. msg.list = {} \/ \E l \in Lists : msg.list = {l}
  BY <1>2 DEF MessageSet
<1>5. CASE Superseded(g)
  BY <1>1, <1>5 DEF Push
<1>6. CASE msg.list = {}
  BY <1>1, <1>6, ToldNoList
<1>7. CASE ~Superseded(g) /\ \E l \in Lists : msg.list = {l}
  BY <1>1, <1>3, <1>7, ToldAList
<1>. QED
  BY <1>4, <1>5, <1>6, <1>7

LEMMA ReceiveOlder ==
    ASSUME RepositoriesAssumption, OlderInv, RepoInv', NEW g \in Gens, Receive(g)
    PROVE  OlderInv'
<1>. DEFINE r == runs[g]
            q == r.queue
            n == Len(q)
            t == Tail(q)
            msg == Head(q)
            k == [r EXCEPT !.queue = t,
                           !.reading = ~Superseded(g) /\ msg.state # "complete",
                           !.at = IF ~Superseded(g) /\ msg.state = "complete" THEN "told"
                                  ELSE r.at]
<1>1. r \in GenSet /\ RepoInv /\ q \in Seq(MessageSet) /\ q # <<>>
  BY DEF OlderInv, RepoInv, GenSet, Receive
<1>2. runs' = [runs EXCEPT ![g] = k] /\ gen' = gen /\ Push(g, msg)
  BY DEF Receive, Quietly
<1>3. r # NoRun
  BY <1>1, ZeroList
<1>4. Rises(r, g) /\ r.at \notin Asking
  BY <1>1 DEF OlderInv, Rises
<1>5. /\ n \in Nat \ {0} /\ t \in Seq(MessageSet) /\ Len(t) = n - 1
      /\ msg = q[1] /\ \A i \in 1 .. n - 1 : t[i] = q[i + 1]
  <2>1. n \in Nat /\ n # 0
    BY <1>1, EmptySeq, LenProperties
  <2>2. t \in Seq(MessageSet) /\ Len(t) = n - 1 /\ \A i \in 1 .. Len(t) : t[i] = q[i + 1]
    BY <1>1, HeadTailProperties
  <2>3. msg = q[1]
    BY <1>1
  <2>. QED
    BY <2>1, <2>2, <2>3
<1>6. /\ \A o \in Owner : r.merged[o] \in Nat /\ repos[o] \in Nat
      /\ \A l \in Lists : \A o \in Owner : l[o] \in Nat
      /\ r.owners \subseteq Owner /\ gen \in Nat /\ g \in Nat
  BY <1>1, Numbers DEF GenSet
<1>7. /\ msg \in MessageSet
      /\ \A i \in 1 .. n : q[i].list \subseteq Lists
  <2>1. \A i \in 1 .. n : q[i] \in MessageSet
    BY <1>1
  <2>2. 1 \in 1 .. n
    BY <1>5
  <2>. QED
    BY <1>5, <2>1, <2>2 DEF MessageSet
<1>8. /\ \A i \in 1 .. n : \A l \in q[i].list : \A o \in Owner : l[o] <= r.merged[o]
      /\ \A i, j \in 1 .. n : i < j =>
            \A l \in q[i].list, m \in q[j].list : \A o \in Owner : l[o] <= m[o]
      /\ \A o \in Owner : r.merged[o] <= g
  BY <1>4 DEF Rises
<1>9. ASSUME g = gen
      PROVE  /\ \A o \in r.owners : repos[o] <= r.merged[o]
             /\ \A i \in 1 .. n : \A l \in q[i].list : \A o \in r.owners : repos[o] <= l[o]
  <2>1. NoneOlder(r, repos)
    BY <1>3, <1>9, NotLater DEF OlderInv
  <2>. QED
    BY <2>1 DEF NoneOlder
<1>10. \/ repos' = repos
       \/ g = gen /\ \E l \in msg.list : repos' = l
  BY <1>1, ReceiveShows
<1>. HIDE DEF r
<1>11. k.queue = t /\ k.merged = r.merged /\ k.owners = r.owners /\ (k.at \in {r.at, "told"})
  BY <1>1 DEF GenSet
<1>. HIDE DEF k, t, q, n, msg
<1>12. \A i \in 1 .. n - 1 : i + 1 \in 1 .. n /\ 1 < i + 1
  BY <1>5
<1>13. 1 \in 1 .. n
  BY <1>5
<1>14. Rises(k, g)
  <2>1. \A i \in 1 .. n - 1 : \A l \in t[i].list : \A o \in Owner : l[o] <= r.merged[o]
    BY <1>5, <1>8, <1>12
  <2>2. ASSUME NEW i \in 1 .. n - 1, NEW j \in 1 .. n - 1, i < j,
               NEW l \in t[i].list, NEW m \in t[j].list, NEW o \in Owner
        PROVE  l[o] <= m[o]
    <3>1. i + 1 < j + 1
      BY <1>5, <2>2
    <3>. QED
      BY <1>5, <1>8, <1>12, <2>2, <3>1
  <2>3. k.at \notin Asking
    BY <1>4, <1>11 DEF Asking
  <2>. QED
    BY <1>5, <1>8, <1>11, <2>1, <2>2, <2>3 DEF Rises
<1>15. ASSUME g = gen PROVE NoneOlder(k, repos') /\ \A o \in Owner : repos'[o] <= gen
  <2>1. CASE repos' = repos
    <3>1. \A i \in 1 .. n - 1 : \A l \in t[i].list : \A o \in r.owners : repos[o] <= l[o]
      BY <1>5, <1>9, <1>12, <1>15
    <3>. QED
      BY <1>5, <1>9, <1>11, <1>15, <2>1, <3>1 DEF NoneOlder, OlderInv
  <2>2. CASE \E l \in msg.list : repos' = l
    <3>1. PICK l \in msg.list : repos' = l
      BY <2>2
    <3>2. l \in q[1].list /\ l \in Lists
      BY <1>5, <1>7, <1>13, <3>1
    <3>3. \A o \in Owner : l[o] <= r.merged[o]
      BY <1>8, <1>13, <3>2
    <3>4. \A o \in Owner : l[o] <= gen
      BY <1>6, <1>8, <1>15, <3>2, <3>3
    <3>5. \A i \in 1 .. n - 1 : \A m \in t[i].list : \A o \in Owner : l[o] <= m[o]
      BY <1>5, <1>8, <1>12, <1>13, <3>2
    <3>. QED
      BY <1>5, <1>6, <1>11, <3>1, <3>3, <3>4, <3>5 DEF NoneOlder
  <2>. QED
    BY <1>10, <2>1, <2>2
<1>16. g # gen => repos' = repos
  BY <1>10
<1>. QED
  BY <1>2, <1>3, <1>14, <1>15, <1>16, OneRunMoves DEF r

LEMMA PressOlder ==
    ASSUME RepositoriesAssumption, OlderInv, RepoInv',
           Refresh \/ \E owners \in (SUBSET Owner) \ {{}} : Configure(owners)
    PROVE  OlderInv'
<1>1. CASE \E owners \in (SUBSET Owner) \ {{}} : Configure(owners)
  <2>1. UNCHANGED <<repos, gen, runs>>
    BY <1>1 DEF Configure
  <2>. QED
    BY <2>1 DEF OlderInv
<1>2. CASE Refresh
  <2>. DEFINE m == OwnedBy(repos, configured)
              k == [NoRun EXCEPT !.at = "token", !.owners = configured,
                                 !.left = errs \cap configured, !.merged = m]
              n == gen + 1
  <2>1. runs' = [runs EXCEPT ![n] = k] /\ gen' = n /\ repos' = repos /\ gen < MaxGen
    BY <1>2 DEF Refresh
  <2>2. RepoInv /\ gen \in Nat /\ MaxGen \in Nat /\ n \in Gens
    BY <2>1, Numbers DEF OlderInv, Gens, RepositoriesAssumption
  <2>3. \A o \in Owner : repos[o] \in Nat /\ repos[o] <= gen
    BY <2>2, Numbers DEF OlderInv
  <2>4. \A o \in Owner : m[o] = IF o \in configured THEN repos[o] ELSE 0
    BY DEF OwnedBy
  <2>5. NoRun \in GenSet /\ NoRun.queue = <<>> /\ Len(<<>>) = 0 /\ 1 .. 0 = {}
    BY ZeroList, EmptySeq
  <2>6. configured \subseteq Owner
    BY <2>2 DEF RepoInv
  <2>. HIDE DEF m
  <2>7. k.queue = <<>> /\ k.merged = m /\ k.owners = configured
    BY <2>5 DEF GenSet
  <2>. HIDE DEF k, n
  <2>8. n = gen + 1
    BY DEF n
  <2>9. \A o \in Owner : m[o] <= n /\ repos[o] <= n
    BY <2>2, <2>3, <2>4, <2>8
  <2>10. Rises(k, n)
    BY <2>5, <2>7, <2>9 DEF Rises
  <2>11. NoneOlder(k, repos)
    <3>1. \A o \in configured : repos[o] <= m[o]
      BY <2>3, <2>4, <2>6
    <3>. QED
      BY <2>5, <2>7, <3>1 DEF NoneOlder
  <2>12. \A h \in Gens : runs'[h] = IF h = n THEN k ELSE runs[h]
    BY <2>1, <2>2 DEF RepoInv
  <2>13. \A h \in Gens : Rises(runs'[h], h)
    BY <2>10, <2>12 DEF OlderInv
  <2>14. \A h \in Gens : h > n => h > gen /\ h # n
    BY <2>2, <2>8 DEF Gens
  <2>15. \A h \in Gens : h > gen' => runs'[h] = NoRun
    BY <2>1, <2>12, <2>14 DEF OlderInv
  <2>16. NoneOlder(runs'[gen'], repos') /\ \A o \in Owner : repos'[o] <= gen'
    BY <2>1, <2>2, <2>9, <2>11, <2>12
  <2>. QED
    BY <2>13, <2>15, <2>16 DEF OlderInv
<1>. QED
  BY <1>1, <1>2

LEMMA OlderStep ==
    ASSUME RepositoriesAssumption, OlderInv, [RepoNext]_repoVars PROVE OlderInv'
<1>0. RepoInv'
  BY RepositoriesStep DEF OlderInv
<1>1. CASE UNCHANGED repoVars
  <2>1. UNCHANGED <<repos, gen, runs>>
    BY <1>1 DEF repoVars
  <2>. QED
    BY <1>0, <2>1 DEF OlderInv
<1>2. CASE Refresh \/ \E owners \in (SUBSET Owner) \ {{}} : Configure(owners)
  BY <1>0, <1>2, PressOlder
<1>3. CASE \E g \in Gens : Step(g)
  <2>1. PICK g \in Gens : Step(g)
    BY <1>3
  <2>2. CASE StartOwner(g) \/ SendComplete(g) \/ \E ok \in BOOLEAN : \E o \in Owner : Collect(g, o, ok)
    BY <1>0, <2>2, FanOutOlder
  <2>3. CASE \E ok \in BOOLEAN : RetryAnswers(g, ok)
    BY <1>0, <2>3, AnswersOlder
  <2>. QED
    BY <1>0, <2>1, <2>2, <2>3, QuietOlder, CompletesOlder, ReceiveOlder DEF Step
<1>. QED
  BY <1>1, <1>2, <1>3 DEF RepoNext

\* In any step, what was shown of an owner the newest run asks gives way to no older list.
LEMMA NeverOlder ==
    ASSUME RepositoriesAssumption, OlderInv, [RepoNext]_repoVars PROVE NotOlder
<1>1. RepoInv /\ \A o \in Owner : repos[o] \in Nat
  BY Numbers DEF OlderInv
<1>2. CASE repos' = repos
  BY <1>1, <1>2 DEF NotOlder
<1>3. ASSUME NEW g \in Gens, Receive(g) PROVE NotOlder
  <2>. DEFINE q == runs[g].queue
  <2>1. q \in Seq(MessageSet) /\ q # <<>> /\ runs[g] # NoRun /\ runs[g].owners \subseteq Owner
    BY <1>3, ZeroList DEF OlderInv, RepoInv, GenSet, Receive
  <2>2. 1 \in 1 .. Len(q) /\ Head(q) = q[1] /\ q[1] \in MessageSet
    BY <2>1, EmptySeq, LenProperties
  <2>. HIDE DEF q
  <2>3. CASE g = gen /\ \E l \in q[1].list : repos' = l
    <3>1. PICK l \in q[1].list : repos' = l
      BY <2>3
    <3>2. l \in Lists /\ \A o \in Owner : l[o] \in Nat
      BY <1>1, <2>2, <3>1, Numbers DEF MessageSet
    <3>3. NoneOlder(runs[gen], repos)
      BY <2>1, <2>3, NotLater DEF OlderInv
    <3>4. \A o \in runs[gen].owners : repos[o] <= l[o]
      BY <2>2, <2>3, <3>1, <3>3 DEF NoneOlder, q
    <3>. QED
      BY <1>1, <3>1, <3>2, <3>4 DEF NotOlder
  <2>. QED
    BY <1>2, <1>3, <2>2, <2>3, ReceiveShows DEF q
<1>4. ASSUME NEW g \in Gens, RetryCompletes(g) PROVE NotOlder
  <2>1. runs[g] # NoRun /\ runs[g].merged \in Lists /\ \A o \in Owner : runs[g].merged[o] \in Nat
    BY <1>1, <1>4, Numbers DEF RetryCompletes, NoRun
  <2>2. CASE g = gen /\ repos' = runs[g].merged
    <3>1. \A o \in runs[gen].owners : repos[o] <= runs[g].merged[o]
      BY <2>1, <2>2, NotLater DEF NoneOlder, OlderInv
    <3>. QED
      BY <1>1, <2>1, <2>2, <3>1 DEF NotOlder
  <2>. QED
    BY <1>2, <1>4, <2>2, CompletesShows
<1>5. ASSUME NEW g \in Gens, Step(g), ~Receive(g), ~RetryCompletes(g) PROVE repos' = repos
  <2>1. \A o : Failed(o).list = {} /\ Started(o).list = {} /\ Complete({}).list = {}
               /\ Succeeded(o, {}).list = {}
    BY DEF Failed, Started, Complete, Succeeded
  <2>2. CASE TellRefused(g) \/ CompleteRefused(g) \/ RetryStarts(g)
    BY <2>1, <2>2, ToldNoList DEF TellRefused, CompleteRefused, RetryStarts
  <2>3. ASSUME NEW ok \in BOOLEAN, RetryAnswers(g, ok) PROVE repos' = repos
    BY <2>1, <2>3, ToldNoList DEF RetryAnswers
  <2>. QED
    BY <1>5, <2>2, <2>3 DEF Step, HasToken, HasNoToken, RetryJudges, RetryStamps, Judge, Write,
       StartOwner, SendComplete, Collect, Send, Quietly
<1>6. repos' = repos \/ \E g \in Gens : Step(g)
  BY DEF RepoNext, Refresh, Configure, repoVars
<1>. QED
  BY <1>2, <1>3, <1>4, <1>5, <1>6

-----------------------------------------------------------------------------
\* The variables of the picker's list hold what the code's own types let them hold.
THEOREM RepositoriesTyped == RepositoriesAssumption => (RepoSpec => []RepoTypeOK)
<1>. SUFFICES ASSUME RepositoriesAssumption PROVE RepoSpec => []RepoTypeOK
  OBVIOUS
<1>1. RepoInit => RepoInv
  BY RepositoriesInit
<1>2. RepoInv /\ [RepoNext]_repoVars => RepoInv'
  BY RepositoriesStep
<1>3. RepoInv => RepoTypeOK
  BY RepositoriesShow
<1>. QED
  BY <1>1, <1>2, <1>3, PTL DEF RepoSpec

\* A list on the screen never gives way to an older one of the same owner, whatever
\* superseded runs still send.
THEOREM ListsAreNeverOlder == RepositoriesAssumption => (RepoSpec => NoOlderList)
<1>. SUFFICES ASSUME RepositoriesAssumption PROVE RepoSpec => NoOlderList
  OBVIOUS
<1>1. RepoInit => OlderInv
  BY OlderInit
<1>2. OlderInv /\ [RepoNext]_repoVars => OlderInv'
  BY OlderStep
<1>3. OlderInv /\ [RepoNext]_repoVars => [NotOlder]_repoVars
  BY NeverOlder
<1>. QED
  BY <1>1, <1>2, <1>3, PTL DEF RepoSpec, NoOlderList
=============================================================================
