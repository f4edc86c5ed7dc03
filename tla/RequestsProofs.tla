---------------------------- MODULE RequestsProofs ----------------------------
(***************************************************************************)
(* What is asked of qrouton is answered soundly, for any number of command    *)
(* lines, workbenches, tickets, folders, owners, calls and answers.           *)
(*                                                                         *)
(* Each part has an invariant of its own.                                     *)
(*                                                                         *)
(* Settings: a handler's call is one of three kinds by how far it has got      *)
(* (BegunInv, StagedInv, IndexedInv); what it staged routes as the running     *)
(* generation does until the index was told, so a commit that fails at either  *)
(* end leaves routing and search agreeing.                                    *)
(*                                                                         *)
(* Launch: what may be said depends on who holds the launch lock (LockInv).     *)
(* A command line that waits under it knows that there is no workbench but     *)
(* the one it started (CallInv), a workbench that waits for its successor that *)
(* it still holds whatever was promised (WaitsInv); so whichever of the two    *)
(* dies, there is one workbench and every ticket is with somebody.  The steps   *)
(* are of three kinds: one workbench's own (LocalStep), one command line's     *)
(* (CallStep), and a death (Death).                                           *)
(*                                                                         *)
(* The picker over a live session: a call is told the outcome that is in the    *)
(* manifest now, which need not be the one that made it look, so the outcome   *)
(* there has to be one of those written since it asked (Fresh).  A request      *)
(* comes to the workbench once: until it does, no picker, answer or outcome is *)
(* about it (Untouched).                                                      *)
(*                                                                         *)
(* The picker's list is proved in RepositoriesProofs and cited from there.      *)
(*                                                                         *)
(* Lists by the page: what was there from the first page to the last is gathered *)
(* or stands behind the pages read so far (GatheredThere); taking a name moves   *)
(* what is behind it forward, adding one moves it back only (RanksOnlyGrow), and *)
(* a page that is not full has nothing behind it (PageIsFull).                   *)
(*                                                                         *)
(* Rows of pull requests: the fetch under way, like the cache it started from,   *)
(* holds rows with the ETag they came with (PairedInv).                          *)
(***************************************************************************)
EXTENDS MCRequests, FiniteSetTheorems, SequenceTheorems, WellFoundedInduction, TLAPS

-----------------------------------------------------------------------------
(* Settings.                                                                *)

file  == v1
live  == v2
doing == v7
told  == v8

Config == Settings!Config

\* Two configs route every org alike and lie under the same root as far as routing goes.
Alike(c, d) == Settings!Fingerprint(c) = Settings!Fingerprint(d)

LEMMA SharedIsKnown ==
    ASSUME Settings!SettingsAssumption, NEW c \in Config
    PROVE  /\ Settings!Shared(c) \subseteq Folders
           /\ Settings!DefaultRoot(c) \in Roots \cup Folders
           /\ Settings!Profiles(c) \in Seq(Roots \cup Folders)
<1>1. c.folders \in Seq(Folders)
  BY DEF Config, Settings!Config, Settings!SettingsAssumption
<1>2. Settings!Shared(c) \subseteq Folders
  BY <1>1 DEF Settings!Shared, Settings!ToSet
<1>3. Settings!DefaultRoot(c) \in Roots \cup Folders
  BY DEF Settings!DefaultRoot, Config, Settings!Config, Settings!SettingsAssumption
<1>4. c.folders \in Seq(Roots \cup Folders) /\ <<Settings!DefaultRoot(c)>> \in Seq(Roots \cup Folders)
  BY <1>1, <1>3
<1>5. Settings!Profiles(c) \in Seq(Roots \cup Folders)
  BY <1>4, ConcatProperties DEF Settings!Profiles
<1>. QED
  BY <1>2, <1>3, <1>5

\* Fingerprints tell apart just the configs that some org is written elsewhere by.
LEMMA FingerprintIsRouting ==
    ASSUME Settings!SettingsAssumption, NEW c \in Config, NEW d \in Config,
           ~Settings!Overlaps(c), ~Settings!Overlaps(d)
    PROVE  Alike(c, d) <=>
              /\ Settings!DefaultRoot(c) = Settings!DefaultRoot(d)
              /\ \A f \in Folders : Settings!Route(c, f) = Settings!Route(d, f)
<1>1. Settings!Shared(c) \subseteq Folders /\ Settings!Shared(d) \subseteq Folders
  BY SharedIsKnown
<1>2. Alike(c, d) <=> /\ Settings!DefaultRoot(c) = Settings!DefaultRoot(d)
                      /\ Settings!Shared(c) = Settings!Shared(d)
  BY DEF Alike, Settings!Fingerprint
<1>3. ASSUME Settings!DefaultRoot(c) = Settings!DefaultRoot(d),
             \A f \in Folders : Settings!Route(c, f) = Settings!Route(d, f)
      PROVE  Settings!Shared(c) = Settings!Shared(d)
  <2>1. ASSUME NEW f \in Folders PROVE f \in Settings!Shared(c) <=> f \in Settings!Shared(d)
    BY <1>3 DEF Settings!Route, Settings!Overlaps
  <2>. QED
    BY <2>1, <1>1
<1>. QED
  BY <1>2, <1>3 DEF Settings!Route

\* What a handler is asked for is of its own kind.
Fits(h, in) ==
    /\ h \in {"save", "first"} => in \in Settings!Input
    /\ h = "scale" => in \in Scales
    /\ h = "mark" => in \in (Roots \cup Folders) \X SUBSET Folders

LEMMA FileCopyFacts ==
    ASSUME Settings!SettingsAssumption, NEW h \in Settings!Handler, NEW in, Fits(h, in),
           NEW c \in Config
    PROVE  LET d == Settings!FileCopy(h, in, c)
           IN  /\ d \in Config
               /\ \A x \in DOMAIN c \ Settings!Owned(h) : d[x] = c[x]
               /\ DOMAIN c = {"root", "default", "folders", "scale", "welcomed", "checked", "author"}
<1>. DEFINE d == Settings!FileCopy(h, in, c)
<1>. USE DEF Config, Settings!Config, Fits, Settings!Input, Settings!Owned, Settings!FileCopy
<1>1. h \in {"save", "scale", "first", "mark", "open", "relaunch"}
  BY DEF Settings!Handler
<1>2. CASE h = "save"
  BY <1>2
<1>3. CASE h = "first"
  BY <1>3
<1>4. CASE h = "mark"
  BY <1>4
<1>5. CASE h = "scale"
  BY <1>5
<1>6. CASE h \in {"open", "relaunch"}
  BY <1>6
<1>. QED
  BY <1>1, <1>2, <1>3, <1>4, <1>5, <1>6

\* What stageConfig makes of the file and of the live config.
LEMMA StagedFacts ==
    ASSUME Settings!SettingsAssumption, NEW h \in Settings!Handler, NEW in, Fits(h, in),
           NEW l \in Config, NEW onFile \in Config
    PROVE  LET stage == Settings!Staged(h, in, l, onFile)
           IN  /\ stage \in [next : Config, live : Config, restart : BOOLEAN]
               /\ stage.live.root = l.root
               /\ h # "first" => Alike(stage.live, l)
               /\ h \in {"scale", "mark", "open"} => Settings!Profiles(stage.live) = Settings!Profiles(l)
               /\ onFile.scale = l.scale => stage.next.scale = stage.live.scale
               /\ onFile.scale = l.scale /\ h \in {"first", "mark", "open"} => stage.next.scale = l.scale
               /\ \A x \in DOMAIN l \ Settings!Owned(h) : stage.next[x] = onFile[x]
               /\ h = "save" => /\ Alike([stage.next EXCEPT !.root = l.root], stage.live) <=> ~Settings!RoutingChanged(l, stage.next)
                                /\ stage.restart <=> \/ Settings!RestartRequired(stage.next)
                                                     \/ Settings!RoutingChanged(l, stage.next)
<1>. DEFINE next    == Settings!FileCopy(h, in, onFile)
            mine    == Settings!FileCopy(h, in, l)
            copy    == Settings!LiveCopy(h, in, l)
            restart == Settings!Restart(h, l, next)
            runs    == IF restart THEN [copy EXCEPT !.default = l.default, !.folders = l.folders] ELSE copy
<1>1. /\ next \in Config /\ mine \in Config
      /\ \A x \in DOMAIN onFile \ Settings!Owned(h) : next[x] = onFile[x]
      /\ \A x \in DOMAIN l \ Settings!Owned(h) : mine[x] = l[x]
      /\ DOMAIN l = DOMAIN onFile
      /\ DOMAIN l = {"root", "default", "folders", "scale", "welcomed", "checked", "author"}
  BY FileCopyFacts
<1>2. copy \in Config /\ copy = [mine EXCEPT !.root = l.root] /\ copy.root = l.root
  BY <1>1 DEF Settings!LiveCopy, Config, Settings!Config
<1>3. restart \in BOOLEAN
  BY DEF Settings!Restart
<1>4. runs \in Config /\ runs.root = l.root
  BY <1>1, <1>2 DEF Config, Settings!Config
<1>5. Settings!Staged(h, in, l, onFile) = [next |-> next, live |-> runs, restart |-> restart]
  BY DEF Settings!Staged
<1>6. h \in {"scale", "mark", "open"} => mine.default = l.default /\ mine.folders = l.folders
  BY <1>1 DEF Settings!Owned
<1>7. h \in {"scale", "mark", "open"} =>
        /\ Settings!Profiles(runs) = Settings!Profiles(l) /\ Alike(runs, l)
  <2>1. h \in {"scale", "mark", "open"} => runs.default = l.default /\ runs.folders = l.folders
    BY <1>1, <1>2, <1>6 DEF Config, Settings!Config
  <2>. QED
    BY <2>1, <1>4 DEF Settings!Profiles, Alike, Settings!Fingerprint, Settings!DefaultRoot, Settings!Shared
<1>8. runs.scale = mine.scale
  BY <1>2, <1>1 DEF Config, Settings!Config
<1>9. onFile.scale = l.scale => next.scale = mine.scale
  BY <1>1 DEF Settings!FileCopy, Config, Settings!Config, Settings!Handler
<1>10. onFile.scale = l.scale /\ h \in {"first", "mark", "open"} => next.scale = l.scale
  BY <1>1 DEF Settings!Owned
<1>11. CASE h = "save"
  <2>1. next.default = in.default /\ next.folders = in.folders /\ copy.default = in.default /\ copy.folders = in.folders
    BY <1>11, <1>1, <1>2 DEF Settings!FileCopy, Settings!LiveCopy, Config, Settings!Config
  <2>2. restart <=> Settings!RestartRequired(next) \/ Settings!RoutingChanged(l, next)
    BY <1>11 DEF Settings!Restart
  <2>3. Settings!RoutingChanged(l, next) <=> ~Alike([next EXCEPT !.root = l.root], l)
    BY DEF Settings!RoutingChanged, Alike
  <2>4. Alike([next EXCEPT !.root = l.root], copy)
    <3>1. /\ [next EXCEPT !.root = l.root].default = copy.default
          /\ [next EXCEPT !.root = l.root].folders = copy.folders
          /\ [next EXCEPT !.root = l.root].root = copy.root
      BY <2>1, <1>1, <1>2 DEF Config, Settings!Config
    <3>. QED
      BY <3>1 DEF Alike, Settings!Fingerprint, Settings!DefaultRoot, Settings!Shared
  <2>5. restart => Alike(runs, l)
    <3>1. restart => runs.default = l.default /\ runs.folders = l.folders
      BY <1>1, <1>2 DEF Config, Settings!Config
    <3>. QED
      BY <3>1, <1>4 DEF Alike, Settings!Fingerprint, Settings!DefaultRoot, Settings!Shared
  <2>6. Alike(runs, l)
    BY <2>2, <2>3, <2>4, <2>5 DEF Alike
  <2>. QED
    BY <1>1, <1>3, <1>4, <1>5, <1>8, <1>9, <2>2, <2>3, <2>6, <1>11 DEF Alike
<1>12. h \in Settings!Handler \ {"save", "first"} => h \in {"scale", "mark", "open"} \/ h = "relaunch"
  BY DEF Settings!Handler
<1>13. CASE h = "relaunch"
  <2>1. runs.default = l.default /\ runs.folders = l.folders
    BY <1>1, <1>2, <1>13 DEF Config, Settings!Config, Settings!Owned
  <2>2. Alike(runs, l)
    BY <2>1, <1>4 DEF Alike, Settings!Fingerprint, Settings!DefaultRoot, Settings!Shared
  <2>. QED
    BY <1>1, <1>3, <1>4, <1>5, <1>8, <1>9, <1>13, <2>2
<1>14. CASE h # "save" /\ h # "relaunch"
  BY <1>1, <1>3, <1>4, <1>5, <1>7, <1>8, <1>9, <1>10, <1>12, <1>14
<1>. QED
  BY <1>11, <1>13, <1>14

\* The config the handlers start from, and what is asked for is on its way.
At(h, at) == doing[h] # NoCall /\ doing[h].at = at
Staging(h) == doing[h] # NoCall /\ doing[h].at \in {"staged", "indexed"}

Onfile == Settings!Read(file)

\* Only the user's editor sets the file apart from what is served from the live config.
Unedited == v11 = 0

AnyInput == Settings!Input \cup Scales \cup ((Roots \cup Folders) \X SUBSET Folders) \cup {NoDefault}
Asked    == [at : {"begun"}, in : AnyInput, snapshot : Config]
CallSet  == {NoCall} \cup Asked \cup Settings!Prepared \cup [at : {"saved"}]

SettingsTyped ==
    /\ file \in Config \cup {NoConfig} /\ live \in Config /\ v9 \in Config \cup {NoConfig}
    /\ v3 \in BOOLEAN /\ v5 \in Roots \cup {NoDefault} /\ v6 \in Roots
    /\ doing \in [Settings!Handler -> CallSet] /\ told \in BOOLEAN \cup {NoConfig}

\* The first run's handler is under way only until someone is welcomed, and every handler
\* works on the config that is live: the writer's lock sees to it.
BegunInv(h) ==
    At(h, "begun") => doing[h] \in Asked /\ Fits(h, doing[h].in) /\ doing[h].snapshot = live
                      /\ (h = "first" => ~live.welcomed)

\* A prepared call keeps the root, and the routing unless it is the first run's; it leaves
\* what is not its own as the file has it, unless the editor has been there since.
StagedInv(h) ==
    LET stage == doing[h].stage
    IN  Staging(h) =>
          /\ doing[h] \in Settings!Prepared /\ doing[h].snapshot = live /\ h # "relaunch"
          /\ stage.live.root = live.root
          /\ h = "first" => ~live.welcomed
          /\ h # "first" => Alike(stage.live, live)
          /\ h \in {"scale", "mark", "open"} => Settings!Profiles(stage.live) = Settings!Profiles(live)
          /\ Unedited => stage.next.scale = stage.live.scale
          /\ Unedited /\ h \in {"first", "mark", "open"} => stage.next.scale = live.scale
          /\ doing[h].fresh => \A x \in DOMAIN live \ Settings!Owned(h) : stage.next[x] = Onfile[x]
          /\ told # NoConfig => doing[h].fresh
          /\ h = "save" => (stage.restart <=> stage.next.root # v6 \/ ~Alike([stage.next EXCEPT !.root = live.root], stage.live))

IndexedInv(h) ==
    At(h, "indexed") =>
        /\ Settings!Commits(h) /\ v4 = Settings!Profiles(doing[h].stage.live)
        /\ ~Settings!Overlaps(doing[h].stage.live)

\* What the page was told of a restart is so, as the file stands.
ToldInv ==
    told # NoConfig =>
        /\ file # NoConfig /\ ~Settings!Overlaps(file)
        /\ v5 = NoDefault => (told <=> ~(file.root = live.root /\ Alike(file, live)))

SettingsInv ==
    /\ SettingsTyped
    /\ \A h \in Settings!Handler : BegunInv(h) /\ StagedInv(h) /\ IndexedInv(h)
    /\ \A g, h \in Settings!Handler : doing[g] # NoCall /\ doing[h] # NoCall => g = h
    /\ (\A h \in Settings!Handler : ~At(h, "indexed")) => v4 = Settings!Profiles(live)
    /\ v4 \in Seq(Roots \cup Folders)
    /\ ~Settings!Overlaps(live) /\ (Unedited => Onfile.scale = live.scale) /\ v11 \in Nat
    /\ v5 = NoDefault => live.root = v6
    /\ ToldInv

LEMMA DefaultsExist ==
    ASSUME Settings!SettingsAssumption
    PROVE  Settings!Defaults \in Config
<1>. DEFINE P(c) == /\ c.default = NoDefault /\ c.folders = <<>> /\ c.scale = 0 /\ ~c.welcomed
                    /\ c.checked = <<>> /\ c.author = 0
<1>1. PICK r \in Roots : TRUE
  BY DEF Settings!SettingsAssumption
<1>. DEFINE d == [root |-> r, default |-> NoDefault, folders |-> <<>>, scale |-> 0,
                  welcomed |-> FALSE, checked |-> <<>>, author |-> 0]
<1>2. d \in Config /\ P(d)
  BY <1>1 DEF Config, Settings!Config, Settings!SettingsAssumption
<1>. HIDE DEF d
<1>3. \E c \in Config : P(c)
  BY <1>2
<1>. QED
  BY <1>3 DEF Settings!Defaults, Config

LEMMA SettingsInitially == ASSUME Settings!SettingsAssumption, Settings!Init PROVE SettingsInv
<1>. USE DEF Settings!Init, file, live, doing, told
<1>1. Settings!Defaults \in Config
  BY DefaultsExist
<1>2. file \in Config \cup {NoConfig}
  <2>1. CASE file = NoConfig
    BY <2>1
  <2>2. CASE file # NoConfig
    <3>1. PICK r \in Roots, d \in DefaultFolders \cup {NoDefault}, s \in FolderLists, w \in BOOLEAN :
             file = [Settings!Defaults EXCEPT !.root = r, !.default = d, !.folders = s, !.welcomed = w]
      BY <2>2
    <3>. QED
      BY <3>1, <1>1 DEF Config, Settings!Config
  <2>. QED
    BY <2>1, <2>2
<1>3. Onfile \in Config
  BY <1>1, <1>2 DEF Onfile, Settings!Read
<1>4. live \in Config /\ live.scale = Onfile.scale /\ (v5 = NoDefault => live = Onfile)
  <2>1. live = Settings!Loaded(Onfile, v5) /\ v5 \in Roots \cup {NoDefault}
    BY DEF Onfile
  <2>. QED
    BY <2>1, <1>3 DEF Settings!Loaded, Config, Settings!Config
<1>5. v6 \in Roots /\ (v5 = NoDefault => live.root = v6)
  BY <1>3, <1>4 DEF Onfile, Config, Settings!Config
<1>6. SettingsTyped
  <2>1. doing \in [Settings!Handler -> CallSet] /\ told \in BOOLEAN \cup {NoConfig}
    BY DEF CallSet
  <2>. QED
    BY <2>1, <1>2, <1>4, <1>5 DEF SettingsTyped
<1>7. \A h \in Settings!Handler : doing[h] = NoCall
  OBVIOUS
<1>8. v4 \in Seq(Roots \cup Folders)
  BY <1>4, SharedIsKnown
<1>. QED
  BY <1>4, <1>5, <1>6, <1>7, <1>8
     DEF SettingsInv, BegunInv, StagedInv, IndexedInv, ToldInv, At, Staging

-----------------------------------------------------------------------------
LEMMA OnfileIsConfig == ASSUME Settings!SettingsAssumption, SettingsTyped PROVE Onfile \in Config
  BY DefaultsExist DEF SettingsTyped, Onfile, Settings!Read

LEMMA HandlerIdle ==
    ASSUME NEW h, doing'[h] = NoCall \/ doing'[h] = [at |-> "saved"]
    PROVE  BegunInv(h)' /\ StagedInv(h)' /\ IndexedInv(h)' /\ ~At(h, "indexed")'
  BY DEF BegunInv, StagedInv, IndexedInv, At, Staging

LEMMA HandlerKept ==
    ASSUME NEW h \in Settings!Handler, BegunInv(h) /\ StagedInv(h) /\ IndexedInv(h),
           doing'[h] = doing[h], UNCHANGED <<v1, v2, v6, v8, v11>>
    PROVE  /\ BegunInv(h)' /\ StagedInv(h)' /\ (v4' = v4 => IndexedInv(h)')
           /\ At(h, "indexed")' = At(h, "indexed")
<1>1. UNCHANGED <<file, live, told, Onfile>>
  BY DEF file, live, told, Onfile
<1>2. BegunInv(h)'
  BY <1>1 DEF BegunInv, At
<1>3. StagedInv(h)'
  BY <1>1 DEF StagedInv, Staging, Unedited
<1>4. v4' = v4 => IndexedInv(h)'
  BY DEF IndexedInv, At, Settings!Commits, doing
<1>. QED
  BY <1>2, <1>3, <1>4 DEF At

\* A call that ends without a write leaves the index as the live config has it.
LEMMA CallEnds ==
    ASSUME Settings!SettingsAssumption, SettingsInv, NEW h \in Settings!Handler,
           doing' = [doing EXCEPT ![h] = NoCall],
           v4' = IF At(h, "indexed") THEN Settings!Profiles(live) ELSE v4,
           v9' \in Config \cup {NoConfig}, UNCHANGED <<v1, v2, v3, v5, v6, v8, v11>>
    PROVE  SettingsInv'
<1>. DEFINE H == Settings!Handler
<1>1. SettingsTyped'
  BY DEF SettingsInv, SettingsTyped, CallSet, file, live, told
<1>2. \A g \in H : doing'[g] = IF g = h THEN NoCall ELSE doing[g]
  BY DEF SettingsInv, SettingsTyped
<1>3. \A g \in H \ {h} : At(g, "indexed") => v4' = v4
  BY DEF SettingsInv, At
<1>4. ASSUME NEW g \in H PROVE BegunInv(g)' /\ StagedInv(g)' /\ IndexedInv(g)'
  <2>1. CASE g = h
    BY <2>1, <1>2, HandlerIdle
  <2>2. CASE g # h
    <3>1. doing'[g] = doing[g] /\ BegunInv(g) /\ StagedInv(g) /\ IndexedInv(g)
      BY <2>2, <1>2 DEF SettingsInv
    <3>2. BegunInv(g)' /\ StagedInv(g)' /\ (v4' = v4 => IndexedInv(g)') /\ At(g, "indexed")' = At(g, "indexed")
      BY <3>1, HandlerKept
    <3>3. ~At(g, "indexed") => IndexedInv(g)'
      BY <3>2 DEF IndexedInv
    <3>. QED
      BY <3>2, <3>3, <1>3, <2>2
  <2>. QED
    BY <2>1, <2>2
<1>5. \A f, g \in H : doing'[g] # NoCall /\ doing'[f] # NoCall => g = f
  BY <1>2 DEF SettingsInv
<1>6. ASSUME \A g \in H : ~At(g, "indexed")' PROVE v4' = Settings!Profiles(live)
  <2>1. \A g \in H \ {h} : ~At(g, "indexed")
    BY <1>6, <1>2 DEF At
  <2>. QED
    BY <2>1 DEF SettingsInv
<1>7. UNCHANGED <<file, live, told, Onfile>>
  BY DEF file, live, told, Onfile
<1>8. v4' \in Seq(Roots \cup Folders)
  BY SharedIsKnown DEF SettingsInv, SettingsTyped
<1>9. /\ (Unedited' => Onfile'.scale = live'.scale) /\ v11' \in Nat
      /\ ~Settings!Overlaps(live') /\ (v5' = NoDefault => live'.root = v6')
  BY <1>7 DEF SettingsInv, Unedited
<1>10. ToldInv'
  BY <1>7 DEF SettingsInv, ToldInv
<1>11. (\A g \in H : ~At(g, "indexed")') => v4' = Settings!Profiles(live')
  BY <1>6, <1>7
<1>. QED
  BY <1>1, <1>4, <1>5, <1>8, <1>9, <1>10, <1>11 DEF SettingsInv

\* A call that moves on: nobody else has one, and only the index may change with it.
LEMMA CallMoves ==
    ASSUME Settings!SettingsAssumption, SettingsInv, NEW h \in Settings!Handler, NEW to \in CallSet,
           doing' = [doing EXCEPT ![h] = to],
           \A g \in Settings!Handler \ {h} : doing[g] = NoCall,
           BegunInv(h)' /\ StagedInv(h)' /\ IndexedInv(h)',
           At(h, "indexed")' \/ v4' = Settings!Profiles(live),
           v4' \in Seq(Roots \cup Folders),
           UNCHANGED <<v1, v2, v3, v5, v6, v8, v9, v11>>
    PROVE  SettingsInv'
<1>. DEFINE H == Settings!Handler
<1>1. SettingsTyped'
  BY DEF SettingsInv, SettingsTyped, file, live, told
<1>2. \A g \in H : doing'[g] = IF g = h THEN to ELSE NoCall
  BY DEF SettingsInv, SettingsTyped
<1>3. ASSUME NEW g \in H PROVE BegunInv(g)' /\ StagedInv(g)' /\ IndexedInv(g)'
  BY <1>2, HandlerIdle
<1>4. UNCHANGED <<file, live, told, Onfile>>
  BY DEF file, live, told, Onfile
<1>5. /\ (Unedited' => Onfile'.scale = live'.scale) /\ v11' \in Nat
      /\ ~Settings!Overlaps(live') /\ (v5' = NoDefault => live'.root = v6')
  BY <1>4 DEF SettingsInv, Unedited
<1>6. ToldInv'
  BY <1>4 DEF SettingsInv, ToldInv
<1>7. (\A g \in H : ~At(g, "indexed")') => v4' = Settings!Profiles(live')
  BY <1>4
<1>8. \A f, g \in H : doing'[g] # NoCall /\ doing'[f] # NoCall => g = f
  BY <1>2
<1>. QED
  BY <1>1, <1>3, <1>5, <1>6, <1>7, <1>8 DEF SettingsInv

LEMMA InputsFit ==
    ASSUME Settings!SettingsAssumption, SettingsTyped, NEW h \in Settings!Handler,
           NEW in \in Settings!Inputs(h)
    PROVE  Fits(h, in) /\ in \in AnyInput /\ (h = "first" => ~live.welcomed)
<1>1. live \in Config
  BY DEF SettingsTyped
<1>2. Settings!Marks \subseteq (Roots \cup Folders) \X SUBSET Folders
  BY <1>1, SharedIsKnown DEF Settings!Marks, Settings!Fingerprint, live
<1>3. Settings!ScaleChanges \subseteq Scales /\ Settings!Opens \subseteq {NoDefault}
  BY DEF Settings!ScaleChanges, Settings!Opens
<1>4. in \in Settings!GateAnswers => in \in Settings!Input /\ ~live.welcomed
  BY DEF Settings!GateAnswers, live
<1>5. h \in {"save", "scale", "first", "mark", "open", "relaunch"}
  BY DEF Settings!Handler
<1>. QED
  BY <1>2, <1>3, <1>4, <1>5 DEF Settings!Inputs, Fits, AnyInput

LEMMA BeginSound ==
    ASSUME Settings!SettingsAssumption, SettingsInv, NEW h \in Settings!Handler,
           NEW in \in Settings!Inputs(h), Settings!Begin(h, in)
    PROVE  SettingsInv'
<1>. DEFINE to == [at |-> "begun", in |-> in, snapshot |-> live]
<1>1. SettingsTyped /\ live \in Config
  BY DEF SettingsInv, SettingsTyped
<1>2. Fits(h, in) /\ in \in AnyInput /\ (h = "first" => ~live.welcomed)
  BY <1>1, InputsFit
<1>3. /\ doing' = [doing EXCEPT ![h] = to] /\ \A g \in Settings!Handler : doing[g] = NoCall
      /\ UNCHANGED <<v1, v2, v3, v4, v5, v6, v8, v9, v11>>
  BY DEF Settings!Begin, Settings!WriterFree, doing, live
<1>4. to \in Asked
  BY <1>1, <1>2 DEF Asked
<1>5. doing'[h] = to
  BY <1>1, <1>3 DEF SettingsTyped
<1>6. live' = live
  BY <1>3 DEF live
<1>7. BegunInv(h)' /\ StagedInv(h)' /\ IndexedInv(h)'
  BY <1>2, <1>4, <1>5, <1>6 DEF BegunInv, StagedInv, IndexedInv, At, Staging
<1>8. v4' = Settings!Profiles(live) /\ v4' \in Seq(Roots \cup Folders)
  BY <1>3 DEF SettingsInv, At
<1>9. to \in CallSet
  BY <1>4 DEF CallSet
<1>. HIDE DEF to
<1>. QED
  BY <1>3, <1>7, <1>8, <1>9, CallMoves

LEMMA Alone ==
    ASSUME SettingsInv, NEW h \in Settings!Handler, doing[h] # NoCall
    PROVE  \A g \in Settings!Handler \ {h} : doing[g] = NoCall
  BY DEF SettingsInv

LEMMA StageSound ==
    ASSUME Settings!SettingsAssumption, SettingsInv, NEW h \in Settings!Handler, Settings!Stage(h)
    PROVE  SettingsInv'
<1>1. At(h, "begun") /\ h # "relaunch" /\ UNCHANGED <<v1, v2, v3, v4, v5, v6, v8, v9, v11>>
  BY DEF Settings!Stage, Settings!At, Settings!UnchangedButDoing, At, doing
<1>2. CASE Settings!GiveUp(h)
  <2>1. doing' = [doing EXCEPT ![h] = NoCall] /\ v9' \in Config \cup {NoConfig}
    BY <1>1, <1>2 DEF Settings!GiveUp, doing, SettingsInv, SettingsTyped
  <2>2. v4' = IF At(h, "indexed") THEN Settings!Profiles(live) ELSE v4
    BY <1>1 DEF At
  <2>. QED
    BY <2>1, <2>2, <1>1, CallEnds
<1>3. CASE doing' = [doing EXCEPT ![h] =
                [at |-> "staged", snapshot |-> doing[h].snapshot, fresh |-> TRUE,
                 stage |-> Settings!Staged(h, doing[h].in, doing[h].snapshot, Onfile)]]
  <2>. DEFINE in    == doing[h].in
              stage == Settings!Staged(h, in, live, Onfile)
              to    == [at |-> "staged", snapshot |-> live, fresh |-> TRUE, stage |-> stage]
  <2>1. /\ doing[h] \in Asked /\ Fits(h, in) /\ doing[h].snapshot = live
        /\ (h = "first" => ~live.welcomed)
    BY <1>1 DEF SettingsInv, BegunInv
  <2>2. live \in Config /\ Onfile \in Config /\ (Unedited => Onfile.scale = live.scale)
    BY OnfileIsConfig DEF SettingsInv, SettingsTyped
  <2>3. /\ stage \in [next : Config, live : Config, restart : BOOLEAN]
        /\ stage.live.root = live.root
        /\ h # "first" => Alike(stage.live, live)
        /\ h \in {"scale", "mark", "open"} => Settings!Profiles(stage.live) = Settings!Profiles(live)
        /\ Unedited => stage.next.scale = stage.live.scale
        /\ Unedited /\ h \in {"first", "mark", "open"} => stage.next.scale = live.scale
        /\ \A x \in DOMAIN live \ Settings!Owned(h) : stage.next[x] = Onfile[x]
        /\ h = "save" => /\ Alike([stage.next EXCEPT !.root = live.root], stage.live) <=> ~Settings!RoutingChanged(live, stage.next)
                         /\ stage.restart <=> \/ Settings!RestartRequired(stage.next)
                                              \/ Settings!RoutingChanged(live, stage.next)
    BY <2>1, <2>2, StagedFacts
  <2>4. doing' = [doing EXCEPT ![h] = to] /\ doing'[h] = to
    BY <1>3, <2>1 DEF SettingsInv, SettingsTyped
  <2>5. h = "save" => (stage.restart <=> stage.next.root # v6 \/ ~Alike([stage.next EXCEPT !.root = live.root], stage.live))
    BY <2>3 DEF Settings!RestartRequired
  <2>. HIDE DEF stage
  <2>6. to \in Settings!Prepared
    BY <2>2, <2>3 DEF Settings!Prepared, Config
  <2>7. UNCHANGED <<live, Onfile, v6>>
    BY <1>1 DEF live, Onfile, file
  <2>8. StagedInv(h)'
    BY <2>1, <2>3, <2>4, <2>5, <2>6, <2>7, <1>1 DEF StagedInv, Unedited
  <2>9. BegunInv(h)' /\ IndexedInv(h)'
    BY <2>4 DEF BegunInv, IndexedInv, At
  <2>10. v4' = Settings!Profiles(live) /\ v4' \in Seq(Roots \cup Folders)
    BY <1>1, Alone DEF SettingsInv, At
  <2>11. to \in CallSet /\ doing[h] # NoCall
    BY <2>6, <1>1 DEF CallSet, At
  <2>. HIDE DEF to
  <2>. QED
    BY <1>1, <2>4, <2>8, <2>9, <2>10, <2>11, Alone, CallMoves
<1>. QED
  BY <1>2, <1>3 DEF Settings!Stage, doing, Onfile, file

LEMMA ReindexSound ==
    ASSUME Settings!SettingsAssumption, SettingsInv, NEW h \in Settings!Handler, Settings!Reindex(h)
    PROVE  SettingsInv'
<1>1. At(h, "staged") /\ Settings!Commits(h) /\ UNCHANGED <<v1, v2, v3, v5, v6, v8, v9, v11>>
  BY DEF Settings!Reindex, Settings!Reindexes, Settings!At, At, doing
<1>2. StagedInv(h) /\ Staging(h)
  BY <1>1 DEF SettingsInv, Staging, At
<1>3. CASE Settings!GiveUp(h) /\ UNCHANGED v4
  <2>1. doing' = [doing EXCEPT ![h] = NoCall] /\ v9' \in Config \cup {NoConfig}
    BY <1>1, <1>3 DEF Settings!GiveUp, doing, SettingsInv, SettingsTyped
  <2>2. v4' = IF At(h, "indexed") THEN Settings!Profiles(live) ELSE v4
    BY <1>1, <1>3 DEF At
  <2>. QED
    BY <2>1, <2>2, <1>1, CallEnds
<1>4. CASE /\ Settings!CheckThoughts(doing[h].stage.live)
           /\ doing' = [doing EXCEPT ![h].at = "indexed"]
           /\ v4' = Settings!Profiles(doing[h].stage.live)
  <2>. DEFINE to == [doing[h] EXCEPT !.at = "indexed"]
  <2>1. doing[h] \in Settings!Prepared
    BY <1>2 DEF StagedInv
  <2>2. /\ to \in Settings!Prepared /\ to.at = "indexed" /\ to.stage = doing[h].stage
        /\ to.snapshot = doing[h].snapshot /\ to.fresh = doing[h].fresh
    BY <2>1 DEF Settings!Prepared
  <2>3. doing' = [doing EXCEPT ![h] = to] /\ doing'[h] = to
    BY <1>4 DEF SettingsInv, SettingsTyped
  <2>. HIDE DEF to
  <2>4. UNCHANGED <<live, told, Onfile, v6>>
    BY <1>1 DEF live, told, Onfile, file
  <2>5. StagedInv(h)'
    BY <1>2, <2>2, <2>3, <2>4, <1>1 DEF StagedInv, Unedited
  <2>6. BegunInv(h)'
    BY <2>2, <2>3 DEF BegunInv, At
  <2>7. Settings!Commits(h)'
    BY <1>1, <2>2, <2>3 DEF Settings!Commits, doing
  <2>8. IndexedInv(h)'
    BY <1>4, <2>2, <2>3, <2>7 DEF IndexedInv, Settings!CheckThoughts
  <2>9. doing[h].stage.live \in Config
    BY <2>1 DEF Settings!Prepared, Config
  <2>10. v4' \in Seq(Roots \cup Folders)
    BY <1>4, <2>9, SharedIsKnown
  <2>11. to \in CallSet /\ doing[h] # NoCall /\ to # NoCall
    BY <2>2, <1>1 DEF CallSet, At, Settings!SettingsAssumption
  <2>12. At(h, "indexed")'
    BY <2>2, <2>3, <2>11 DEF At
  <2>. QED
    BY <1>1, <2>3, <2>5, <2>6, <2>8, <2>10, <2>11, <2>12, Alone, CallMoves
<1>. QED
  BY <1>3, <1>4 DEF Settings!Reindex, doing

LEMMA EndsSound ==
    ASSUME Settings!SettingsAssumption, SettingsInv, NEW h \in Settings!Handler,
           Settings!WriteFails(h) \/ Settings!Refused(h) \/ Settings!Successor(h)
    PROVE  SettingsInv'
<1>1. doing' = [doing EXCEPT ![h] = NoCall] /\ UNCHANGED <<v1, v2, v3, v5, v6, v8, v11>>
  BY DEF Settings!WriteFails, Settings!Refused, Settings!Successor, Settings!GiveUp,
         Settings!UnchangedButDoing, doing
<1>2. v9' \in Config \cup {NoConfig}
  BY OnfileIsConfig DEF Settings!WriteFails, Settings!Refused, Settings!Successor,
         Settings!UnchangedButDoing, Onfile, file, SettingsInv, SettingsTyped
<1>3. v4' = IF At(h, "indexed") THEN Settings!Profiles(live) ELSE v4
  <2>1. CASE Settings!WriteFails(h)
    <3>1. Settings!Writable(h) /\ Settings!PutBack(h)
      BY <2>1 DEF Settings!WriteFails
    <3>2. Settings!At(h, "indexed") <=> At(h, "indexed")
      BY <3>1 DEF Settings!At, At, doing, Settings!Writable
    <3>3. At(h, "indexed") => doing[h].snapshot = live
      BY DEF SettingsInv, StagedInv, Staging, At
    <3>. QED
      BY <3>1, <3>2, <3>3 DEF Settings!PutBack, doing
  <2>2. CASE Settings!Refused(h) \/ Settings!Successor(h)
    BY <2>2 DEF Settings!Refused, Settings!Successor, Settings!At, Settings!UnchangedButDoing, At, doing
  <2>. QED
    BY <2>1, <2>2
<1>. QED
  BY <1>1, <1>2, <1>3, CallEnds

LEMMA EditSound ==
    ASSUME Settings!SettingsAssumption, SettingsInv, NEW c \in Settings!Edits, Settings!Edit(c)
    PROVE  SettingsInv'
<1>. DEFINE H == Settings!Handler
<1>1. Onfile \in Config /\ SettingsTyped
  BY OnfileIsConfig DEF SettingsInv
<1>2. c \in Config
  <2>1. CASE c = [Onfile EXCEPT !.author = 1 - @]
    <3>1. Onfile.author \in {0, 1}
      BY <1>1 DEF Config, Settings!Config
    <3>2. 1 - Onfile.author \in {0, 1}
      BY <3>1
    <3>. QED
      BY <2>1, <3>2, <1>1 DEF Config, Settings!Config
  <2>2. ASSUME NEW s \in FolderLists, c = [Onfile EXCEPT !.folders = s] PROVE c \in Config
    BY <2>2, <1>1 DEF Config, Settings!Config
  <2>3. ASSUME NEW s \in Scales, c = [Onfile EXCEPT !.scale = s] PROVE c \in Config
    BY <2>3, <1>1 DEF Config, Settings!Config
  <2>4. ASSUME NEW r \in Roots, c = [Onfile EXCEPT !.root = r] PROVE c \in Config
    BY <2>4, <1>1 DEF Config, Settings!Config
  <2>5. ASSUME NEW d \in DefaultFolders \cup {NoDefault}, c = [Onfile EXCEPT !.default = d] PROVE c \in Config
    BY <2>5, <1>1 DEF Config, Settings!Config
  <2>. QED
    BY <2>1, <2>2, <2>3, <2>4, <2>5 DEF Settings!Edits, Onfile, file
<1>3. /\ v1' = c /\ v8' = NoConfig /\ UNCHANGED <<v2, v3, v4, v5, v6, v9>> /\ ~v3
      /\ doing' = [h \in H |-> IF Settings!At(h, "staged") \/ Settings!At(h, "indexed")
                               THEN [doing[h] EXCEPT !.fresh = FALSE] ELSE doing[h]]
      /\ v11' \in Nat /\ ~Unedited'
  BY DEF Settings!Edit, doing, SettingsInv, Unedited
<1>4. ASSUME NEW h \in H
      PROVE  /\ Staging(h) => /\ doing'[h] \in Settings!Prepared /\ doing'[h].stage = doing[h].stage
                              /\ doing'[h].snapshot = doing[h].snapshot /\ ~doing'[h].fresh
                              /\ doing'[h].at = doing[h].at
             /\ ~Staging(h) => doing'[h] = doing[h]
             /\ doing'[h] \in CallSet
             /\ doing'[h] = NoCall <=> doing[h] = NoCall
  <2>1. doing'[h] = IF Staging(h) THEN [doing[h] EXCEPT !.fresh = FALSE] ELSE doing[h]
    BY <1>3 DEF Settings!At, Staging, doing
  <2>2. Staging(h) => doing[h] \in Settings!Prepared
    BY DEF SettingsInv, StagedInv
  <2>3. doing[h] \in CallSet
    BY <1>1 DEF SettingsTyped
  <2>4. CASE Staging(h)
    <3>. DEFINE d == [doing[h] EXCEPT !.fresh = FALSE]
    <3>1. /\ d \in Settings!Prepared /\ d.stage = doing[h].stage /\ d.snapshot = doing[h].snapshot
          /\ ~d.fresh /\ d.at = doing[h].at
      BY <2>2, <2>4 DEF Settings!Prepared
    <3>2. d # NoCall /\ doing[h] # NoCall
      BY <3>1, <2>4 DEF Settings!SettingsAssumption, Staging
    <3>3. doing'[h] = d
      BY <2>1, <2>4
    <3>. HIDE DEF d
    <3>. QED
      BY <3>1, <3>2, <3>3, <2>4 DEF CallSet
  <2>. QED
    BY <2>1, <2>3, <2>4
<1>5. SettingsTyped'
  <2>1. doing' \in [H -> CallSet]
    BY <1>3, <1>4
  <2>. QED
    BY <2>1, <1>1, <1>2, <1>3 DEF SettingsTyped, file, live, told
<1>6. live' = live /\ told' = NoConfig /\ Onfile' = c
  <2>1. c # NoConfig
    BY <1>2 DEF Settings!SettingsAssumption, Config
  <2>. QED
    BY <2>1, <1>3 DEF live, told, Onfile, file, Settings!Read
<1>7. ASSUME NEW h \in H PROVE BegunInv(h)' /\ StagedInv(h)' /\ IndexedInv(h)' /\ At(h, "indexed")' = At(h, "indexed")
  <2>1. BegunInv(h) /\ StagedInv(h) /\ IndexedInv(h)
    BY DEF SettingsInv
  <2>2. CASE Staging(h)
    <3>1. Staging(h)' /\ At(h, "indexed")' = At(h, "indexed") /\ ~At(h, "begun")'
      BY <2>2, <1>4 DEF Staging, At
    <3>2. StagedInv(h)'
      BY <2>1, <2>2, <3>1, <1>4, <1>3, <1>6 DEF StagedInv
    <3>3. IndexedInv(h)'
      BY <2>1, <2>2, <3>1, <1>4, <1>3 DEF IndexedInv, Settings!Commits, doing
    <3>. QED
      BY <3>1, <3>2, <3>3 DEF BegunInv
  <2>3. CASE ~Staging(h)
    <3>1. doing'[h] = doing[h] /\ ~Staging(h)' /\ ~At(h, "indexed") /\ ~At(h, "indexed")'
      BY <2>3, <1>4 DEF Staging, At
    <3>. QED
      BY <3>1, <2>1, <1>6 DEF BegunInv, StagedInv, IndexedInv, At
  <2>. QED
    BY <2>2, <2>3
<1>8. \A f, g \in H : doing'[g] # NoCall /\ doing'[f] # NoCall => g = f
  BY <1>4 DEF SettingsInv
<1>9. (\A g \in H : ~At(g, "indexed")') => v4' = Settings!Profiles(live')
  BY <1>7, <1>3, <1>6 DEF SettingsInv
<1>10. v4' \in Seq(Roots \cup Folders) /\ (Unedited' => Onfile'.scale = live'.scale) /\ v11' \in Nat
       /\ ~Settings!Overlaps(live') /\ (v5' = NoDefault => live'.root = v6')
  BY <1>2, <1>3, <1>6 DEF SettingsInv
<1>11. ToldInv'
  BY <1>6 DEF ToldInv
<1>. QED
  BY <1>5, <1>7, <1>8, <1>9, <1>10, <1>11 DEF SettingsInv

\* A write that is made: the file and the live config agree again on what they share.
LEMMA WriteSound ==
    ASSUME Settings!SettingsAssumption, SettingsInv, NEW h \in Settings!Handler, Settings!Write(h)
    PROVE  SettingsInv'
<1>. DEFINE H == Settings!Handler
            stage == doing[h].stage
            next == stage.next
            now  == Settings!Replaced(h)
<1>1. /\ Staging(h) /\ (\/ At(h, "indexed")
                          \/ /\ At(h, "staged") /\ ~Settings!Reindexes(h)
                             /\ Settings!Commits(h) => ~Settings!Overlaps(stage.live))
      /\ ~Settings!Overlaps(next) /\ UNCHANGED <<v3, v4, v5, v6, v9, v11>>
      /\ v1' = next /\ v2' = now
      /\ v8' = CASE h = "save" -> stage.restart [] h = "first" -> NoConfig [] OTHER -> told
      /\ \/ doing' = [doing EXCEPT ![h] = NoCall]
         \/ doing' = [doing EXCEPT ![h] = [at |-> "saved"]]
  <2>1. Staging(h) /\ (\/ At(h, "indexed")
                          \/ /\ At(h, "staged") /\ ~Settings!Reindexes(h)
                             /\ Settings!Commits(h) => ~Settings!Overlaps(stage.live))
    <3>1. Settings!Writable(h)
      BY DEF Settings!Write
    <3>2. Settings!At(h, "indexed") => At(h, "indexed")
      BY DEF Settings!At, At, doing
    <3>3. Settings!At(h, "staged") => At(h, "staged")
      BY DEF Settings!At, At, doing
    <3>4. Settings!CheckThoughts(v7[h].stage.live) => ~Settings!Overlaps(stage.live)
      BY DEF Settings!CheckThoughts, doing
    <3>5. At(h, "indexed") \/ At(h, "staged") => Staging(h)
      BY DEF At, Staging
    <3>. QED
      BY <3>1, <3>2, <3>3, <3>4, <3>5 DEF Settings!Writable
  <2>2. /\ ~Settings!Overlaps(next) /\ UNCHANGED <<v3, v4, v5, v6, v9, v11>>
        /\ v1' = next /\ v2' = now
    BY DEF Settings!Write, Settings!CheckThoughts, doing
  <2>3. v8' = CASE h = "save" -> stage.restart [] h = "first" -> NoConfig [] OTHER -> told
    BY Zenon DEF Settings!Write, doing, told
  <2>4. \/ doing' = [doing EXCEPT ![h] = NoCall]
        \/ doing' = [doing EXCEPT ![h] = [at |-> "saved"]]
    BY DEF Settings!Write, Settings!GiveUp, doing
  <2>. QED
    BY <2>1, <2>2, <2>3, <2>4
<1>2. StagedInv(h) /\ IndexedInv(h) /\ SettingsTyped
  BY DEF SettingsInv
<1>3. /\ doing[h] \in Settings!Prepared /\ stage \in [next : Config, live : Config, restart : BOOLEAN]
      /\ next \in Config /\ stage.live \in Config /\ live \in Config /\ h # "relaunch"
  BY <1>1, <1>2 DEF StagedInv, Settings!Prepared, Config, SettingsTyped
<1>4. now = IF h = "open" \/ (h = "first" /\ stage.restart) THEN live ELSE stage.live
  BY DEF Settings!Replaced, live, doing
<1>5. \A g \in H : doing'[g] = NoCall \/ doing'[g] = [at |-> "saved"]
  BY <1>1, <1>2, Alone DEF SettingsTyped, Staging
<1>6. \A g \in H \ {h} : doing'[g] = NoCall
  BY <1>1, <1>2, Alone DEF SettingsTyped, Staging
<1>7. \A g \in H : BegunInv(g)' /\ StagedInv(g)' /\ IndexedInv(g)' /\ ~At(g, "indexed")'
  BY <1>5, HandlerIdle
<1>8. now \in Config /\ now.root = live.root /\ (h # "first" => Alike(now, live))
  BY <1>1, <1>2, <1>3, <1>4 DEF StagedInv, Alike
<1>9. live' = now /\ file' = next /\ Onfile' = next /\ next # NoConfig
  <2>1. next # NoConfig
    BY <1>3 DEF Settings!SettingsAssumption, Config
  <2>. QED
    BY <2>1, <1>1 DEF live, file, Onfile, Settings!Read
<1>10. Unedited => next.scale = now.scale
  BY <1>1, <1>2, <1>4 DEF StagedInv
<1>11. h \in {"save", "scale", "first", "mark", "open"}
  BY <1>3 DEF Settings!Handler
<1>12. Settings!Commits(h) <=> h = "save" \/ (h = "first" /\ ~stage.restart)
  BY DEF Settings!Commits, doing
<1>13. ~At(h, "indexed") => v4 = Settings!Profiles(live)
  BY <1>1, Alone DEF SettingsInv, At, Staging
<1>14. v4 = Settings!Profiles(now) /\ ~Settings!Overlaps(now)
  <2>1. CASE now = live /\ ~Settings!Commits(h)
    BY <2>1, <1>2, <1>13 DEF IndexedInv, SettingsInv
  <2>2. CASE h \in {"scale", "mark"}
    <3>1. now = stage.live /\ ~At(h, "indexed")
      BY <2>2, <1>2, <1>4, <1>12 DEF IndexedInv
    <3>2. Settings!Profiles(stage.live) = Settings!Profiles(live) /\ Alike(stage.live, live)
      BY <2>2, <1>1, <1>2 DEF StagedInv
    <3>3. ~Settings!Overlaps(stage.live)
      BY <3>2 DEF SettingsInv, Alike, Settings!Fingerprint, Settings!Overlaps
    <3>. QED
      BY <3>1, <3>2, <3>3, <1>13
  <2>3. CASE Settings!Commits(h) /\ At(h, "indexed")
    BY <2>3, <1>2, <1>4, <1>12 DEF IndexedInv
  <2>4. CASE Settings!Commits(h) /\ ~At(h, "indexed")
    <3>1. now = stage.live /\ ~Settings!Overlaps(stage.live) /\ ~Settings!Reindexes(h)
      BY <2>4, <1>1, <1>4, <1>12
    <3>2. Settings!Profiles(live) = Settings!Profiles(stage.live)
      BY <3>1, <2>4, <1>1, <1>2 DEF Settings!Reindexes, StagedInv, doing
    <3>. QED
      BY <3>1, <3>2, <2>4, <1>13
  <2>. QED
    BY <2>1, <2>2, <2>3, <2>4, <1>4, <1>11, <1>12
<1>15. SettingsTyped'
  <2>1. doing' \in [H -> CallSet]
    BY <1>1, <1>2 DEF SettingsTyped, CallSet
  <2>2. v8' \in BOOLEAN \cup {NoConfig}
    BY <1>1, <1>2, <1>3 DEF SettingsTyped
  <2>. QED
    BY <2>1, <2>2, <1>1, <1>2, <1>3, <1>8, <1>9 DEF SettingsTyped, told
<1>16. ToldInv'
  <2>1. ~Settings!Overlaps(next) /\ next # NoConfig
    BY <1>1, <1>9
  <2>2. CASE h = "first"
    <3>1. told' = NoConfig
      BY <2>2, <1>1 DEF told
    <3>. QED
      BY <3>1 DEF ToldInv
  <2>3. CASE h = "save"
    <3>1. told' = stage.restart /\ now = stage.live
      BY <2>3, <1>1, <1>4 DEF told
    <3>2. stage.restart <=> next.root # v6 \/ ~Alike([next EXCEPT !.root = live.root], stage.live)
      BY <2>3, <1>1, <1>2 DEF StagedInv
    <3>3. next.root = live.root => [next EXCEPT !.root = live.root] = next
      BY <1>3 DEF Config, Settings!Config
    <3>4. v5 = NoDefault => live.root = v6
      BY DEF SettingsInv
    <3>5. v5 = NoDefault => (stage.restart <=> ~(next.root = now.root /\ Alike(next, now)))
      BY <3>1, <3>2, <3>3, <3>4, <1>8
    <3>. QED
      BY <3>1, <3>5, <2>1, <1>1, <1>9 DEF ToldInv
  <2>4. CASE h \notin {"first", "save"}
    <3>1. told' = told
      BY <2>4, <1>1 DEF told
    <3>2. CASE told # NoConfig
      <4>1. /\ file # NoConfig /\ ~Settings!Overlaps(file) /\ Onfile = file
            /\ v5 = NoDefault => (told <=> ~(file.root = live.root /\ Alike(file, live)))
        BY <3>2 DEF SettingsInv, ToldInv, Onfile, Settings!Read
      <4>2. \A x \in DOMAIN live \ Settings!Owned(h) : next[x] = Onfile[x]
        BY <3>2, <1>1, <1>2 DEF StagedInv
      <4>3. next.root = file.root /\ next.default = file.default /\ next.folders = file.folders
        BY <4>1, <4>2, <2>4, <1>3, <1>11 DEF Settings!Owned, Config, Settings!Config
      <4>4. Alike(next, file)
        BY <4>3 DEF Alike, Settings!Fingerprint, Settings!DefaultRoot, Settings!Shared
      <4>5. v5 = NoDefault => (told <=> ~(next.root = now.root /\ Alike(next, now)))
        BY <4>1, <4>3, <4>4, <1>8, <2>4 DEF Alike
      <4>. QED
        BY <4>5, <3>1, <2>1, <1>1, <1>9 DEF ToldInv
    <3>. QED
      BY <3>1, <3>2 DEF ToldInv
  <2>. QED
    BY <2>2, <2>3, <2>4
<1>17. \A f, g \in H : doing'[g] # NoCall /\ doing'[f] # NoCall => g = f
  BY <1>6
<1>18. v4' \in Seq(Roots \cup Folders) /\ (v5' = NoDefault => live'.root = v6')
  BY <1>1, <1>8, <1>9 DEF SettingsInv
<1>19. (Unedited' => Onfile'.scale = live'.scale) /\ v11' \in Nat
  BY <1>1, <1>9, <1>10 DEF SettingsInv, Unedited
<1>. HIDE DEF now, next, stage
<1>. QED
  BY <1>1, <1>7, <1>9, <1>14, <1>15, <1>16, <1>17, <1>18, <1>19 DEF SettingsInv

LEMMA SettingsStep ==
    ASSUME Settings!SettingsAssumption, SettingsInv, Settings!Next PROVE SettingsInv'
<1>1. CASE Settings!Quit
  <2>1. v3' \in BOOLEAN /\ UNCHANGED <<v1, v2, v4, v5, v6, v7, v8, v9, v11>>
    BY <1>1 DEF Settings!Quit
  <2>2. UNCHANGED <<file, live, told, Onfile, doing>>
    BY <2>1 DEF file, live, told, Onfile, doing
  <2>3. SettingsTyped'
    BY <2>1, <2>2 DEF SettingsInv, SettingsTyped
  <2>4. \A h \in Settings!Handler : BegunInv(h)' /\ StagedInv(h)' /\ IndexedInv(h)'
    BY <2>1, <2>2, HandlerKept DEF SettingsInv
  <2>5. \A h \in Settings!Handler : At(h, "indexed")' = At(h, "indexed")
    BY <2>2 DEF At
  <2>6. ToldInv'
    BY <2>1, <2>2 DEF ToldInv, SettingsInv
  <2>. QED
    BY <2>1, <2>2, <2>3, <2>4, <2>5, <2>6 DEF SettingsInv, Unedited
<1>. QED
  BY <1>1, BeginSound, StageSound, ReindexSound, EndsSound, WriteSound, EditSound DEF Settings!Next

\* What holds of the settings whenever they are sound.
LEMMA SettingsShow ==
    ASSUME Settings!SettingsAssumption, SettingsInv
    PROVE  /\ Settings!SettingsTypeOK /\ Settings!RoutingIsIndexed
           /\ Settings!RestartToldTruly /\ Settings!PanelRoundTrip
<1>1. SettingsTyped /\ Onfile \in Config /\ live \in Config
  BY OnfileIsConfig DEF SettingsInv, SettingsTyped
<1>2. Settings!SettingsTypeOK
  <2>1. ASSUME NEW h \in Settings!Handler
        PROVE  doing[h] = NoCall \/ doing[h].at \in {"begun", "staged", "indexed", "saved"}
    BY <1>1 DEF SettingsTyped, CallSet, Asked, Settings!Prepared
  <2>. QED
    BY <2>1, <1>1 DEF Settings!SettingsTypeOK, SettingsInv, SettingsTyped, file, live, doing, told, Config
<1>3. Settings!RoutingIsIndexed
  BY DEF SettingsInv, At, Settings!At, Settings!RoutingIsIndexed, live, doing
<1>4. Settings!RestartToldTruly
  <2>1. CASE told # NoConfig /\ v5 = NoDefault
    <3>1. /\ file # NoConfig /\ ~Settings!Overlaps(file) /\ ~Settings!Overlaps(live)
          /\ told <=> ~(file.root = live.root /\ Alike(file, live))
      BY <2>1 DEF SettingsInv, ToldInv
    <3>2. file \in Config
      BY <3>1, <1>1 DEF SettingsTyped
    <3>3. Alike(file, live) <=>
              /\ Settings!DefaultRoot(file) = Settings!DefaultRoot(live)
              /\ \A f \in Folders : Settings!Route(file, f) = Settings!Route(live, f)
      BY <3>1, <3>2, <1>1, FingerprintIsRouting
    <3>. QED
      BY <3>1, <3>3 DEF Settings!RestartToldTruly, file, live, told
  <2>. QED
    BY <2>1 DEF Settings!RestartToldTruly, told
<1>5. Settings!PanelRoundTrip
  <2>. DEFINE in    == Settings!View(live, Onfile)
              next  == Settings!FileCopy("save", in, Onfile)
  <2>1. Unedited => Onfile.scale = live.scale
    BY DEF SettingsInv
  <2>2. next = [Onfile EXCEPT !.scale = live.scale]
    BY <1>1 DEF Settings!FileCopy, Settings!View, Config, Settings!Config
  <2>5. Unedited => next = Onfile
    BY <2>1, <2>2, <1>1 DEF Config, Settings!Config
  <2>6. /\ next.root = Onfile.root
        /\ Settings!Fingerprint([next EXCEPT !.root = live.root])
             = Settings!Fingerprint([Onfile EXCEPT !.root = live.root])
    BY <2>2, <1>1 DEF Config, Settings!Config, Settings!Fingerprint, Settings!DefaultRoot, Settings!Shared
  <2>3. Settings!Restart("save", live, next) = Settings!RelaunchPending(live, Onfile)
    BY <2>6 DEF Settings!Restart, Settings!RelaunchPending, Settings!RestartRequired, Settings!RoutingChanged
  <2>4. /\ Settings!Staged("save", in, live, Onfile).next = next
        /\ Settings!Staged("save", in, live, Onfile).restart = Settings!Restart("save", live, next)
    BY DEF Settings!Staged
  <2>. QED
    BY <2>2, <2>3, <2>4, <2>5 DEF Settings!PanelRoundTrip, Onfile, file, live, Unedited
<1>. QED
  BY <1>2, <1>3, <1>4, <1>5

\* What no step of the settings does.
LEMMA SettingsHold ==
    ASSUME Settings!SettingsAssumption, SettingsInv, Settings!Next
    PROVE  Settings!HoldsRouting /\ Settings!KeepsTheRest
<1>. DEFINE H == Settings!Handler
<1>1. CASE UNCHANGED <<v1, v2>>
  <2>1. Settings!HoldsRouting
    BY <1>1 DEF Settings!HoldsRouting
  <2>. QED
    BY <2>1, <1>1 DEF Settings!KeepsTheRest
<1>2. ASSUME NEW c \in Settings!Edits, Settings!Edit(c)
      PROVE  Settings!HoldsRouting /\ Settings!KeepsTheRest
  <2>1. v2' = v2 /\ ~v3 /\ v3' = v3
    BY <1>2 DEF Settings!Edit
  <2>2. ASSUME NEW h \in H, Settings!Staging(h) PROVE Settings!Staging(h)'
    <3>1. Staging(h)
      BY <2>2 DEF Settings!Staging, Settings!At, Staging, doing
    <3>2. doing[h] \in Settings!Prepared
      BY <3>1 DEF SettingsInv, StagedInv
    <3>3. v7'[h] = [doing[h] EXCEPT !.fresh = FALSE]
      BY <2>2, <1>2 DEF Settings!Edit, Settings!Staging, doing
    <3>4. v7'[h] \in Settings!Prepared /\ v7'[h].at = doing[h].at
      BY <3>2, <3>3 DEF Settings!Prepared
    <3>. QED
      BY <3>1, <3>4, <2>1 DEF Settings!Staging, Settings!At, Staging, Settings!SettingsAssumption
  <2>. QED
    BY <2>1, <2>2 DEF Settings!HoldsRouting, Settings!KeepsTheRest
<1>3. ASSUME NEW h \in H, Settings!Write(h)
      PROVE  Settings!HoldsRouting /\ Settings!KeepsTheRest
  <2>. DEFINE stage == doing[h].stage
              now == Settings!Replaced(h)
  <2>1. Staging(h) /\ v2' = now /\ v1' = stage.next
    BY <1>3 DEF Settings!Write, Settings!Writable, Settings!At, Staging, doing
  <2>2. StagedInv(h)
    BY DEF SettingsInv
  <2>3. now = live \/ now = stage.live
    BY DEF Settings!Replaced, live, doing
  <2>4. now.root = live.root /\ (h # "first" => Alike(now, live))
    BY <2>1, <2>2, <2>3 DEF StagedInv, Alike
  <2>5. live.welcomed => Alike(now, live)
    BY <2>1, <2>2, <2>4 DEF StagedInv
  <2>6. Settings!HoldsRouting
    <3>1. ASSUME Alike(now, live), NEW f \in Folders PROVE Settings!Route(now, f) = Settings!Route(live, f)
      BY <3>1 DEF Alike, Settings!Fingerprint, Settings!Route
    <3>. QED
      BY <3>1, <2>1, <2>4, <2>5 DEF Settings!HoldsRouting, live
  <2>7. ASSUME NEW g \in H, Settings!Staging(g), doing[g].fresh
        PROVE  \A x \in DOMAIN live \ Settings!Owned(g) : v1'[x] = Onfile[x]
    <3>1. g = h
      BY <2>1, <2>7, Alone DEF Settings!Staging, Settings!At, Staging, doing
    <3>. QED
      BY <3>1, <2>1, <2>2, <2>7 DEF StagedInv
  <2>8. Settings!KeepsTheRest
    BY <2>7 DEF Settings!KeepsTheRest, Onfile, file, live, doing
  <2>. QED
    BY <2>6, <2>8
<1>4. ASSUME NEW h \in H, NEW in \in Settings!Inputs(h), Settings!Begin(h, in) PROVE UNCHANGED <<v1, v2>>
  BY <1>4 DEF Settings!Begin
<1>5. ASSUME NEW h \in H, Settings!Stage(h) \/ Settings!Reindex(h) \/ Settings!WriteFails(h)
                          \/ Settings!Refused(h) \/ Settings!Successor(h)
      PROVE  UNCHANGED <<v1, v2>>
  BY <1>5 DEF Settings!Stage, Settings!Reindex, Settings!WriteFails, Settings!Refused,
              Settings!Successor, Settings!UnchangedButDoing
<1>6. CASE Settings!Quit
  BY <1>6, <1>1 DEF Settings!Quit
<1>. QED
  BY <1>1, <1>2, <1>3, <1>4, <1>5, <1>6 DEF Settings!Next

-----------------------------------------------------------------------------
(* Launch.                                                                  *)

lock       == v1
descriptor == v2
line       == v3      \* what a command line is doing
offer      == v4
wb         == v5
made       == v7
settled    == v8
USE DEF lock, descriptor, line, offer, wb, made, settled

\* Command lines that hold the launch lock, and the moves a workbench makes under it.
Holders == {"look", "sweep", "launch", "wait", "offer"}
Locked  == {"locked", "waits"}
Unlocked == {"no", "asks"}
Early   == {"none", "starting", "serving"}
Late    == {"up", "leaving", "unpublished"}

Records ==
    [life : Early \cup Late \cup {"gone"}, seed : Tickets \cup {NoOne}, pending : Tickets \cup {NoOne},
     draft : Tickets \cup {NoOne, ByHand}, gate : BOOLEAN, move : Unlocked \cup Locked \cup {"handed"},
     carries : BOOLEAN, child : Workbenches \cup {NoOne}]

\* Every part of the launch lock is with who is said to hold it.
LockInv ==
    /\ \A i \in Invocations : lock = i <=> line[i].pc \in Holders
    /\ \A w \in Workbenches : lock = w <=> wb[w].move \in Locked

\* What may be said of a workbench, r, called w.
Sound(w, r) ==
    /\ r.life = "none" => r = Launch!Blank
    /\ r.life = "gone" => r = Launch!Gone
    /\ r.life \in {"starting", "serving"} => r.move = "no" /\ r.draft = NoOne /\ r.child = NoOne
    /\ r.life = "starting" \/ r.seed # NoOne => r.pending = NoOne
    /\ r.pending # NoOne => r.draft = NoOne
    /\ r.life \notin {"starting", "serving"} => r.seed = NoOne
    /\ r.move # "no" => r.life \in Late
    /\ r.move \in Locked => r.life = "up"
    /\ r.move = "waits" => r.child \in Workbenches \ {w}
    /\ r.move = "handed" => r.child # NoOne

HoldingOf(r) == {r.seed, r.pending, r.draft} \cap Tickets

\* The descriptor names one that has published itself and not been replaced; one on the
\* screen is named by it unless it started a successor; one that is on its way out and has
\* handed nothing over owes nothing.
Placed(w) ==
    /\ Sound(w, wb[w])
    /\ descriptor = w => wb[w].life \notin Early /\ wb[w].move # "handed"
    /\ wb[w].life = "up" => descriptor = w \/ wb[w].child # NoOne
    /\ wb[w].life \in {"leaving", "unpublished"} /\ wb[w].move # "handed" => Launch!Holding(w) \subseteq settled

\* A workbench that is not published yet has somebody waiting for it under the lock.
Awaited(w) ==
    \/ \E i \in Invocations : line[i].pc = "wait" /\ line[i].at = w
    \/ \E v \in Workbenches : wb[v].move = "waits" /\ wb[v].child = w

Good(w) == Launch!Alive(w) /\ wb[w].life \notin {"leaving", "unpublished"} /\ wb[w].move # "handed"
Kept(t) == t \in settled \/ \E w \in Workbenches : Good(w) /\ t \in Launch!Holding(w)

\* The tickets some command line was told were delivered.
Promised == {line[i].ticket : i \in {j \in Invocations : line[j].pc = "ok"}} \cap Tickets

CallInv(i) ==
    /\ line[i].pc = "launch" => \A w \in Workbenches : ~Launch!Alive(w)
    /\ line[i].pc = "wait" =>
          /\ line[i].at \in Workbenches /\ wb[line[i].at].life # "none"
          /\ wb[line[i].at].move \in Unlocked
          /\ \A w \in Workbenches : Launch!Alive(w) => w = line[i].at
          /\ Promised \subseteq settled
          /\ line[i].ticket # NoOne =>
                \/ line[i].ticket \in settled \cup Launch!Holding(line[i].at)
                \/ wb[line[i].at].life = "gone"
    /\ line[i].pc = "offer" => /\ line[i].at \in Workbenches /\ wb[line[i].at].move \in Unlocked
                               /\ offer[i] = "accepted" => Kept(line[i].ticket)
    /\ offer[i] # "none" => line[i].pc \in {"offer", "ok", "failed"}
    /\ line[i].pc = "offer" \/ offer[i] # "none" =>
          /\ line[i].at \in Workbenches /\ wb[line[i].at].life \notin Early
          /\ line[i].ticket \in Tickets

\* While a workbench waits for its successor the tickets that were promised are with it, and
\* the one it carries is with its successor too.
WaitsInv(w) ==
    wb[w].move = "waits" =>
        LET v == wb[w].child
        IN  /\ wb[v].life # "none" /\ wb[v].move \in Unlocked
            /\ Promised \subseteq settled \cup Launch!Holding(w)
            /\ wb[w].carries /\ wb[w].pending \in Promised =>
                  wb[w].pending \in settled \cup Launch!Holding(v) \/ wb[v].life = "gone"

\* The types, in terms of the sets above.
Lines == [ticket : Tickets \cup {NoOne}, at : Workbenches \cup {NoOne},
          pc : Holders \cup {"idle", "ok", "failed"}]
Steps == {"none", "sent", "scan", "take", "accepted", "refused"}

LaunchTyped ==
    /\ lock \in Invocations \cup Workbenches \cup {NoOne}
    /\ descriptor \in Workbenches \cup {NoOne}
    /\ line \in [Invocations -> Lines] /\ offer \in [Invocations -> Steps]
    /\ wb \in [Workbenches -> Records]
    /\ v6 \in BOOLEAN /\ made \subseteq Tickets /\ settled \subseteq Tickets

LaunchInv ==
    /\ LaunchTyped
    /\ LockInv
    /\ \A w \in Workbenches : Placed(w) /\ WaitsInv(w)
    /\ \A w \in Workbenches : wb[w].life \in {"starting", "serving"} => Awaited(w)
    /\ \A i \in Invocations : CallInv(i)
    /\ Launch!OneWorkbench
    /\ \A t \in Promised : Kept(t)

-----------------------------------------------------------------------------
LEMMA GoodHolds ==
    ASSUME NEW t, Kept(t), t \notin settled
    PROVE  \E w \in Workbenches : Good(w) /\ t \in Launch!Holding(w)
  BY DEF Kept

\* The workbench of a record: the operators of Launch, put in terms of it.
LEMMA InTermsOfRecords ==
    ASSUME NEW w, NEW r, wb[w] = r
    PROVE  /\ Launch!Alive(w) <=> r.life \notin {"none", "gone"}
           /\ Launch!Holding(w) = HoldingOf(r)
           /\ Good(w) <=> r.life \notin {"none", "gone", "leaving", "unpublished"} /\ r.move # "handed"
  BY DEF Launch!Alive, Launch!Holding, HoldingOf, Good

LEMMA InTermsOfNext ==
    ASSUME NEW w, NEW r, wb'[w] = r
    PROVE  /\ Launch!Alive(w)' <=> r.life \notin {"none", "gone"}
           /\ Launch!Holding(w)' = HoldingOf(r)
           /\ Good(w)' <=> r.life \notin {"none", "gone", "leaving", "unpublished"} /\ r.move # "handed"
  BY DEF Launch!Alive, Launch!Holding, HoldingOf, Good

LEMMA LaunchTypes ==
    ASSUME \A w \in Workbenches : Sound(w, wb[w])
    PROVE  Launch!TypeOK <=> LaunchTyped
<1>1. Launch!Over = {"ok", "failed"}
  BY DEF Launch!Over
<1>2. [ticket : Tickets \cup {NoOne}, at : Workbenches \cup {NoOne},
       pc : {"idle", "look", "sweep", "launch", "wait", "offer"} \cup Launch!Over] = Lines
  BY <1>1 DEF Lines, Holders
<1>3. [life : {"none", "starting", "serving", "up", "leaving", "unpublished", "gone"},
       seed : Tickets \cup {NoOne}, pending : Tickets \cup {NoOne},
       draft : Tickets \cup {NoOne, ByHand}, gate : BOOLEAN,
       move : {"no", "asks", "locked", "waits", "handed"}, carries : BOOLEAN,
       child : Workbenches \cup {NoOne}] = Records
  BY DEF Records, Early, Late, Unlocked, Locked
<1>4. \A w \in Workbenches : wb[w].pending # NoOne => wb[w].draft = NoOne
  BY DEF Sound
<1>. QED
  BY <1>2, <1>3, <1>4 DEF Launch!TypeOK, LaunchTyped, Steps

\* Only the lock's holder does what the lock is held for.
LEMMA HeldByOne ==
    ASSUME Launch!NamesAssumption, LaunchInv
    PROVE  /\ \A i, j \in Invocations : line[i].pc \in Holders /\ line[j].pc \in Holders => i = j
           /\ \A w, v \in Workbenches : wb[w].move \in Locked /\ wb[v].move \in Locked => w = v
           /\ \A i \in Invocations, w \in Workbenches : ~(line[i].pc \in Holders /\ wb[w].move \in Locked)
           /\ lock = NoOne => /\ \A i \in Invocations : line[i].pc \notin Holders
                              /\ \A w \in Workbenches : wb[w].move \notin Locked
  BY DEF LaunchInv, LockInv, Launch!NamesAssumption

\* A step of one workbench, from r to q, in a life it goes on with: it drops no ticket that
\* is not settled, and leaves nothing unsettled where it is on its way out.
Onward(w, r, q) ==
    /\ r.life \notin {"none", "gone"} /\ q.life \notin {"none", "gone"}
    /\ q.life = "starting" => r.life = "starting"
    /\ q.life = "serving" => r.life \in {"starting", "serving"}
    /\ q.move = r.move \/ (r.move = "no" /\ q.move = "asks")
    /\ q.carries = r.carries \/ r.move = "no"
    /\ q.child = r.child
    /\ Sound(w, q)
    /\ HoldingOf(r) \subseteq settled' \cup HoldingOf(q)
    /\ q.life \in {"leaving", "unpublished"} /\ q.move # "handed" => HoldingOf(q) \subseteq settled'
    /\ q.pending \in {r.pending, NoOne} \/ HoldingOf(r) \subseteq settled' \/ r.move = "no"

\* It publishes itself, takes its own descriptor away, or leaves it alone.
Publishes(w, r, q) ==
    \/ descriptor' = descriptor /\ (q.life = "up" => r.life = "up")
    \/ descriptor' = w /\ r.life = "serving" /\ q.life = "up"
    \/ descriptor = w /\ descriptor' = NoOne /\ q.life # "up"

\* An offer it answers with a ticket it settles or keeps, or goes on with.
AnswersFor(w, q) ==
    \A i \in Invocations :
       offer'[i] = offer[i] \/ (/\ offer[i] # "none" /\ line[i].at = w
                                /\ offer'[i] = "accepted" => line[i].ticket \in settled' \cup HoldingOf(q))

LEMMA LocalStep ==
    ASSUME Launch!NamesAssumption, LaunchInv, NEW w \in Workbenches, NEW r, r = wb[w], NEW q \in Records,
           wb' = [wb EXCEPT ![w] = q], UNCHANGED <<lock, line>>,
           Onward(w, r, q), Publishes(w, r, q), AnswersFor(w, q),
           offer' \in [Invocations -> Steps], v6' \in BOOLEAN, made' \subseteq Tickets,
           settled \subseteq settled', settled' \subseteq Tickets
    PROVE  LaunchInv'
<1>1. LaunchTyped
  BY DEF LaunchInv
<1>2. \A u \in Workbenches : wb'[u] = IF u = w THEN q ELSE wb[u]
  BY <1>1 DEF LaunchTyped
<1>. HIDE DEF lock, descriptor, line, offer, wb, made, settled
<1>3. LaunchTyped'
  <2>1. wb' \in [Workbenches -> Records]
    BY <1>1 DEF LaunchTyped
  <2>2. descriptor' \in Workbenches \cup {NoOne}
    BY <1>1 DEF LaunchTyped, Publishes
  <2>. QED
    BY <2>1, <2>2, <1>1 DEF LaunchTyped
<1>4. LockInv'
  BY <1>2 DEF LaunchInv, LockInv, Onward, Locked
<1>5. \A u \in Workbenches : Placed(u) /\ WaitsInv(u) /\ (wb[u].life \in {"starting", "serving"} => Awaited(u))
  BY DEF LaunchInv
<1>6. /\ Launch!Holding(w) = HoldingOf(r) /\ Launch!Holding(w)' = HoldingOf(q)
      /\ \A u \in Workbenches \ {w} : /\ Launch!Holding(u)' = Launch!Holding(u) /\ Good(u)' = Good(u)
                                      /\ Launch!Alive(u)' = Launch!Alive(u)
      /\ Launch!Alive(w) /\ Launch!Alive(w)'
      /\ Good(w) <=> r.life \notin {"none", "gone", "leaving", "unpublished"} /\ r.move # "handed"
      /\ Good(w)' <=> q.life \notin {"none", "gone", "leaving", "unpublished"} /\ q.move # "handed"
  BY <1>2 DEF Launch!Alive, Launch!Holding, HoldingOf, Good, Onward, wb
<1>7. \A t \in Tickets : t \in HoldingOf(r) /\ Good(w) => t \in settled' \/ (Good(w)' /\ t \in HoldingOf(q))
  BY <1>6 DEF Onward
<1>8. ASSUME NEW t \in Tickets, Kept(t) PROVE Kept(t)'
  <2>1. CASE t \in settled
    BY <2>1 DEF Kept
  <2>2. ASSUME NEW u \in Workbenches, Good(u), t \in Launch!Holding(u) PROVE Kept(t)'
    <3>1. CASE u = w
      BY <3>1, <2>2, <1>6, <1>7 DEF Kept
    <3>2. CASE u # w
      BY <3>2, <2>2, <1>6 DEF Kept
    <3>. QED
      BY <3>1, <3>2
  <2>. QED
    BY <2>1, <2>2, <1>8 DEF Kept
<1>9. Promised' = Promised /\ Promised \subseteq Tickets
  BY DEF Promised
<1>10. \A t \in Promised : Kept(t)'
  BY <1>8, <1>9 DEF LaunchInv
<1>11. ASSUME NEW u \in Workbenches PROVE Placed(u)'
  <2>1. CASE u = w
    <3>1. Sound(w, q) /\ q.life # "none"
      BY DEF Onward
    <3>2. descriptor' = w => q.life \notin Early /\ q.move # "handed"
      BY <1>5 DEF Placed, Sound, Publishes, Onward, Early, Launch!NamesAssumption
    <3>3. q.life = "up" => descriptor' = w \/ q.child # NoOne
      BY <1>5 DEF Placed, Publishes, Onward
    <3>. QED
      BY <2>1, <3>1, <3>2, <3>3, <1>2, <1>6 DEF Placed, Onward
  <2>2. CASE u # w
    <3>1. wb'[u] = wb[u] /\ Placed(u)
      BY <2>2, <1>2, <1>5
    <3>2. CASE descriptor' = descriptor
      BY <3>1, <3>2, <2>2, <1>6 DEF Placed
    <3>3. CASE descriptor' # descriptor
      <4>1. descriptor' # u
        BY <3>3, <2>2, <1>1 DEF Publishes, LaunchTyped, Launch!NamesAssumption
      <4>2. wb[u].life = "up" => wb[u].child # NoOne
        <5>1. CASE descriptor = w
          BY <5>1, <3>1, <2>2 DEF Placed
        <5>2. CASE r.life = "serving" /\ wb[u].life = "up"
          <6>1. Launch!Alive(u) /\ Launch!Alive(w)
            BY <5>2, <1>6 DEF Launch!Alive, wb
          <6>2. \/ wb[w].move = "handed" \/ wb[u].move = "handed"
                \/ wb[w].move = "waits" /\ wb[w].child = u
                \/ wb[u].move = "waits" /\ wb[u].child = w
            BY <6>1, <2>2 DEF LaunchInv, Launch!OneWorkbench, wb
          <6>3. wb[w].move = "no"
            BY <5>2, <1>5 DEF Placed, Sound
          <6>4. w # NoOne
            BY DEF Launch!NamesAssumption
          <6>. QED
            BY <6>2, <6>3, <6>4, <3>1 DEF Placed, Sound
        <5>. QED
          BY <5>1, <5>2, <3>3 DEF Publishes
      <4>. QED
        BY <4>1, <4>2, <3>1, <2>2, <1>6 DEF Placed
    <3>. QED
      BY <3>2, <3>3
  <2>. QED
    BY <2>1, <2>2
<1>12. ASSUME NEW u \in Workbenches PROVE WaitsInv(u)'
  <2>. PICK v : v = wb[u].child
    OBVIOUS
  <2>1. ASSUME wb'[u].move = "waits" PROVE wb[u].move = "waits" /\ wb'[u].child = v /\ v \in Workbenches \ {u}
    BY <2>1, <1>2, <1>5 DEF Onward, Placed, Sound
  <2>2. CASE u = w /\ wb'[u].move = "waits"
    <3>1. wb'[v] = wb[v] /\ v # w /\ v \in Workbenches
      BY <2>1, <2>2, <1>2
    <3>2. /\ wb[v].life # "none" /\ wb[v].move \in Unlocked
          /\ Promised \subseteq settled \cup HoldingOf(r)
          /\ r.carries /\ r.pending \in Promised => r.pending \in settled \cup Launch!Holding(v) \/ wb[v].life = "gone"
      BY <2>1, <2>2, <1>5, <1>6 DEF WaitsInv
    <3>3. Promised' \subseteq settled' \cup HoldingOf(q)
      BY <3>2, <1>9 DEF Onward
    <3>4. r.move = "waits" /\ q.carries = r.carries
      BY <2>1, <2>2 DEF Onward
    <3>5. ASSUME q.carries, q.pending \in Promised
          PROVE  q.pending \in settled' \cup Launch!Holding(v) \/ wb[v].life = "gone"
      <4>1. CASE q.pending = r.pending
        BY <4>1, <3>2, <3>4, <3>5
      <4>2. CASE HoldingOf(r) \subseteq settled'
        BY <4>2, <3>2, <3>5
      <4>3. q.pending # NoOne
        BY <3>5, <1>9 DEF Launch!NamesAssumption
      <4>. QED
        BY <4>1, <4>2, <4>3, <3>4 DEF Onward
    <3>6. Launch!Holding(v)' = Launch!Holding(v)
      BY <3>1, <1>6
    <3>. QED
      BY <2>2, <3>1, <3>2, <3>3, <3>5, <3>6, <1>2, <1>6, <1>9, <2>1 DEF WaitsInv
  <2>3. CASE u # w /\ wb'[u].move = "waits"
    <3>1. wb'[u] = wb[u] /\ Launch!Holding(u)' = Launch!Holding(u)
      BY <2>3, <1>2, <1>6
    <3>2. /\ wb[v].life # "none" /\ wb[v].move \in Unlocked
          /\ Promised \subseteq settled \cup Launch!Holding(u)
          /\ wb[u].carries /\ wb[u].pending \in Promised =>
                wb[u].pending \in settled \cup Launch!Holding(v) \/ wb[v].life = "gone"
      BY <2>1, <2>3, <1>5 DEF WaitsInv
    <3>3. /\ wb'[v].life # "none" /\ wb'[v].move \in Unlocked
          /\ wb[v].life = "gone" => wb'[v].life = "gone"
      BY <3>2, <2>1, <2>3, <1>2 DEF Onward, Unlocked
    <3>4. Launch!Holding(v) \subseteq settled' \cup Launch!Holding(v)'
      BY <2>1, <2>3, <1>6 DEF Onward
    <3>. QED
      BY <3>1, <3>2, <3>3, <3>4, <1>9 DEF WaitsInv
  <2>. QED
    BY <2>2, <2>3 DEF WaitsInv
<1>13. ASSUME NEW u \in Workbenches, wb'[u].life \in {"starting", "serving"} PROVE Awaited(u)'
  <2>1. Awaited(u)
    BY <1>13, <1>2, <1>5 DEF Onward
  <2>2. \A v \in Workbenches : wb[v].move = "waits" => wb'[v].move = "waits" /\ wb'[v].child = wb[v].child
    BY <1>2 DEF Onward
  <2>. QED
    BY <2>1, <2>2 DEF Awaited
<1>14. ASSUME NEW i \in Invocations PROVE CallInv(i)'
  <2>1. CallInv(i) /\ line'[i] = line[i]
    BY DEF LaunchInv
  <2>2. line[i].pc = "launch" => \A u \in Workbenches : ~Launch!Alive(u)'
    BY <2>1, <1>6 DEF CallInv
  <2>3. ASSUME line[i].pc = "wait"
        PROVE  /\ line[i].at \in Workbenches /\ wb'[line[i].at].life # "none"
               /\ wb'[line[i].at].move \in Unlocked
               /\ \A u \in Workbenches : Launch!Alive(u)' => u = line[i].at
               /\ Promised' \subseteq settled'
               /\ line[i].ticket # NoOne =>
                    \/ line[i].ticket \in settled' \cup Launch!Holding(line[i].at)'
                    \/ wb'[line[i].at].life = "gone"
    <3>1. line[i].at = w
      BY <2>1, <2>3, <1>6 DEF CallInv
    <3>2. /\ wb[w].move \in Unlocked /\ Promised \subseteq settled
          /\ \A u \in Workbenches : Launch!Alive(u) => u = w
          /\ line[i].ticket # NoOne => line[i].ticket \in settled \cup HoldingOf(r)
      BY <3>1, <2>1, <2>3, <1>6 DEF CallInv, Onward
    <3>3. q.move \in Unlocked /\ q.life # "none"
      BY <3>2 DEF Onward, Unlocked
    <3>. QED
      BY <3>1, <3>2, <3>3, <1>2, <1>6, <1>9 DEF Onward
  <2>4. ASSUME line[i].pc = "offer" \/ offer'[i] # "none"
        PROVE  /\ line[i].at \in Workbenches /\ wb'[line[i].at].life \notin Early /\ line[i].ticket \in Tickets
    <3>1. line[i].at \in Workbenches /\ wb[line[i].at].life \notin Early /\ line[i].ticket \in Tickets
      BY <2>1, <2>4 DEF CallInv, AnswersFor
    <3>. QED
      BY <3>1, <1>2 DEF Onward, Early
  <2>5. ASSUME line[i].pc = "offer"
        PROVE  wb'[line[i].at].move \in Unlocked /\ (offer'[i] = "accepted" => Kept(line[i].ticket)')
    <3>1. wb[line[i].at].move \in Unlocked /\ (offer[i] = "accepted" => Kept(line[i].ticket))
      BY <2>1, <2>5 DEF CallInv
    <3>2. wb'[line[i].at].move \in Unlocked
      BY <3>1, <2>4, <2>5, <1>2 DEF Onward, Unlocked
    <3>3. CASE offer'[i] = offer[i]
      BY <3>1, <3>2, <3>3, <2>4, <2>5, <1>8
    <3>4. CASE offer'[i] # offer[i] /\ offer'[i] = "accepted"
      <4>1. line[i].at = w /\ line[i].ticket \in settled' \cup HoldingOf(q)
        BY <3>4 DEF AnswersFor
      <4>2. q.move # "handed"
        BY <4>1, <3>2, <1>2 DEF Unlocked
      <4>3. line[i].ticket \in settled' \/ (Good(w)' /\ line[i].ticket \in Launch!Holding(w)')
        BY <4>1, <4>2, <1>6 DEF Onward
      <4>. QED
        BY <3>2, <4>3 DEF Kept
    <3>. QED
      BY <3>2, <3>3, <3>4
  <2>6. offer'[i] # "none" => line[i].pc \in {"offer", "ok", "failed"}
    BY <2>1 DEF CallInv, AnswersFor
  <2>. QED
    BY <2>1, <2>2, <2>3, <2>4, <2>5, <2>6 DEF CallInv
<1>15. Launch!OneWorkbench'
  <2>1. \A u, v \in Workbenches :
          u # v /\ Launch!Alive(u) /\ Launch!Alive(v) =>
            \/ wb[u].move = "handed" \/ wb[v].move = "handed"
            \/ wb[u].move = "waits" /\ wb[u].child = v
            \/ wb[v].move = "waits" /\ wb[v].child = u
    BY DEF LaunchInv, Launch!OneWorkbench, wb
  <2>2. \A u \in Workbenches : Launch!Alive(u)' => Launch!Alive(u)
    BY <1>6
  <2>3. \A u \in Workbenches : /\ wb[u].move = "handed" => wb'[u].move = "handed"
                               /\ wb[u].move = "waits" => wb'[u].move = "waits" /\ wb'[u].child = wb[u].child
    BY <1>2 DEF Onward
  <2>. QED
    BY <2>1, <2>2, <2>3 DEF Launch!OneWorkbench, wb
<1>. QED
  BY <1>3, <1>4, <1>9, <1>10, <1>11, <1>12, <1>13, <1>14, <1>15 DEF LaunchInv

\* A step of a command line, from c to d, with the lock, in no workbench.
LEMMA CallStep ==
    ASSUME Launch!NamesAssumption, LaunchInv, NEW i \in Invocations, NEW c, c = line[i],
           NEW d \in Lines, d.ticket = c.ticket, NEW o \in Steps,
           line' = [line EXCEPT ![i] = d], offer' = [offer EXCEPT ![i] = o],
           UNCHANGED <<wb, v6, made, settled>>,
           \/ lock' = i /\ lock \in {i, NoOne} /\ d.pc \in Holders
           \/ lock = i /\ lock' = NoOne /\ d.pc \notin Holders,
           \/ descriptor' = descriptor
           \/ descriptor' = NoOne /\ \A w \in Workbenches : wb[w].life = "up" => descriptor # w,
           c.pc = "wait" => wb[c.at].life \notin {"starting", "serving"},
           c.pc = "ok" => d.pc = "ok", d.pc = "ok" /\ c.ticket # NoOne => Kept(c.ticket),
           d.pc # "wait", o # "none" => d.pc \in {"offer", "ok", "failed"},
           d.pc = "launch" => \A w \in Workbenches : ~Launch!Alive(w),
           d.pc = "offer" => /\ d.at \in Workbenches /\ wb[d.at].move \in Unlocked
                             /\ o = "accepted" => Kept(d.ticket),
           d.pc = "offer" \/ o # "none" =>
               d.at \in Workbenches /\ wb[d.at].life \notin Early /\ d.ticket \in Tickets
    PROVE  LaunchInv'
<1>1. LaunchTyped
  BY DEF LaunchInv
<1>2. /\ \A j \in Invocations : line'[j] = IF j = i THEN d ELSE line[j]
      /\ \A j \in Invocations : offer'[j] = IF j = i THEN o ELSE offer[j]
  BY <1>1 DEF LaunchTyped
<1>. HIDE DEF lock, descriptor, line, offer, wb, made, settled
<1>3. lock \in {i, NoOne}
  OBVIOUS
<1>4. /\ \A j \in Invocations \ {i} : line[j].pc \notin Holders
      /\ \A w \in Workbenches : wb[w].move \notin Locked
  BY <1>3 DEF LaunchInv, LockInv, Launch!NamesAssumption
<1>5. LaunchTyped'
  <2>1. line' \in [Invocations -> Lines] /\ offer' \in [Invocations -> Steps]
    BY <1>1 DEF LaunchTyped
  <2>2. descriptor' \in Workbenches \cup {NoOne} /\ lock' \in Invocations \cup {NoOne}
    BY <1>1 DEF LaunchTyped
  <2>. QED
    BY <2>1, <2>2, <1>1 DEF LaunchTyped
<1>6. LockInv'
  <2>1. lock' \in {i, NoOne} /\ (lock' = i <=> d.pc \in Holders)
    BY DEF Launch!NamesAssumption
  <2>. QED
    BY <2>1, <1>2, <1>4 DEF LockInv, Launch!NamesAssumption
<1>7. /\ \A w \in Workbenches : /\ Launch!Holding(w)' = Launch!Holding(w)
                                /\ (Good(w)' <=> Good(w)) /\ (Launch!Alive(w)' <=> Launch!Alive(w))
      /\ \A t : Kept(t)' <=> Kept(t)
  BY DEF Launch!Holding, Good, Launch!Alive, Kept, wb
<1>8. \A w \in Workbenches : Placed(w)'
  BY <1>7 DEF LaunchInv, Placed, Sound, Launch!NamesAssumption
<1>9. \A w \in Workbenches : WaitsInv(w)'
  BY <1>4 DEF WaitsInv, Locked
<1>10. ASSUME NEW w \in Workbenches, wb'[w].life \in {"starting", "serving"} PROVE Awaited(w)'
  <2>1. Awaited(w)
    BY <1>10 DEF LaunchInv
  <2>2. \A v \in Workbenches : wb[v].move # "waits"
    BY <1>4 DEF Locked
  <2>3. PICK j \in Invocations : line[j].pc = "wait" /\ line[j].at = w
    BY <2>1, <2>2 DEF Awaited
  <2>. QED
    BY <2>3, <1>4, <1>10 DEF Holders
<1>11. \A t \in Promised' : Kept(t)'
  <2>1. ASSUME NEW t \in Promised' PROVE Kept(t)
    <3>1. PICK j \in Invocations : line'[j].pc = "ok" /\ t = line'[j].ticket /\ t \in Tickets
      BY <2>1 DEF Promised
    <3>2. CASE j = i
      BY <3>1, <3>2, <1>2 DEF Launch!NamesAssumption
    <3>3. CASE j # i
      <4>1. t \in Promised
        BY <3>1, <3>3, <1>2 DEF Promised
      <4>. QED
        BY <4>1 DEF LaunchInv
    <3>. QED
      BY <3>2, <3>3
  <2>. QED
    BY <2>1, <1>7
<1>12. ASSUME NEW j \in Invocations PROVE CallInv(j)'
  <2>1. CASE j = i
    BY <2>1, <1>2, <1>7 DEF CallInv
  <2>2. CASE j # i
    <3>1. line'[j] = line[j] /\ offer'[j] = offer[j] /\ CallInv(j) /\ line[j].pc \notin Holders
      BY <2>2, <1>2, <1>4 DEF LaunchInv
    <3>. QED
      BY <3>1 DEF CallInv, Holders
  <2>. QED
    BY <2>1, <2>2
<1>13. Launch!OneWorkbench'
  BY <1>7 DEF LaunchInv, Launch!OneWorkbench, wb
<1>. QED
  BY <1>5, <1>6, <1>8, <1>9, <1>10, <1>11, <1>12, <1>13 DEF LaunchInv

LEMMA BlankIs ==
    LET b == Launch!Blank
    IN  /\ b \in Records /\ b.life = "none" /\ b.move = "no" /\ b.child = NoOne
        /\ b.seed = NoOne /\ b.pending = NoOne /\ b.draft = NoOne
  BY DEF Launch!Blank, Records, Early, Unlocked

\* A workbench ends, and what was promised of its tickets is settled or with another.
LEMMA Death ==
    ASSUME Launch!NamesAssumption, LaunchInv, NEW w \in Workbenches, Launch!Alive(w), wb[w].move # "waits",
           wb' = [wb EXCEPT ![w] = Launch!Gone],
           LockInv', lock' \in {lock, NoOne}, UNCHANGED <<descriptor, offer, v6, made>>,
           line' \in [Invocations -> Lines],
           \A i \in Invocations : \/ line'[i] = line[i]
                                  \/ /\ line[i].pc = "wait" /\ line[i].at = w
                                     /\ line'[i] = [line[i] EXCEPT !.pc = "failed"],
           settled \subseteq settled', settled' \subseteq Tickets,
           \A t \in Tickets :
              \/ t \in Promised
              \/ \E i \in Invocations : line[i].pc = "offer" /\ offer[i] = "accepted" /\ t = line[i].ticket
              => \/ t \in settled'
                 \/ \E u \in Workbenches \ {w} : Good(u) /\ t \in Launch!Holding(u)
    PROVE  LaunchInv'
<1>1. LaunchTyped
  BY DEF LaunchInv
<1>2. \A u \in Workbenches : wb'[u] = IF u = w THEN Launch!Gone ELSE wb[u]
  BY <1>1 DEF LaunchTyped
<1>. HIDE DEF lock, descriptor, line, offer, wb, made, settled
<1>. DEFINE gone == Launch!Gone
<1>3. /\ gone \in Records /\ Sound(w, gone) /\ gone.life = "gone" /\ gone.move = "no"
      /\ HoldingOf(gone) = {}
  <2>1. /\ gone \in Records /\ gone.life = "gone" /\ gone.move = "no"
        /\ gone.seed = NoOne /\ gone.pending = NoOne /\ gone.draft = NoOne
    BY BlankIs DEF Launch!Gone, Records
  <2>2. HoldingOf(gone) = {}
    BY <2>1 DEF HoldingOf, Launch!NamesAssumption
  <2>3. Sound(w, gone)
    BY <2>1 DEF Sound, Locked, Unlocked
  <2>. QED
    BY <2>1, <2>2, <2>3
<1>. HIDE DEF gone
<1>4. LaunchTyped'
  <2>1. wb' \in [Workbenches -> Records]
    BY <1>1, <1>3 DEF LaunchTyped, gone
  <2>. QED
    BY <2>1, <1>1 DEF LaunchTyped
<1>5. /\ \A u \in Workbenches \ {w} : /\ Launch!Holding(u)' = Launch!Holding(u)
                                      /\ (Good(u)' <=> Good(u)) /\ (Launch!Alive(u)' <=> Launch!Alive(u))
      /\ ~Launch!Alive(w)' /\ wb'[w] = gone
  BY <1>2, <1>3 DEF Launch!Alive, Launch!Holding, Good, wb, gone
<1>6. \A u \in Workbenches : Placed(u) /\ WaitsInv(u) /\ (wb[u].life \in {"starting", "serving"} => Awaited(u))
  BY DEF LaunchInv
<1>7. Promised' = Promised /\ Promised \subseteq Tickets
  <2>1. \A i \in Invocations : line'[i].ticket = line[i].ticket /\ (line'[i].pc = "ok" <=> line[i].pc = "ok")
    BY <1>1 DEF LaunchTyped, Lines
  <2>. QED
    BY <2>1 DEF Promised
<1>8. ASSUME NEW t \in Tickets,
             \/ t \in settled'
             \/ \E u \in Workbenches \ {w} : Good(u) /\ t \in Launch!Holding(u)
      PROVE  Kept(t)'
  BY <1>8, <1>5 DEF Kept
<1>9. \A t \in Promised : Kept(t)'
  BY <1>7, <1>8
<1>10. ASSUME NEW u \in Workbenches PROVE Placed(u)'
  <2>1. CASE u = w
    BY <2>1, <1>3, <1>5 DEF Placed, Early
  <2>2. CASE u # w
    BY <2>2, <1>2, <1>5, <1>6 DEF Placed
  <2>. QED
    BY <2>1, <2>2
<1>11. ASSUME NEW u \in Workbenches PROVE WaitsInv(u)'
  <2>. SUFFICES ASSUME wb'[u].move = "waits" PROVE WaitsInv(u)'
    BY DEF WaitsInv
  <2>. PICK v : v = wb[u].child
    OBVIOUS
  <2>1. u # w /\ wb'[u] = wb[u] /\ wb[u].move = "waits" /\ v \in Workbenches \ {u}
    BY <1>2, <1>3, <1>6 DEF Placed, Sound, gone
  <2>2. /\ wb[v].life # "none" /\ wb[v].move \in Unlocked
        /\ Promised \subseteq settled \cup Launch!Holding(u)
        /\ wb[u].carries /\ wb[u].pending \in Promised =>
              wb[u].pending \in settled \cup Launch!Holding(v) \/ wb[v].life = "gone"
    BY <2>1, <1>6 DEF WaitsInv
  <2>3. wb'[v].life # "none" /\ wb'[v].move \in Unlocked
    BY <2>1, <2>2, <1>2, <1>3 DEF Unlocked, gone
  <2>4. wb'[v].life = "gone" \/ (v # w /\ Launch!Holding(v)' = Launch!Holding(v) /\ wb'[v] = wb[v])
    BY <2>1, <1>2, <1>3, <1>5 DEF gone
  <2>5. Launch!Holding(u)' = Launch!Holding(u)
    BY <2>1, <1>5
  <2>. QED
    BY <2>1, <2>2, <2>3, <2>4, <2>5, <1>7 DEF WaitsInv
<1>12. ASSUME NEW u \in Workbenches, wb'[u].life \in {"starting", "serving"} PROVE Awaited(u)'
  <2>1. u # w /\ Awaited(u)
    BY <1>12, <1>2, <1>3, <1>6 DEF gone
  <2>2. ASSUME NEW i \in Invocations, line[i].pc = "wait", line[i].at = u PROVE Awaited(u)'
    BY <2>1, <2>2 DEF Awaited
  <2>3. ASSUME NEW v \in Workbenches, wb[v].move = "waits", wb[v].child = u PROVE Awaited(u)'
    BY <2>3, <1>2 DEF Awaited
  <2>. QED
    BY <2>1, <2>2, <2>3 DEF Awaited
<1>13. ASSUME NEW i \in Invocations PROVE CallInv(i)'
  <2>. PICK v : v = line[i].at
    OBVIOUS
  <2>1. CallInv(i)
    BY DEF LaunchInv
  <2>2. \A u \in Workbenches : Launch!Alive(u)' => Launch!Alive(u)
    BY <1>5
  <2>3. \A u \in Workbenches : /\ wb'[u].life = wb[u].life \/ wb'[u].life = "gone"
                               /\ wb'[u].move = wb[u].move \/ wb'[u].move = "no"
    BY <1>2, <1>3 DEF gone
  <2>4. line'[i].ticket = line[i].ticket /\ line'[i].at = line[i].at
        /\ (line'[i].pc = line[i].pc \/ line'[i].pc = "failed")
    BY <1>1 DEF LaunchTyped, Lines
  <2>5. ASSUME line'[i].pc = "wait"
        PROVE  /\ v \in Workbenches /\ wb'[v].life # "none" /\ wb'[v].move \in Unlocked
               /\ \A u \in Workbenches : Launch!Alive(u)' => u = v
               /\ Promised' \subseteq settled'
               /\ line[i].ticket # NoOne =>
                    line[i].ticket \in settled' \cup Launch!Holding(v)' \/ wb'[v].life = "gone"
    <3>1. line[i].pc = "wait"
      BY <2>4, <2>5
    <3>2. /\ v \in Workbenches /\ wb[v].life # "none" /\ wb[v].move \in Unlocked
          /\ \A u \in Workbenches : Launch!Alive(u) => u = v
          /\ Promised \subseteq settled
          /\ line[i].ticket # NoOne =>
                line[i].ticket \in settled \cup Launch!Holding(v) \/ wb[v].life = "gone"
      BY <3>1, <2>1 DEF CallInv
    <3>3. v = w /\ wb'[v].life = "gone"
      BY <3>2, <1>3, <1>5
    <3>. QED
      BY <3>2, <3>3, <2>2, <2>3, <1>7 DEF Unlocked
  <2>6. line'[i].pc = "offer" \/ offer'[i] # "none" =>
          /\ v \in Workbenches /\ wb'[v].life \notin Early /\ line[i].ticket \in Tickets
    <3>1. line'[i].pc = "offer" => line[i].pc = "offer"
      BY <2>4
    <3>. QED
      BY <3>1, <2>1, <2>3 DEF CallInv, Early
  <2>7. ASSUME line'[i].pc = "offer"
        PROVE  wb'[v].move \in Unlocked /\ (offer'[i] = "accepted" => Kept(line[i].ticket)')
    <3>1. line[i].pc = "offer"
      BY <2>4, <2>7
    <3>2. wb[v].move \in Unlocked /\ v \in Workbenches /\ line[i].ticket \in Tickets
      BY <3>1, <2>1 DEF CallInv
    <3>. QED
      BY <3>1, <3>2, <2>3, <1>8 DEF Unlocked
  <2>8. line'[i].pc = "launch" => \A u \in Workbenches : ~Launch!Alive(u)'
    BY <2>1, <2>2, <2>4 DEF CallInv
  <2>9. offer'[i] # "none" => line'[i].pc \in {"offer", "ok", "failed"}
    BY <2>1, <2>4 DEF CallInv
  <2>. QED
    BY <2>4, <2>5, <2>6, <2>7, <2>8, <2>9 DEF CallInv
<1>14. Launch!OneWorkbench'
  <2>1. \A u, v \in Workbenches :
          u # v /\ Launch!Alive(u) /\ Launch!Alive(v) =>
            \/ wb[u].move = "handed" \/ wb[v].move = "handed"
            \/ wb[u].move = "waits" /\ wb[u].child = v
            \/ wb[v].move = "waits" /\ wb[v].child = u
    BY DEF LaunchInv, Launch!OneWorkbench, wb
  <2>. QED
    BY <2>1, <1>2, <1>5 DEF Launch!OneWorkbench, wb
<1>. QED
  BY <1>4, <1>7, <1>9, <1>10, <1>11, <1>12, <1>13, <1>14 DEF LaunchInv

LEMMA StartingIs ==
    ASSUME NEW seed \in Tickets \cup {NoOne}, NEW gate \in BOOLEAN, NEW w, Launch!NamesAssumption
    PROVE  LET s == Launch!Starting(seed, gate)
           IN  /\ s \in Records /\ s.life = "starting" /\ s.move = "no" /\ s.child = NoOne
               /\ s.seed = seed /\ s.pending = NoOne /\ s.draft = NoOne
               /\ Sound(w, s) /\ HoldingOf(s) = {seed} \cap Tickets
<1>. DEFINE s == Launch!Starting(seed, gate)
<1>1. /\ s \in Records /\ s.life = "starting" /\ s.move = "no" /\ s.child = NoOne
      /\ s.seed = seed /\ s.pending = NoOne /\ s.draft = NoOne
  BY BlankIs DEF Launch!Starting, Records, Early
<1>. HIDE DEF s
<1>2. Sound(w, s)
  BY <1>1 DEF Sound, Locked
<1>3. HoldingOf(s) = {seed} \cap Tickets
  BY <1>1 DEF HoldingOf, Launch!NamesAssumption
<1>. QED
  BY <1>1, <1>2, <1>3 DEF s

\* A workbench is started under the lock, where there is none but the one that starts it.
LEMMA DetachSound ==
    ASSUME Launch!NamesAssumption, LaunchInv, NEW i \in Invocations, Launch!Detach(i)
    PROVE  LaunchInv'
<1>. DEFINE c == line[i]
<1>1. LaunchTyped
  BY DEF LaunchInv
<1>2. PICK w \in Launch!Fresh, gate \in BOOLEAN :
         /\ wb' = [wb EXCEPT ![w] = Launch!Starting(c.ticket, gate)]
         /\ line' = [line EXCEPT ![i].pc = "wait", ![i].at = w]
  BY <1>1 DEF Launch!Detach, LaunchTyped
<1>3. c.pc = "launch" /\ UNCHANGED <<lock, descriptor, offer, v6, made, settled>>
  BY DEF Launch!Detach
<1>. HIDE DEF lock, descriptor, line, offer, wb, made, settled
<1>4. w \in Workbenches /\ wb[w].life = "none"
  BY DEF Launch!Fresh, wb
<1>. DEFINE s == Launch!Starting(c.ticket, gate)
            d == [c EXCEPT !.pc = "wait", !.at = w]
<1>5. c \in Lines /\ c.ticket \in Tickets \cup {NoOne}
  BY <1>1 DEF LaunchTyped, Lines
<1>6. /\ s \in Records /\ s.life = "starting" /\ s.move = "no" /\ s.child = NoOne
      /\ Sound(w, s) /\ HoldingOf(s) = {c.ticket} \cap Tickets
  BY <1>5, StartingIs
<1>7. d \in Lines /\ d.pc = "wait" /\ d.at = w /\ d.ticket = c.ticket
  BY <1>4, <1>5 DEF Lines, Holders
<1>8. /\ line' = [line EXCEPT ![i] = d] /\ \A j \in Invocations : line'[j] = IF j = i THEN d ELSE line[j]
      /\ wb' = [wb EXCEPT ![w] = s] /\ \A u \in Workbenches : wb'[u] = IF u = w THEN s ELSE wb[u]
  BY <1>1, <1>2, <1>4 DEF LaunchTyped
<1>. HIDE DEF c, d, s
<1>9. CallInv(i) /\ \A u \in Workbenches : ~Launch!Alive(u)
  BY <1>3 DEF LaunchInv, CallInv, c
<1>10. \A u \in Workbenches : wb[u].life \in {"none", "gone"}
  BY <1>9 DEF Launch!Alive, wb
<1>11. \A u \in Workbenches : Placed(u)
  BY DEF LaunchInv
<1>12. \A j \in Invocations \ {i} : line[j].pc \notin Holders
  BY <1>3, HeldByOne DEF c, Holders
<1>13. \A u \in Workbenches \ {w} : /\ Launch!Holding(u)' = Launch!Holding(u)
                                    /\ (Launch!Alive(u)' <=> Launch!Alive(u))
  BY <1>8 DEF Launch!Holding, Launch!Alive, wb
<1>14. Launch!Alive(w)' /\ Launch!Holding(w)' = {c.ticket} \cap Tickets
  BY <1>4, <1>6, <1>8 DEF Launch!Holding, HoldingOf, Launch!Alive, wb
<1>15. Promised' = Promised
  <2>1. \A j \in Invocations : line'[j].ticket = line[j].ticket /\ (line'[j].pc = "ok" <=> line[j].pc = "ok")
    BY <1>3, <1>7, <1>8 DEF c
  <2>. QED
    BY <2>1 DEF Promised
<1>16. Promised \subseteq settled
  BY <1>9 DEF LaunchInv, Kept, Good
<1>17. LaunchTyped'
  BY <1>1, <1>3, <1>4, <1>6, <1>7, <1>8 DEF LaunchTyped
<1>18. LockInv'
  BY <1>3, <1>4, <1>6, <1>7, <1>8, BlankIs, <1>11 DEF LaunchInv, LockInv, c, Holders, Locked, Placed, Sound
<1>19. ASSUME NEW u \in Workbenches PROVE Placed(u)' /\ WaitsInv(u)'
  <2>1. CASE u = w
    BY <2>1, <1>3, <1>4, <1>6, <1>8, <1>11 DEF Placed, WaitsInv, Early
  <2>2. CASE u # w
    <3>1. wb'[u] = wb[u] /\ wb[u].move # "waits"
      BY <2>2, <1>8, <1>10, <1>11 DEF Placed, Sound, Late
    <3>. QED
      BY <3>1, <2>2, <1>3, <1>11, <1>13 DEF Placed, WaitsInv
  <2>. QED
    BY <2>1, <2>2
<1>20. ASSUME NEW u \in Workbenches, wb'[u].life \in {"starting", "serving"} PROVE Awaited(u)'
  <2>1. u = w
    BY <1>20, <1>8, <1>10
  <2>. QED
    BY <2>1, <1>7, <1>8 DEF Awaited
<1>21. ASSUME NEW j \in Invocations PROVE CallInv(j)'
  <2>1. CASE j = i
    <3>1. c.ticket # NoOne => c.ticket \in Launch!Holding(w)'
      BY <1>5, <1>14
    <3>2. \A u \in Workbenches : Launch!Alive(u)' => u = w
      BY <1>9, <1>13
    <3>3. offer[i] = "none"
      BY <1>3, <1>9 DEF CallInv, c
    <3>. QED
      BY <2>1, <3>1, <3>2, <3>3, <1>3, <1>4, <1>6, <1>7, <1>8, <1>15, <1>16 DEF CallInv, Unlocked
  <2>2. CASE j # i
    <3>1. line'[j] = line[j] /\ CallInv(j) /\ line[j].pc \notin Holders /\ offer'[j] = offer[j]
      BY <2>2, <1>3, <1>8, <1>12 DEF LaunchInv
    <3>2. offer[j] # "none" => line[j].at \in Workbenches \ {w} /\ wb[line[j].at].life \notin Early /\ line[j].ticket \in Tickets
      BY <3>1, <1>4 DEF CallInv, Early
    <3>3. offer[j] # "none" => wb'[line[j].at].life \notin Early
      BY <3>2, <1>8
    <3>. QED
      BY <3>1, <3>2, <3>3 DEF CallInv, Holders
  <2>. QED
    BY <2>1, <2>2
<1>22. Launch!OneWorkbench'
  BY <1>9, <1>13 DEF Launch!OneWorkbench
<1>23. \A t \in Promised : Kept(t)'
  BY <1>3, <1>16 DEF Kept
<1>. QED
  BY <1>15, <1>17, <1>18, <1>19, <1>20, <1>21, <1>22, <1>23 DEF LaunchInv

\* What a workbench that holds the lock may rely on.
LEMMA UnderTheLock ==
    ASSUME Launch!NamesAssumption, LaunchInv, NEW w \in Workbenches, wb[w].move \in Locked
    PROVE  /\ lock = w /\ wb[w].life = "up"
           /\ \A i \in Invocations : line[i].pc \notin Holders
           /\ \A u \in Workbenches \ {w} : wb[u].move \notin Locked
           /\ \A u \in Workbenches \ {w} : Launch!Alive(u) =>
                 wb[u].move = "handed" \/ (wb[w].move = "waits" /\ wb[w].child = u)
           /\ \A t \in Promised : \/ t \in settled \cup Launch!Holding(w)
                                  \/ wb[w].move = "waits" /\ t \in Launch!Holding(wb[w].child)
<1>. HIDE DEF lock, descriptor, line, offer, wb, made, settled
<1>1. lock = w /\ wb[w].life = "up"
  BY DEF LaunchInv, LockInv, Placed, Sound
<1>2. \A i \in Invocations : line[i].pc \notin Holders
  BY HeldByOne
<1>3. \A u \in Workbenches \ {w} : wb[u].move \notin Locked
  BY HeldByOne
<1>4. ASSUME NEW u \in Workbenches \ {w}, Launch!Alive(u)
      PROVE  wb[u].move = "handed" \/ (wb[w].move = "waits" /\ wb[w].child = u)
  <2>1. Launch!Alive(w)
    BY <1>1 DEF Launch!Alive, wb
  <2>2. \/ wb[u].move = "handed" \/ wb[w].move = "handed"
        \/ wb[u].move = "waits" /\ wb[u].child = w
        \/ wb[w].move = "waits" /\ wb[w].child = u
    BY <2>1, <1>4 DEF LaunchInv, Launch!OneWorkbench, wb
  <2>. QED
    BY <2>2, <1>3 DEF Locked
<1>5. \A t \in Promised : Kept(t)
  BY DEF LaunchInv
<1>6. \A u \in Workbenches : Good(u) => u = w \/ (wb[w].move = "waits" /\ wb[w].child = u)
  BY <1>4 DEF Good
<1>7. \A t \in Promised : \/ t \in settled \cup Launch!Holding(w)
                          \/ wb[w].move = "waits" /\ t \in Launch!Holding(wb[w].child)
  BY <1>5, <1>6 DEF Kept
<1>. QED
  BY <1>1, <1>2, <1>3, <1>4, <1>7

\* The lock goes to a workbench that asks for it.
LEMMA LockRelaunchSound ==
    ASSUME Launch!NamesAssumption, LaunchInv, NEW w \in Workbenches, Launch!LockRelaunch(w)
    PROVE  LaunchInv'
<1>1. LaunchTyped /\ \A u \in Workbenches : Placed(u)
  BY DEF LaunchInv
<1>2. /\ wb[w].life = "up" /\ wb[w].move = "asks" /\ lock = NoOne /\ lock' = w
      /\ wb' = [wb EXCEPT ![w].move = "locked"]
      /\ UNCHANGED <<descriptor, line, offer, v6, made, settled>>
  BY DEF Launch!LockRelaunch
<1>. HIDE DEF lock, descriptor, line, offer, wb, made, settled
<1>. DEFINE q == [wb[w] EXCEPT !.move = "locked"]
<1>3. /\ q \in Records /\ q.move = "locked" /\ q.life = "up" /\ q.seed = wb[w].seed
      /\ q.pending = wb[w].pending /\ q.draft = wb[w].draft /\ q.child = wb[w].child
  BY <1>1, <1>2 DEF LaunchTyped, Records, Locked
<1>4. wb' = [wb EXCEPT ![w] = q] /\ \A u \in Workbenches : wb'[u] = IF u = w THEN q ELSE wb[u]
  BY <1>1, <1>2 DEF LaunchTyped
<1>. HIDE DEF q
<1>5. /\ \A i \in Invocations : line[i].pc \notin Holders
      /\ \A u \in Workbenches : wb[u].move \notin Locked
  BY <1>2, HeldByOne
<1>6. Sound(w, q)
  BY <1>1, <1>2, <1>3 DEF Placed, Sound, Late, Locked
<1>7. /\ \A u \in Workbenches : /\ Launch!Holding(u)' = Launch!Holding(u)
                                /\ (Good(u)' <=> Good(u)) /\ (Launch!Alive(u)' <=> Launch!Alive(u))
      /\ \A t : Kept(t) => Kept(t)'
  <2>1. \A u \in Workbenches : /\ Launch!Holding(u)' = Launch!Holding(u)
                               /\ (Good(u)' <=> Good(u)) /\ (Launch!Alive(u)' <=> Launch!Alive(u))
    BY <1>2, <1>3, <1>4 DEF Launch!Holding, Good, Launch!Alive, wb
  <2>. QED
    BY <2>1, <1>2 DEF Kept
<1>8. LaunchTyped' /\ LockInv'
  BY <1>1, <1>2, <1>3, <1>4, <1>5 DEF LaunchTyped, LockInv, Locked, Launch!NamesAssumption
<1>9. \A u \in Workbenches : Placed(u)'
  BY <1>1, <1>2, <1>3, <1>4, <1>6, <1>7 DEF Placed
<1>10. \A u \in Workbenches : wb'[u].move # "waits" /\ wb[u].move # "waits"
  BY <1>3, <1>4, <1>5 DEF Locked
<1>11. \A u \in Workbenches : wb[u].life \notin {"starting", "serving"}
  BY <1>5, <1>10 DEF LaunchInv, Awaited, Holders
<1>12. \A i \in Invocations : CallInv(i)'
  BY <1>2, <1>3, <1>4, <1>5 DEF LaunchInv, CallInv, Holders
<1>13. Launch!OneWorkbench'
  <2>1. \A u, v \in Workbenches : u # v /\ Launch!Alive(u) /\ Launch!Alive(v) =>
                                     wb[u].move = "handed" \/ wb[v].move = "handed"
    BY <1>10 DEF LaunchInv, Launch!OneWorkbench, wb
  <2>. QED
    BY <2>1, <1>2, <1>4, <1>7 DEF Launch!OneWorkbench, wb
<1>14. \A t \in Promised' : Kept(t)'
  BY <1>2, <1>7 DEF LaunchInv, Promised
<1>. QED
  BY <1>3, <1>4, <1>8, <1>9, <1>10, <1>11, <1>12, <1>13, <1>14 DEF LaunchInv, WaitsInv

\* A successor is started with the ticket there is to carry.
LEMMA RelaunchSound ==
    ASSUME Launch!NamesAssumption, LaunchInv, NEW w \in Workbenches, Launch!Relaunch(w)
    PROVE  LaunchInv'
<1>1. LaunchTyped /\ \A u \in Workbenches : Placed(u)
  BY DEF LaunchInv
<1>2. wb[w].move = "locked" /\ lock = w /\ UNCHANGED <<lock, descriptor, line, offer, v6, made, settled>>
  BY DEF Launch!Relaunch
<1>. DEFINE seed == IF wb[w].carries THEN wb[w].pending ELSE NoOne
            s == Launch!Starting(seed, ~v6)
<1>3. PICK v \in Launch!Fresh : wb' = [wb EXCEPT ![w].move = "waits", ![w].child = v, ![v] = s]
  BY DEF Launch!Relaunch
<1>. HIDE DEF lock, descriptor, line, offer, wb, made, settled
<1>4. v \in Workbenches /\ wb[v].life = "none"
  BY DEF Launch!Fresh, wb
<1>5. seed \in Tickets \cup {NoOne} /\ (~v6) \in BOOLEAN
  <2>1. wb[w].pending \in Tickets \cup {NoOne}
    BY <1>1 DEF LaunchTyped, Records
  <2>2. (~v6) \in BOOLEAN
    OBVIOUS
  <2>. QED
    BY <2>1, <2>2
<1>6. /\ s \in Records /\ s.life = "starting" /\ s.move = "no" /\ s.child = NoOne
      /\ Sound(v, s) /\ HoldingOf(s) = {seed} \cap Tickets
  <2>. HIDE DEF seed
  <2>. QED
    BY <1>5, StartingIs
<1>. HIDE DEF s
<1>7. /\ wb[w].life = "up"
      /\ \A i \in Invocations : line[i].pc \notin Holders
      /\ \A u \in Workbenches \ {w} : wb[u].move \notin Locked
      /\ \A u \in Workbenches \ {w} : Launch!Alive(u) => wb[u].move = "handed"
      /\ Promised \subseteq settled \cup Launch!Holding(w)
  BY <1>2, UnderTheLock DEF Locked
<1>. DEFINE q == [wb[w] EXCEPT !.move = "waits", !.child = v]
<1>8. /\ q \in Records /\ q.move = "waits" /\ q.life = "up" /\ q.seed = wb[w].seed /\ q.carries = wb[w].carries
      /\ q.pending = wb[w].pending /\ q.draft = wb[w].draft /\ q.child = v
  BY <1>1, <1>4, <1>7 DEF LaunchTyped, Records, Locked
<1>9. v # w
  BY <1>4, <1>7
<1>10. \A u \in Workbenches : wb'[u] = IF u = w THEN q ELSE IF u = v THEN s ELSE wb[u]
  BY <1>1, <1>3, <1>9 DEF LaunchTyped
<1>11. wb' \in [Workbenches -> Records]
  <2>1. wb' = [wb EXCEPT ![w] = q, ![v] = s]
    BY <1>1, <1>3, <1>9 DEF LaunchTyped
  <2>. QED
    BY <2>1, <1>1, <1>4, <1>6, <1>8 DEF LaunchTyped
<1>. HIDE DEF q
<1>12. Sound(w, q)
  BY <1>1, <1>4, <1>7, <1>8, <1>9 DEF Placed, Sound, Late, Locked
<1>13. /\ \A u \in Workbenches \ {v} : /\ Launch!Holding(u)' = Launch!Holding(u)
                                       /\ Good(u) => Good(u)'
                                       /\ (Launch!Alive(u)' <=> Launch!Alive(u))
       /\ ~Launch!Alive(v) /\ Launch!Alive(v)' /\ Launch!Holding(v)' = {seed} \cap Tickets
       /\ \A t : Kept(t) => Kept(t)'
  <2>1. \A u \in Workbenches \ {v} : /\ Launch!Holding(u)' = Launch!Holding(u)
                                     /\ Good(u) => Good(u)'
                                     /\ (Launch!Alive(u)' <=> Launch!Alive(u))
    BY <1>2, <1>7, <1>8, <1>10 DEF Launch!Holding, Good, Launch!Alive, wb
  <2>2. ~Launch!Alive(v) /\ Launch!Alive(v)' /\ Launch!Holding(v)' = {seed} \cap Tickets
    BY <1>4, <1>6, <1>9, <1>10 DEF Launch!Alive, Launch!Holding, HoldingOf, wb
  <2>3. \A u \in Workbenches : Good(u) => u # v
    BY <2>2 DEF Good
  <2>. QED
    BY <2>1, <2>2, <2>3, <1>2 DEF Kept
<1>14. LaunchTyped'
  BY <1>1, <1>2, <1>11 DEF LaunchTyped
<1>15. LockInv'
  BY <1>1, <1>2, <1>4, <1>6, <1>7, <1>8, <1>10 DEF LaunchInv, LockInv, Locked
<1>16. ASSUME NEW u \in Workbenches PROVE Placed(u)'
  <2>1. CASE u = w
    BY <2>1, <1>1, <1>2, <1>4, <1>8, <1>10, <1>12, <1>13 DEF Placed, Early, Launch!NamesAssumption
  <2>2. CASE u = v
    BY <2>2, <1>1, <1>2, <1>4, <1>6, <1>9, <1>10 DEF Placed, Early
  <2>3. CASE u # w /\ u # v
    BY <2>3, <1>1, <1>2, <1>10, <1>13 DEF Placed
  <2>. QED
    BY <2>1, <2>2, <2>3
<1>17. Promised' = Promised /\ Promised \subseteq Tickets
  BY <1>2 DEF Promised
<1>18. ASSUME NEW u \in Workbenches, wb'[u].move = "waits" PROVE WaitsInv(u)'
  <2>1. u = w
    BY <1>18, <1>6, <1>7, <1>10 DEF Locked
  <2>2. wb'[w].child = v /\ wb'[v].life # "none" /\ wb'[v].move \in Unlocked
    BY <1>6, <1>8, <1>9, <1>10, <1>4 DEF Unlocked
  <2>3. wb'[w].carries /\ wb'[w].pending \in Promised => wb'[w].pending \in Launch!Holding(v)'
    BY <1>8, <1>10, <1>13, <1>17
  <2>4. Promised' \subseteq settled' \cup Launch!Holding(w)'
    BY <1>2, <1>7, <1>9, <1>13, <1>17
  <2>. QED
    BY <2>1, <2>2, <2>3, <2>4, <1>17 DEF WaitsInv
<1>19. ASSUME NEW u \in Workbenches, wb'[u].life \in {"starting", "serving"} PROVE Awaited(u)'
  <2>1. CASE u = v
    BY <2>1, <1>8, <1>10 DEF Awaited
  <2>2. CASE u # v
    <3>1. u # w /\ wb[u].life \in {"starting", "serving"} /\ wb[w].move # "waits"
      BY <2>2, <1>19, <1>2, <1>8, <1>10
    <3>2. Awaited(u)
      BY <3>1 DEF LaunchInv
    <3>. QED
      BY <3>1, <3>2, <1>7 DEF Awaited, Holders, Locked
  <2>. QED
    BY <2>1, <2>2
<1>20. ASSUME NEW i \in Invocations PROVE CallInv(i)'
  <2>1. line'[i] = line[i] /\ CallInv(i) /\ line[i].pc \notin Holders /\ offer'[i] = offer[i]
    BY <1>2, <1>7 DEF LaunchInv
  <2>2. offer[i] # "none" => line[i].at \in Workbenches \ {v} /\ wb[line[i].at].life \notin Early
    BY <2>1, <1>4 DEF CallInv, Early
  <2>3. offer[i] # "none" => wb'[line[i].at].life \notin Early
    BY <2>2, <1>8, <1>10 DEF Early
  <2>. QED
    BY <2>1, <2>2, <2>3 DEF CallInv, Holders
<1>21. Launch!OneWorkbench'
  <2>1. \A u \in Workbenches \ {w, v} : Launch!Alive(u)' => wb'[u].move = "handed"
    BY <1>7, <1>10, <1>13
  <2>2. wb'[w].move = "waits" /\ wb'[w].child = v
    BY <1>8, <1>10
  <2>. QED
    BY <2>1, <2>2 DEF Launch!OneWorkbench, wb
<1>22. \A t \in Promised : Kept(t)'
  BY <1>13 DEF LaunchInv
<1>. QED
  BY <1>14, <1>15, <1>16, <1>17, <1>18, <1>19, <1>20, <1>21, <1>22 DEF LaunchInv, WaitsInv

\* The successor answers, and the workbench it replaces owes nothing any more.
LEMMA RelaunchedSound ==
    ASSUME Launch!NamesAssumption, LaunchInv, NEW w \in Workbenches, Launch!Relaunched(w)
    PROVE  LaunchInv'
<1>1. LaunchTyped /\ (\A u \in Workbenches : Placed(u) /\ WaitsInv(u))
  BY DEF LaunchInv
<1>. PICK v : v = wb[w].child
  OBVIOUS
<1>2. /\ wb[w].move = "waits" /\ descriptor = v /\ Launch!Answers(v)
      /\ wb' = [wb EXCEPT ![w].move = "handed"]
      /\ lock' = IF lock = w THEN NoOne ELSE lock
      /\ settled' = settled \cup (IF wb[w].carries THEN Tickets \cap {wb[w].draft} ELSE Launch!Holding(w))
      /\ UNCHANGED <<descriptor, line, offer, v6, made>>
  BY DEF Launch!Relaunched, Launch!Ready, Launch!Releases
<1>. HIDE DEF lock, descriptor, line, offer, wb, made, settled
<1>. DEFINE q == [wb[w] EXCEPT !.move = "handed"]
<1>3. /\ q \in Records /\ q.move = "handed" /\ q.life = wb[w].life /\ q.seed = wb[w].seed
      /\ q.pending = wb[w].pending /\ q.draft = wb[w].draft /\ q.child = v
  BY <1>1 DEF LaunchTyped, Records
<1>4. wb' = [wb EXCEPT ![w] = q] /\ \A u \in Workbenches : wb'[u] = IF u = w THEN q ELSE wb[u]
  BY <1>1, <1>2 DEF LaunchTyped
<1>. HIDE DEF q
<1>5. /\ lock = w /\ wb[w].life = "up"
      /\ \A i \in Invocations : line[i].pc \notin Holders
      /\ \A u \in Workbenches \ {w} : wb[u].move \notin Locked
      /\ \A u \in Workbenches \ {w} : Launch!Alive(u) => wb[u].move = "handed" \/ u = v
  BY <1>2, UnderTheLock DEF Locked
<1>6. /\ v \in Workbenches \ {w} /\ Sound(w, wb[w]) /\ wb[w].seed = NoOne
      /\ wb[v].life \notin Early /\ wb[v].move \in Unlocked
      /\ wb[v].life \in {"up", "leaving", "unpublished"}
  <2>1. Sound(w, wb[w]) /\ v \in Workbenches \ {w}
    BY <1>1, <1>2 DEF Placed, Sound
  <2>2. wb[w].seed = NoOne
    BY <2>1, <1>5 DEF Sound
  <2>3. wb[v].life \notin Early /\ wb[v].move \in Unlocked
    BY <2>1, <1>1, <1>2 DEF Placed, WaitsInv
  <2>. QED
    BY <2>1, <2>2, <2>3, <1>2 DEF Launch!Answers, Early, wb
<1>7. settled \subseteq settled' /\ settled' \subseteq Tickets
  BY <1>1, <1>2 DEF LaunchTyped, Launch!Holding
<1>8. Sound(w, q)
  BY <1>3, <1>5, <1>6, <1>2 DEF Sound, Late, Locked, Launch!NamesAssumption
<1>9. \A u \in Workbenches \ {w} : /\ Launch!Holding(u)' = Launch!Holding(u)
                                   /\ (Good(u)' <=> Good(u)) /\ (Launch!Alive(u)' <=> Launch!Alive(u))
  BY <1>4 DEF Launch!Holding, Good, Launch!Alive, wb
<1>10. LaunchTyped'
  <2>1. wb' \in [Workbenches -> Records]
    BY <1>1, <1>3, <1>4 DEF LaunchTyped
  <2>. QED
    BY <2>1, <1>1, <1>2, <1>5, <1>7 DEF LaunchTyped
<1>11. LockInv'
  BY <1>2, <1>3, <1>4, <1>5 DEF LockInv, Locked, Launch!NamesAssumption
<1>12. ASSUME NEW u \in Workbenches PROVE Placed(u)'
  <2>1. CASE u = w
    BY <2>1, <1>2, <1>3, <1>4, <1>5, <1>6, <1>8 DEF Placed, Launch!NamesAssumption
  <2>2. CASE u # w
    BY <2>2, <1>1, <1>2, <1>4, <1>7, <1>9 DEF Placed
  <2>. QED
    BY <2>1, <2>2
<1>13. \A u \in Workbenches : wb'[u].move # "waits"
  BY <1>3, <1>4, <1>5 DEF Locked
<1>14. ASSUME NEW u \in Workbenches, wb'[u].life \in {"starting", "serving"} PROVE FALSE
  <2>1. u # w /\ wb[u].life \in {"starting", "serving"}
    BY <1>3, <1>4, <1>5, <1>14
  <2>2. Awaited(u)
    BY <2>1 DEF LaunchInv
  <2>3. u = v
    BY <2>2, <1>5 DEF Awaited, Holders, Locked
  <2>. QED
    BY <2>1, <2>3, <1>6 DEF Early
<1>15. ASSUME NEW i \in Invocations PROVE CallInv(i)'
  <2>1. line'[i] = line[i] /\ CallInv(i) /\ line[i].pc \notin Holders /\ offer'[i] = offer[i]
    BY <1>2, <1>5 DEF LaunchInv
  <2>2. offer[i] # "none" => line[i].at \in Workbenches /\ wb'[line[i].at].life \notin Early
    BY <2>1, <1>3, <1>4 DEF CallInv
  <2>. QED
    BY <2>1, <2>2 DEF CallInv, Holders
<1>16. Launch!OneWorkbench'
  <2>1. \A u \in Workbenches \ {v} : Launch!Alive(u)' => wb'[u].move = "handed"
    BY <1>3, <1>4, <1>5, <1>9
  <2>. QED
    BY <2>1 DEF Launch!OneWorkbench, wb
<1>17. Promised' = Promised /\ Promised \subseteq Tickets
  BY <1>2 DEF Promised
<1>18. ASSUME NEW t \in Promised PROVE Kept(t)'
  <2>1. t \in settled \cup Launch!Holding(w) /\ t \in Tickets
    BY <1>1, <1>2, <1>17, <1>18 DEF WaitsInv
  <2>2. CASE t \in settled'
    BY <2>2 DEF Kept
  <2>3. CASE t \notin settled'
    <3>1. wb[w].carries /\ t = wb[w].pending
      BY <2>1, <2>3, <1>2, <1>6, <1>7 DEF Launch!Holding, Launch!NamesAssumption, wb
    <3>2. t \in Launch!Holding(v)
      BY <3>1, <2>3, <1>1, <1>2, <1>6, <1>7, <1>18 DEF WaitsInv
    <3>3. wb[v].life = "up"
      BY <3>2, <2>3, <1>1, <1>6, <1>7 DEF Placed, Unlocked
    <3>4. Good(v)
      BY <3>3, <1>6 DEF Good, Unlocked, Launch!Alive, wb
    <3>. QED
      BY <3>2, <3>4, <1>6, <1>9 DEF Kept
  <2>. QED
    BY <2>2, <2>3
<1>. QED
  BY <1>10, <1>11, <1>12, <1>13, <1>14, <1>15, <1>16, <1>17, <1>18 DEF LaunchInv, WaitsInv

\* The successor does not answer: it ends, and the workbench goes on with what it held.
LEMMA RelaunchFailedSound ==
    ASSUME Launch!NamesAssumption, LaunchInv, NEW w \in Workbenches, Launch!RelaunchFailed(w)
    PROVE  LaunchInv'
<1>1. LaunchTyped /\ (\A u \in Workbenches : Placed(u) /\ WaitsInv(u))
  BY DEF LaunchInv
<1>. PICK v : v = wb[w].child
  OBVIOUS
<1>. DEFINE gone == Launch!Gone
<1>2. /\ wb[w].move = "waits"
      /\ wb' = [wb EXCEPT ![w].move = "no", ![v] = gone]
      /\ lock' = IF lock = w THEN NoOne ELSE lock
      /\ UNCHANGED <<descriptor, line, offer, v6, made, settled>>
  BY DEF Launch!RelaunchFailed, Launch!Releases
<1>. HIDE DEF lock, descriptor, line, offer, wb, made, settled
<1>3. /\ gone \in Records /\ Sound(v, gone) /\ gone.life = "gone" /\ gone.move = "no"
  <2>1. /\ gone \in Records /\ gone.life = "gone" /\ gone.move = "no"
        /\ gone.seed = NoOne /\ gone.pending = NoOne /\ gone.draft = NoOne
    BY BlankIs DEF Launch!Gone, Records
  <2>. QED
    BY <2>1 DEF Sound, Locked, Unlocked
<1>4. /\ lock = w /\ wb[w].life = "up"
      /\ \A i \in Invocations : line[i].pc \notin Holders
      /\ \A u \in Workbenches \ {w} : wb[u].move \notin Locked
      /\ \A u \in Workbenches \ {w} : Launch!Alive(u) => wb[u].move = "handed" \/ u = v
  BY <1>2, UnderTheLock DEF Locked
<1>5. Sound(w, wb[w]) /\ v \in Workbenches \ {w}
  BY <1>1, <1>2 DEF Placed, Sound
<1>. DEFINE q == [wb[w] EXCEPT !.move = "no"]
<1>6. /\ q \in Records /\ q.move = "no" /\ q.life = "up" /\ q.seed = wb[w].seed
      /\ q.pending = wb[w].pending /\ q.draft = wb[w].draft /\ q.child = v
  BY <1>1, <1>4 DEF LaunchTyped, Records, Unlocked
<1>7. \A u \in Workbenches : wb'[u] = IF u = w THEN q ELSE IF u = v THEN gone ELSE wb[u]
  BY <1>1, <1>2, <1>5 DEF LaunchTyped
<1>8. wb' \in [Workbenches -> Records]
  <2>1. wb' = [wb EXCEPT ![w] = q, ![v] = gone]
    BY <1>1, <1>2, <1>5 DEF LaunchTyped
  <2>. QED
    BY <2>1, <1>1, <1>3, <1>6 DEF LaunchTyped
<1>. HIDE DEF q, gone
<1>9. Sound(w, q)
  BY <1>4, <1>5, <1>6 DEF Sound, Locked
<1>10. /\ Launch!Holding(w)' = Launch!Holding(w) /\ Good(w)' /\ ~Launch!Alive(v)'
       /\ \A u \in Workbenches \ {w, v} : /\ Launch!Holding(u)' = Launch!Holding(u)
                                          /\ (Launch!Alive(u)' <=> Launch!Alive(u))
  BY <1>3, <1>5, <1>6, <1>7 DEF Launch!Holding, Good, Launch!Alive, wb
<1>11. LaunchTyped'
  BY <1>1, <1>2, <1>4, <1>8 DEF LaunchTyped
<1>12. LockInv'
  BY <1>2, <1>3, <1>4, <1>6, <1>7 DEF LockInv, Locked, Launch!NamesAssumption
<1>13. ASSUME NEW u \in Workbenches PROVE Placed(u)'
  <2>1. CASE u = w
    BY <2>1, <1>2, <1>5, <1>6, <1>7, <1>9 DEF Placed, Early, Launch!NamesAssumption
  <2>2. CASE u = v
    BY <2>2, <1>3, <1>5, <1>7 DEF Placed, Early
  <2>3. CASE u # w /\ u # v
    BY <2>3, <1>1, <1>2, <1>7, <1>10 DEF Placed
  <2>. QED
    BY <2>1, <2>2, <2>3
<1>14. \A u \in Workbenches : wb'[u].move # "waits"
  BY <1>3, <1>4, <1>6, <1>7 DEF Locked
<1>15. ASSUME NEW u \in Workbenches, wb'[u].life \in {"starting", "serving"} PROVE FALSE
  <2>1. u # w /\ u # v /\ wb[u].life \in {"starting", "serving"}
    BY <1>3, <1>6, <1>7, <1>15
  <2>2. Awaited(u)
    BY <2>1 DEF LaunchInv
  <2>. QED
    BY <2>1, <2>2, <1>4 DEF Awaited, Holders, Locked
<1>16. ASSUME NEW i \in Invocations PROVE CallInv(i)'
  <2>1. line'[i] = line[i] /\ CallInv(i) /\ line[i].pc \notin Holders /\ offer'[i] = offer[i]
    BY <1>2, <1>4 DEF LaunchInv
  <2>2. offer[i] # "none" => line[i].at \in Workbenches /\ wb'[line[i].at].life \notin Early
    BY <2>1, <1>3, <1>6, <1>7 DEF CallInv, Early
  <2>. QED
    BY <2>1, <2>2 DEF CallInv, Holders
<1>17. Launch!OneWorkbench'
  <2>1. \A u \in Workbenches \ {w} : Launch!Alive(u)' => wb'[u].move = "handed"
    BY <1>4, <1>7, <1>10
  <2>. QED
    BY <2>1 DEF Launch!OneWorkbench, wb
<1>18. Promised' = Promised /\ \A t \in Promised : Kept(t)'
  <2>1. Promised' = Promised /\ Promised \subseteq settled \cup Launch!Holding(w)
    BY <1>1, <1>2 DEF Promised, WaitsInv
  <2>. QED
    BY <2>1, <1>2, <1>10 DEF Kept
<1>. QED
  BY <1>11, <1>12, <1>13, <1>14, <1>15, <1>16, <1>17, <1>18 DEF LaunchInv, WaitsInv

-----------------------------------------------------------------------------
(* The steps of Launch, each by the lemma of its kind.                       *)

LEMMA OfWorkbench ==
    ASSUME LaunchInv, NEW w \in Workbenches
    PROVE  wb[w] \in Records /\ Placed(w) /\ Sound(w, wb[w]) /\ wb \in [Workbenches -> Records]
  BY DEF LaunchInv, LaunchTyped, Placed

\* Its start.
LEMMA ServeSound ==
    ASSUME Launch!NamesAssumption, LaunchInv, NEW w \in Workbenches, Launch!Serve(w)
    PROVE  LaunchInv'
<1>. DEFINE r == wb[w]
            q == [r EXCEPT !.life = "serving"]
<1>1. r \in Records /\ Placed(w) /\ Sound(w, r) /\ wb \in [Workbenches -> Records]
  BY OfWorkbench
<1>2. /\ r.life = "starting" /\ wb' = [wb EXCEPT ![w] = q]
      /\ UNCHANGED <<lock, descriptor, line, offer, v6, made, settled>>
  BY <1>1 DEF Launch!Serve
<1>3. /\ q \in Records /\ q.life = "serving" /\ q.move = r.move /\ q.carries = r.carries /\ q.child = r.child
      /\ q.seed = r.seed /\ q.pending = r.pending /\ q.draft = r.draft
  BY <1>1 DEF Records, Early
<1>. HIDE DEF q, r, lock, descriptor, line, offer, wb, made, settled
<1>4. HoldingOf(q) = HoldingOf(r) /\ Sound(w, q)
  BY <1>1, <1>2, <1>3 DEF HoldingOf, Sound, Locked
<1>5. Onward(w, r, q) /\ Publishes(w, r, q) /\ AnswersFor(w, q)
  BY <1>2, <1>3, <1>4 DEF Onward, Publishes, AnswersFor
<1>6. LaunchTyped
  BY DEF LaunchInv
<1>. QED
  BY <1>2, <1>3, <1>5, <1>6, LocalStep DEF LaunchTyped, r

LEMMA StartupOfferSound ==
    ASSUME Launch!NamesAssumption, LaunchInv, NEW w \in Workbenches, Launch!StartupOffer(w)
    PROVE  LaunchInv'
<1>. DEFINE r == wb[w]
<1>1. r \in Records /\ Placed(w) /\ Sound(w, r) /\ wb \in [Workbenches -> Records]
  BY OfWorkbench
<1>2. /\ r.life = "serving" /\ r.seed # NoOne
      /\ UNCHANGED <<lock, descriptor, line, offer, v6, made>>
      /\ \/ wb' = [wb EXCEPT ![w].seed = NoOne, ![w].gate = FALSE] /\ settled' = settled \cup {r.seed}
         \/ wb' = [wb EXCEPT ![w].seed = NoOne, ![w].pending = r.seed] /\ settled' = settled
  BY DEF Launch!StartupOffer
<1>3. LaunchTyped
  BY DEF LaunchInv
<1>4. r.seed \in Tickets /\ r.pending = NoOne /\ r.move = "no" /\ r.draft = NoOne /\ r.child = NoOne
  BY <1>1, <1>2 DEF Sound, Records
<1>5. ASSUME NEW q \in Records, wb' = [wb EXCEPT ![w] = q], settled' \in {settled, settled \cup {r.seed}},
             /\ q.life = "serving" /\ q.move = "no" /\ q.carries = r.carries /\ q.child = r.child
             /\ q.seed = NoOne /\ q.draft = r.draft,
             r.seed \in settled' \/ q.pending = r.seed
      PROVE  LaunchInv'
  <2>. HIDE DEF r, lock, descriptor, line, offer, wb, made, settled
  <2>1. HoldingOf(r) = {r.seed}
    BY <1>4 DEF HoldingOf, Launch!NamesAssumption
  <2>2. HoldingOf(r) \subseteq settled' \cup HoldingOf(q)
    BY <1>4, <1>5, <2>1 DEF HoldingOf
  <2>3. Sound(w, q)
    BY <1>4, <1>5 DEF Sound, Locked
  <2>4. Onward(w, r, q) /\ Publishes(w, r, q) /\ AnswersFor(w, q)
    BY <1>2, <1>4, <1>5, <2>2, <2>3 DEF Onward, Publishes, AnswersFor
  <2>5. settled \subseteq settled' /\ settled' \subseteq Tickets
    BY <1>3, <1>4, <1>5 DEF LaunchTyped
  <2>. QED
    BY <1>2, <1>3, <1>5, <2>4, <2>5, LocalStep DEF LaunchTyped, r
<1>6. CASE wb' = [wb EXCEPT ![w].seed = NoOne, ![w].gate = FALSE] /\ settled' = settled \cup {r.seed}
  <2>. DEFINE q == [r EXCEPT !.seed = NoOne, !.gate = FALSE]
  <2>1. /\ q \in Records /\ q.life = "serving" /\ q.move = r.move /\ q.carries = r.carries /\ q.child = r.child
        /\ q.seed = NoOne /\ q.draft = r.draft
    BY <1>1, <1>2 DEF Records
  <2>2. wb' = [wb EXCEPT ![w] = q]
    BY <1>1, <1>6
  <2>. HIDE DEF q
  <2>. QED
    BY <2>1, <2>2, <1>4, <1>5, <1>6
<1>7. CASE wb' = [wb EXCEPT ![w].seed = NoOne, ![w].pending = r.seed] /\ settled' = settled
  <2>. DEFINE q == [r EXCEPT !.seed = NoOne, !.pending = r.seed]
  <2>1. /\ q \in Records /\ q.life = "serving" /\ q.move = r.move /\ q.carries = r.carries /\ q.child = r.child
        /\ q.seed = NoOne /\ q.draft = r.draft /\ q.pending = r.seed
    BY <1>1, <1>2, <1>4 DEF Records
  <2>2. wb' = [wb EXCEPT ![w] = q]
    BY <1>1, <1>7
  <2>. HIDE DEF q
  <2>. QED
    BY <2>1, <2>2, <1>4, <1>5, <1>7
<1>. QED
  BY <1>2, <1>6, <1>7

LEMMA PublishSound ==
    ASSUME Launch!NamesAssumption, LaunchInv, NEW w \in Workbenches, Launch!Publish(w)
    PROVE  LaunchInv'
<1>. DEFINE r == wb[w]
            q == [r EXCEPT !.life = "up"]
<1>1. r \in Records /\ Placed(w) /\ Sound(w, r) /\ wb \in [Workbenches -> Records]
  BY OfWorkbench
<1>2. /\ r.life = "serving" /\ r.seed = NoOne /\ wb' = [wb EXCEPT ![w] = q] /\ descriptor' = w
      /\ UNCHANGED <<lock, line, offer, v6, made, settled>>
  BY <1>1 DEF Launch!Publish
<1>3. /\ q \in Records /\ q.life = "up" /\ q.move = r.move /\ q.carries = r.carries /\ q.child = r.child
      /\ q.seed = r.seed /\ q.pending = r.pending /\ q.draft = r.draft
  BY <1>1 DEF Records, Late
<1>. HIDE DEF q, r, lock, descriptor, line, offer, wb, made, settled
<1>4. HoldingOf(q) = HoldingOf(r) /\ Sound(w, q)
  BY <1>1, <1>2, <1>3 DEF HoldingOf, Sound, Locked
<1>5. Onward(w, r, q) /\ Publishes(w, r, q) /\ AnswersFor(w, q)
  BY <1>2, <1>3, <1>4 DEF Onward, Publishes, AnswersFor
<1>6. LaunchTyped
  BY DEF LaunchInv
<1>. QED
  BY <1>2, <1>3, <1>5, <1>6, LocalStep DEF LaunchTyped, r

\* The overlay, the settings and the end: a workbench that is on screen changes what it
\* holds or what it is about to do.
LEMMA OnScreen ==
    ASSUME Launch!NamesAssumption, LaunchInv, NEW w \in Workbenches, NEW r, r = wb[w], NEW q \in Records,
           wb' = [wb EXCEPT ![w] = q], UNCHANGED <<lock, descriptor, line, offer>>,
           r.life = "up", q.life \in {"up", "leaving"}, q.child = r.child, q.seed = r.seed,
           q.move = r.move \/ (r.move = "no" /\ q.move = "asks"),
           q.carries = r.carries \/ r.move = "no", q.life = "leaving" => r.move \notin Locked,
           q.pending \in {r.pending, NoOne}, q.pending # NoOne => q.draft = NoOne,
           HoldingOf(r) \subseteq settled' \cup HoldingOf(q),
           q.life = "leaving" /\ q.move # "handed" => HoldingOf(q) \subseteq settled',
           v6' \in BOOLEAN, made' \subseteq Tickets, settled \subseteq settled', settled' \subseteq Tickets
    PROVE  LaunchInv'
<1>. HIDE DEF lock, descriptor, line, offer, wb, made, settled
<1>1. Sound(w, r)
  BY OfWorkbench
<1>2. Sound(w, q)
  BY <1>1 DEF Sound, Late, Locked
<1>3. Onward(w, r, q) /\ Publishes(w, r, q) /\ AnswersFor(w, q)
  BY <1>2 DEF Onward, Publishes, AnswersFor
<1>4. offer' \in [Invocations -> Steps]
  BY DEF LaunchInv, LaunchTyped
<1>. QED
  BY <1>3, <1>4, LocalStep

LEMMA OverlayOpens ==
    ASSUME Launch!NamesAssumption, LaunchInv, NEW w \in Workbenches, Launch!Begin(w)
    PROVE  LaunchInv'
<1>. DEFINE r == wb[w]
            begun == IF r.pending = NoOne THEN ByHand ELSE r.pending
            q == [r EXCEPT !.draft = begun, !.pending = NoOne]
<1>1. r \in Records /\ Sound(w, r) /\ wb \in [Workbenches -> Records]
  BY OfWorkbench
<1>2. /\ r.life = "up" /\ r.draft = NoOne
      /\ wb' = [wb EXCEPT ![w].draft = begun, ![w].pending = NoOne]
      /\ UNCHANGED <<lock, descriptor, line, offer, v6, made, settled>>
  BY DEF Launch!Begin
<1>3. begun \in Tickets \cup {ByHand} /\ (r.pending # NoOne => begun = r.pending)
  BY <1>1 DEF Records
<1>. HIDE DEF begun
<1>4. wb' = [wb EXCEPT ![w] = q]
  BY <1>1, <1>2
<1>5. /\ q \in Records /\ q.life = r.life /\ q.move = r.move /\ q.carries = r.carries /\ q.child = r.child
      /\ q.seed = r.seed /\ q.pending = NoOne /\ q.draft = begun
  BY <1>1, <1>3 DEF Records
<1>. HIDE DEF q, r, lock, descriptor, line, offer, wb, made, settled
<1>6. HoldingOf(r) \subseteq HoldingOf(q)
  BY <1>2, <1>3, <1>5 DEF HoldingOf, Launch!NamesAssumption
<1>7. LaunchTyped
  BY DEF LaunchInv
<1>8. /\ v6' \in BOOLEAN /\ made' \subseteq Tickets /\ settled \subseteq settled' /\ settled' \subseteq Tickets
      /\ HoldingOf(r) \subseteq settled' \cup HoldingOf(q) /\ r = wb[w]
  BY <1>2, <1>6, <1>7 DEF LaunchTyped, r
<1>9. q.life = "up" /\ UNCHANGED <<lock, descriptor, line, offer>>
  BY <1>2, <1>5
<1>. QED
  BY <1>2, <1>4, <1>5, <1>8, <1>9, OnScreen

LEMMA CreateSound ==
    ASSUME Launch!NamesAssumption, LaunchInv, NEW w \in Workbenches, Launch!Create(w)
    PROVE  LaunchInv'
<1>. DEFINE r == wb[w]
            q == [r EXCEPT !.gate = FALSE]
<1>1. r \in Records /\ Sound(w, r) /\ wb \in [Workbenches -> Records]
  BY OfWorkbench
<1>2. /\ r.life = "up" /\ r.draft # NoOne /\ wb' = [wb EXCEPT ![w] = q]
      /\ UNCHANGED <<lock, descriptor, line, offer, v6, settled>>
  BY <1>1 DEF Launch!Create
<1>3. PICK t \in (IF r.draft = ByHand THEN Tickets ELSE {r.draft}) : made' = made \cup {t}
  BY DEF Launch!Create
<1>4. LaunchTyped
  BY DEF LaunchInv
<1>5. r.draft \in Tickets \cup {NoOne, ByHand}
  BY <1>1 DEF Records
<1>6. /\ q \in Records /\ q.life = r.life /\ q.move = r.move /\ q.carries = r.carries /\ q.child = r.child
      /\ q.seed = r.seed /\ q.pending = r.pending /\ q.draft = r.draft
  BY <1>1 DEF Records
<1>. HIDE DEF q, r, lock, descriptor, line, offer, wb, made, settled
<1>7. made' \subseteq Tickets
  BY <1>2, <1>3, <1>4, <1>5 DEF LaunchTyped
<1>8. HoldingOf(q) = HoldingOf(r) /\ (r.pending # NoOne => r.draft = NoOne)
  BY <1>1, <1>6 DEF HoldingOf, Sound
<1>. QED
  BY <1>2, <1>4, <1>6, <1>7, <1>8, OnScreen DEF LaunchTyped, r

LEMMA EndSound ==
    ASSUME Launch!NamesAssumption, LaunchInv, NEW w \in Workbenches, Launch!End(w)
    PROVE  LaunchInv'
<1>. DEFINE r == wb[w]
            q == [r EXCEPT !.draft = NoOne]
<1>1. r \in Records /\ Sound(w, r) /\ wb \in [Workbenches -> Records]
  BY OfWorkbench
<1>2. /\ r.life = "up" /\ wb' = [wb EXCEPT ![w] = q] /\ settled' = settled \cup (Tickets \cap {r.draft})
      /\ UNCHANGED <<lock, descriptor, line, offer, v6, made>>
  BY <1>1 DEF Launch!End
<1>3. /\ q \in Records /\ q.life = r.life /\ q.move = r.move /\ q.carries = r.carries /\ q.child = r.child
      /\ q.seed = r.seed /\ q.pending = r.pending /\ q.draft = NoOne
  BY <1>1 DEF Records
<1>. HIDE DEF q, r, lock, descriptor, line, offer, wb, made, settled
<1>4. HoldingOf(r) \subseteq settled' \cup HoldingOf(q)
  BY <1>2, <1>3 DEF HoldingOf
<1>5. LaunchTyped
  BY DEF LaunchInv
<1>6. settled \subseteq settled' /\ settled' \subseteq Tickets
  BY <1>2, <1>5 DEF LaunchTyped
<1>. QED
  BY <1>2, <1>3, <1>4, <1>5, <1>6, OnScreen DEF LaunchTyped, r

LEMMA WelcomeSound ==
    ASSUME Launch!NamesAssumption, LaunchInv, NEW w \in Workbenches, Launch!Welcome(w)
    PROVE  LaunchInv'
<1>. DEFINE r == wb[w]
            q == [r EXCEPT !.gate = FALSE]
<1>1. r \in Records /\ Sound(w, r) /\ wb \in [Workbenches -> Records]
  BY OfWorkbench
<1>2. /\ r.life = "up" /\ wb' = [wb EXCEPT ![w] = q] /\ v6' \in BOOLEAN
      /\ UNCHANGED <<lock, descriptor, line, offer, made, settled>>
  BY <1>1 DEF Launch!Welcome
<1>3. /\ q \in Records /\ q.life = r.life /\ q.move = r.move /\ q.carries = r.carries /\ q.child = r.child
      /\ q.seed = r.seed /\ q.pending = r.pending /\ q.draft = r.draft
  BY <1>1 DEF Records
<1>. HIDE DEF q, r, lock, descriptor, line, offer, wb, made, settled
<1>4. HoldingOf(q) = HoldingOf(r) /\ (r.pending # NoOne => r.draft = NoOne)
  BY <1>1, <1>3 DEF HoldingOf, Sound
<1>5. LaunchTyped
  BY DEF LaunchInv
<1>. QED
  BY <1>2, <1>3, <1>4, <1>5, OnScreen DEF LaunchTyped, r

LEMMA AskRelaunchSound ==
    ASSUME Launch!NamesAssumption, LaunchInv, NEW w \in Workbenches, Launch!AskRelaunch(w)
    PROVE  LaunchInv'
<1>. DEFINE r == wb[w]
            q == [r EXCEPT !.move = "asks", !.carries = r.gate]
<1>1. r \in Records /\ Sound(w, r) /\ wb \in [Workbenches -> Records]
  BY OfWorkbench
<1>2. /\ r.life = "up" /\ r.move = "no" /\ wb' = [wb EXCEPT ![w] = q]
      /\ UNCHANGED <<lock, descriptor, line, offer, made, settled>>
  BY <1>1 DEF Launch!AskRelaunch
<1>3. v6' \in BOOLEAN
  <2>1. v6' = (v6 \/ wb[w].gate)
    BY DEF Launch!AskRelaunch
  <2>. QED
    BY ONLY <2>1
<1>4. /\ q \in Records /\ q.life = r.life /\ q.move = "asks" /\ q.child = r.child
      /\ q.seed = r.seed /\ q.pending = r.pending /\ q.draft = r.draft
  BY <1>1 DEF Records, Unlocked
<1>. HIDE DEF q, r, lock, descriptor, line, offer, wb, made, settled
<1>5. HoldingOf(q) = HoldingOf(r) /\ (r.pending # NoOne => r.draft = NoOne)
  BY <1>1, <1>4 DEF HoldingOf, Sound
<1>6. LaunchTyped
  BY DEF LaunchInv
<1>. QED
  BY <1>2, <1>3, <1>4, <1>5, <1>6, OnScreen DEF LaunchTyped, r

LEMMA QuitSound ==
    ASSUME Launch!NamesAssumption, LaunchInv, NEW w \in Workbenches, Launch!Quit(w)
    PROVE  LaunchInv'
<1>. DEFINE r == wb[w]
            q == [r EXCEPT !.life = "leaving"]
<1>1. r \in Records /\ Sound(w, r) /\ wb \in [Workbenches -> Records]
  BY OfWorkbench
<1>2. /\ r.life = "up" /\ r.move \notin Locked /\ wb' = [wb EXCEPT ![w] = q]
      /\ settled' = IF r.move = "handed" THEN settled ELSE settled \cup Launch!Holding(w)
      /\ UNCHANGED <<lock, descriptor, line, offer, v6, made>>
  BY <1>1 DEF Launch!Quit, Locked
<1>3. Launch!Holding(w) = HoldingOf(r) /\ HoldingOf(r) \subseteq Tickets
  BY DEF Launch!Holding, HoldingOf
<1>4. /\ q \in Records /\ q.life = "leaving" /\ q.move = r.move /\ q.carries = r.carries /\ q.child = r.child
      /\ q.seed = r.seed /\ q.pending = r.pending /\ q.draft = r.draft
  BY <1>1 DEF Records, Late
<1>. HIDE DEF q, r, lock, descriptor, line, offer, wb, made, settled
<1>5. HoldingOf(q) = HoldingOf(r) /\ (r.pending # NoOne => r.draft = NoOne)
  BY <1>1, <1>4 DEF HoldingOf, Sound
<1>6. LaunchTyped
  BY DEF LaunchInv
<1>7. /\ settled \subseteq settled' /\ settled' \subseteq Tickets
      /\ r.move # "handed" => HoldingOf(q) \subseteq settled'
  BY <1>2, <1>3, <1>5, <1>6 DEF LaunchTyped
<1>. QED
  BY <1>2, <1>4, <1>5, <1>6, <1>7, OnScreen DEF LaunchTyped, r

LEMMA UnpublishSound ==
    ASSUME Launch!NamesAssumption, LaunchInv, NEW w \in Workbenches, Launch!Unpublish(w)
    PROVE  LaunchInv'
<1>. DEFINE r == wb[w]
            q == [r EXCEPT !.life = "unpublished"]
<1>1. r \in Records /\ Placed(w) /\ Sound(w, r) /\ wb \in [Workbenches -> Records]
  BY OfWorkbench
<1>2. /\ r.life = "leaving" /\ wb' = [wb EXCEPT ![w] = q]
      /\ descriptor' = IF descriptor = w THEN NoOne ELSE descriptor
      /\ UNCHANGED <<lock, line, offer, v6, made, settled>>
  BY <1>1 DEF Launch!Unpublish
<1>3. /\ q \in Records /\ q.life = "unpublished" /\ q.move = r.move /\ q.carries = r.carries /\ q.child = r.child
      /\ q.seed = r.seed /\ q.pending = r.pending /\ q.draft = r.draft
  BY <1>1 DEF Records, Late
<1>4. Launch!Holding(w) = HoldingOf(r) /\ (r.move # "handed" => Launch!Holding(w) \subseteq settled)
  BY <1>1, <1>2 DEF Launch!Holding, HoldingOf, Placed
<1>. HIDE DEF q, r, lock, descriptor, line, offer, wb, made, settled
<1>5. HoldingOf(q) = HoldingOf(r) /\ Sound(w, q)
  BY <1>1, <1>2, <1>3 DEF HoldingOf, Sound, Late, Locked
<1>6. Onward(w, r, q) /\ Publishes(w, r, q) /\ AnswersFor(w, q)
  BY <1>2, <1>3, <1>4, <1>5 DEF Onward, Publishes, AnswersFor
<1>7. LaunchTyped
  BY DEF LaunchInv
<1>. QED
  BY <1>2, <1>3, <1>6, <1>7, LocalStep DEF LaunchTyped, r

-----------------------------------------------------------------------------
(* An offer, in the workbench it was made to.                                *)

\* An offer is dealt with, in a workbench that answers: it goes from r to q.
LEMMA OfferStep ==
    ASSUME Launch!NamesAssumption, LaunchInv, NEW i \in Invocations, NEW w, w = line[i].at,
           offer[i] # "none", Launch!Answers(w), NEW q \in Records, NEW o \in Steps,
           wb' = [wb EXCEPT ![w] = q], offer' = [offer EXCEPT ![i] = o],
           UNCHANGED <<lock, descriptor, line, v6, made>>,
           q.life = wb[w].life, q.move = wb[w].move, q.carries = wb[w].carries, q.child = wb[w].child,
           q.seed = wb[w].seed, q.draft = wb[w].draft,
           \/ q.pending = wb[w].pending
           \/ q.pending = line[i].ticket /\ wb[w].pending = NoOne /\ wb[w].draft = NoOne,
           o = "accepted" => line[i].ticket \in settled' \cup HoldingOf(q),
           q.life \in {"leaving", "unpublished"} /\ q.move # "handed" /\ q.pending # wb[w].pending
              => line[i].ticket \in settled',
           settled \subseteq settled', settled' \subseteq Tickets
    PROVE  LaunchInv'
<1>1. w \in Workbenches /\ wb[w].life \notin Early /\ line[i].ticket \in Tickets
  BY DEF LaunchInv, CallInv
<1>. DEFINE r == wb[w]
<1>2. r \in Records /\ Placed(w) /\ Sound(w, r)
  BY <1>1, OfWorkbench
<1>3. r.life \in {"up", "leaving", "unpublished"}
  BY <1>1 DEF Launch!Answers, Early
<1>4. Launch!Holding(w) = HoldingOf(r)
  BY DEF Launch!Holding, HoldingOf
<1>5. LaunchTyped
  BY DEF LaunchInv
<1>. HIDE DEF r, lock, descriptor, line, offer, wb, made, settled
<1>6. q.life = r.life /\ q.move = r.move /\ q.carries = r.carries /\ q.child = r.child
      /\ q.seed = r.seed /\ q.draft = r.draft
      /\ (q.pending = r.pending \/ (q.pending = line[i].ticket /\ r.pending = NoOne /\ r.draft = NoOne))
  BY DEF r
<1>7. r.seed = NoOne
  BY <1>2, <1>3 DEF Sound
<1>8. HoldingOf(r) \subseteq HoldingOf(q) /\ (q.pending = r.pending \/ HoldingOf(r) = {})
  BY <1>6, <1>7 DEF HoldingOf, Launch!NamesAssumption
<1>9. q.life \in {"leaving", "unpublished"} /\ q.move # "handed" => HoldingOf(q) \subseteq settled'
  <2>1. CASE q.pending = r.pending
    <3>1. HoldingOf(q) = HoldingOf(r)
      BY <2>1, <1>6 DEF HoldingOf
    <3>. QED
      BY <3>1, <1>2, <1>4, <1>6 DEF Placed, r
  <2>2. CASE q.pending # r.pending
    <3>1. HoldingOf(q) \subseteq {line[i].ticket}
      BY <2>2, <1>6, <1>7 DEF HoldingOf, Launch!NamesAssumption
    <3>. QED
      BY <3>1, <2>2 DEF r
  <2>. QED
    BY <2>1, <2>2
<1>10. Sound(w, q)
  BY <1>1, <1>2, <1>3, <1>6, <1>7 DEF Sound
<1>11. Onward(w, r, q)
  <2>1. r.life \notin {"none", "gone"} /\ q.life \notin {"none", "gone"}
    BY <1>3, <1>6
  <2>2. q.life # "starting" /\ q.life # "serving"
    BY <1>3, <1>6
  <2>3. q.pending \in {r.pending, NoOne} \/ HoldingOf(r) \subseteq settled'
    BY <1>8
  <2>. QED
    BY <2>1, <2>2, <2>3, <1>6, <1>8, <1>9, <1>10 DEF Onward
<1>12. Publishes(w, r, q)
  BY <1>6 DEF Publishes
<1>13. AnswersFor(w, q)
  BY <1>5 DEF AnswersFor, LaunchTyped
<1>14. offer' \in [Invocations -> Steps]
  BY <1>5 DEF LaunchTyped
<1>. QED
  BY <1>1, <1>5, <1>11, <1>12, <1>13, <1>14, LocalStep DEF LaunchTyped, r

\* What holds of an offer that is under way.
LEMMA OfferUnderWay ==
    ASSUME LaunchInv, NEW i \in Invocations, offer[i] # "none"
    PROVE  /\ line[i].at \in Workbenches /\ line[i].ticket \in Tickets
           /\ wb[line[i].at] \in Records /\ wb = [wb EXCEPT ![line[i].at] = wb[line[i].at]]
<1>1. line[i].at \in Workbenches /\ line[i].ticket \in Tickets
  BY DEF LaunchInv, CallInv
<1>2. wb[line[i].at] \in Records /\ wb \in [Workbenches -> Records]
  BY <1>1, OfWorkbench
<1>. QED
  BY <1>1, <1>2

LEMMA OfferHeldSound ==
    ASSUME Launch!NamesAssumption, LaunchInv, NEW i \in Invocations, Launch!OfferHeld(i)
    PROVE  LaunchInv'
<1>. DEFINE w == line[i].at
            held == Launch!Held(w, line[i].ticket)
            o == IF held = "free" THEN "scan" ELSE held
<1>1. /\ offer[i] = "sent" /\ Launch!Answers(w) /\ offer' = [offer EXCEPT ![i] = o]
      /\ UNCHANGED <<lock, descriptor, line, wb, v6, made, settled>>
  BY DEF Launch!OfferHeld, Launch!Offered
<1>2. line[i].at \in Workbenches /\ line[i].ticket \in Tickets /\ wb[w] \in Records /\ wb = [wb EXCEPT ![w] = wb[w]]
  BY <1>1, OfferUnderWay
<1>3. o \in Steps /\ (o = "accepted" => line[i].ticket \in HoldingOf(wb[w]))
  BY <1>2 DEF Launch!Held, HoldingOf, Steps
<1>4. LaunchTyped
  BY DEF LaunchInv
<1>. HIDE DEF o, w, held
<1>5. wb' = [wb EXCEPT ![w] = wb[w]]
  BY <1>1, <1>2
<1>6. w = line[i].at /\ offer[i] # "none" /\ wb[w] \in Records
  BY <1>1, <1>2 DEF w
<1>7. settled \subseteq settled' /\ settled' \subseteq Tickets
      /\ (o = "accepted" => line[i].ticket \in settled' \cup HoldingOf(wb[w]))
  BY <1>1, <1>3, <1>4 DEF LaunchTyped
<1>. HIDE DEF lock, descriptor, line, offer, wb, made, settled
<1>. QED
  BY <1>1, <1>3, <1>5, <1>6, <1>7, OfferStep

LEMMA OfferScanSound ==
    ASSUME Launch!NamesAssumption, LaunchInv, NEW i \in Invocations, Launch!OfferScan(i)
    PROVE  LaunchInv'
<1>. DEFINE w == line[i].at
            r == wb[w]
            t == line[i].ticket
            q == [r EXCEPT !.gate = FALSE]
<1>1. /\ offer[i] = "scan" /\ Launch!Answers(w)
      /\ UNCHANGED <<lock, descriptor, line, v6, made>>
      /\ \/ offer' = [offer EXCEPT ![i] = "take"] /\ UNCHANGED <<wb, settled>>
         \/ /\ offer' = [offer EXCEPT ![i] = "accepted"]
            /\ wb' = [wb EXCEPT ![w].gate = FALSE] /\ settled' = settled \cup {t}
         \/ offer' = [offer EXCEPT ![i] = "refused"] /\ UNCHANGED <<wb, settled>>
  BY DEF Launch!OfferScan, Launch!Offered
<1>2. w \in Workbenches /\ t \in Tickets /\ r \in Records /\ wb = [wb EXCEPT ![w] = r]
  BY <1>1, OfferUnderWay
<1>3. settled \subseteq Tickets
  BY DEF LaunchInv, LaunchTyped
<1>4. /\ q \in Records /\ q.life = r.life /\ q.move = r.move /\ q.carries = r.carries /\ q.child = r.child
      /\ q.seed = r.seed /\ q.pending = r.pending /\ q.draft = r.draft
  BY <1>2 DEF Records
<1>5. [wb EXCEPT ![w].gate = FALSE] = [wb EXCEPT ![w] = q]
  OBVIOUS
<1>6. offer[i] # "none" /\ w = line[i].at
  BY <1>1
<1>. HIDE DEF w, q, t, r, lock, descriptor, line, offer, wb, made, settled
<1>7. CASE offer' = [offer EXCEPT ![i] = "accepted"] /\ wb' = [wb EXCEPT ![w] = q] /\ settled' = settled \cup {t}
  <2>1. settled \subseteq settled' /\ settled' \subseteq Tickets /\ t \in settled'
    BY <1>2, <1>3, <1>7
  <2>2. q.pending = wb[w].pending /\ "accepted" \in Steps
    BY <1>4 DEF r, Steps
  <2>. QED
    BY <1>1, <1>4, <1>6, <1>7, <2>1, <2>2, OfferStep DEF t, r
<1>8. ASSUME NEW o \in {"take", "refused"}, offer' = [offer EXCEPT ![i] = o], UNCHANGED <<wb, settled>>
      PROVE  LaunchInv'
  <2>1. wb' = [wb EXCEPT ![w] = r] /\ settled' \subseteq Tickets /\ settled \subseteq settled'
    BY <1>2, <1>3, <1>8
  <2>2. r = wb[w] /\ Launch!Answers(w) /\ o \in Steps /\ o # "accepted"
    BY <1>1, <1>8 DEF Steps, r
  <2>3. UNCHANGED <<lock, descriptor, line, v6, made>> /\ offer' = [offer EXCEPT ![i] = o]
    BY <1>1, <1>8
  <2>4. r \in Records
    BY <1>2
  <2>. QED
    BY <1>6, <2>1, <2>2, <2>3, <2>4, OfferStep
<1>. QED
  BY <1>1, <1>5, <1>7, <1>8

LEMMA OfferTakeSound ==
    ASSUME Launch!NamesAssumption, LaunchInv, NEW i \in Invocations, Launch!OfferTake(i)
    PROVE  LaunchInv'
<1>. DEFINE w == line[i].at
            r == wb[w]
            t == line[i].ticket
            q == [r EXCEPT !.pending = t]
            held == Launch!Held(w, t)
<1>1. /\ offer[i] = "take" /\ Launch!Answers(w)
      /\ UNCHANGED <<lock, descriptor, line, v6, made>>
      /\ IF held = "free"
         THEN /\ offer' = [offer EXCEPT ![i] = "accepted"]
              /\ wb' = [wb EXCEPT ![w].pending = t]
              /\ settled' = IF Launch!LetGo(w) THEN settled \cup {t} ELSE settled
         ELSE offer' = [offer EXCEPT ![i] = held] /\ UNCHANGED <<wb, settled>>
  BY DEF Launch!OfferTake, Launch!Offered
<1>2. w \in Workbenches /\ t \in Tickets /\ r \in Records /\ wb = [wb EXCEPT ![w] = r]
  BY <1>1, OfferUnderWay
<1>3. settled \subseteq Tickets
  BY DEF LaunchInv, LaunchTyped
<1>4. /\ q \in Records /\ q.life = r.life /\ q.move = r.move /\ q.carries = r.carries /\ q.child = r.child
      /\ q.seed = r.seed /\ q.pending = t /\ q.draft = r.draft
  BY <1>2 DEF Records
<1>5. [wb EXCEPT ![w].pending = t] = [wb EXCEPT ![w] = q]
  OBVIOUS
<1>6. offer[i] # "none" /\ w = line[i].at
  BY <1>1
<1>7. /\ held \in {"free", "accepted", "refused"}
      /\ held = "accepted" => t \in HoldingOf(r)
      /\ held = "free" => r.pending = NoOne /\ r.draft = NoOne
      /\ Launch!LetGo(w) <=> r.life \in {"leaving", "unpublished"} /\ ~(r.move = "handed" /\ r.carries)
  BY <1>2 DEF Launch!Held, Launch!LetGo, HoldingOf
<1>. HIDE DEF w, q, t, r, held, lock, descriptor, line, offer, wb, made, settled
<1>8. CASE held = "free"
  <2>1. /\ offer' = [offer EXCEPT ![i] = "accepted"] /\ wb' = [wb EXCEPT ![w] = q] /\ "accepted" \in Steps
        /\ r.pending = NoOne /\ r.draft = NoOne
        /\ settled' = IF Launch!LetGo(w) THEN settled \cup {t} ELSE settled
    BY <1>1, <1>5, <1>7, <1>8 DEF Steps
  <2>2. t \in HoldingOf(q)
    BY <1>2, <1>4 DEF HoldingOf
  <2>3. q.life \in {"leaving", "unpublished"} /\ q.move # "handed" => t \in settled'
    BY <2>1, <1>4, <1>7
  <2>4. settled \subseteq settled' /\ settled' \subseteq Tickets
    BY <2>1, <1>2, <1>3
  <2>. QED
    BY <1>1, <1>4, <1>6, <2>1, <2>2, <2>3, <2>4, OfferStep DEF t, r
<1>9. CASE held # "free"
  <2>1. offer' = [offer EXCEPT ![i] = held] /\ wb' = [wb EXCEPT ![w] = r] /\ held \in Steps
    BY <1>1, <1>2, <1>7, <1>9 DEF Steps
  <2>2. settled' = settled /\ (held = "accepted" => line[i].ticket \in settled' \cup HoldingOf(r))
    BY <1>1, <1>7, <1>9 DEF t
  <2>3. r = wb[w]
    BY DEF r
  <2>. QED
    BY <1>1, <1>2, <1>3, <1>6, <2>1, <2>2, <2>3, OfferStep
<1>. QED
  BY <1>8, <1>9

-----------------------------------------------------------------------------
(* The command line.                                                         *)

LEMMA OfLine ==
    ASSUME LaunchInv, NEW i \in Invocations
    PROVE  /\ line[i] \in Lines /\ offer[i] \in Steps /\ CallInv(i)
           /\ line \in [Invocations -> Lines] /\ offer \in [Invocations -> Steps]
           /\ offer = [offer EXCEPT ![i] = offer[i]]
           /\ lock = i <=> line[i].pc \in Holders
  BY DEF LaunchInv, LaunchTyped, LockInv

\* It is over, and lets the lock go.
LEMMA GivesUp ==
    ASSUME Launch!NamesAssumption, LaunchInv, NEW i \in Invocations, line[i].pc \in Holders,
           line[i].pc = "wait" => wb[line[i].at].life \notin {"starting", "serving"},
           NEW end \in {"ok", "failed"}, NEW o \in Steps, o \in {offer[i], "none"},
           Launch!Returns(i, end), offer' = [offer EXCEPT ![i] = o],
           end = "ok" /\ line[i].ticket # NoOne => Kept(line[i].ticket),
           UNCHANGED <<descriptor, wb, v6, made, settled>>
    PROVE  LaunchInv'
<1>. DEFINE c == line[i]
            d == [c EXCEPT !.pc = end]
<1>1. c \in Lines /\ lock = i /\ CallInv(i) /\ line \in [Invocations -> Lines]
  BY OfLine
<1>2. line' = [line EXCEPT ![i] = d] /\ lock' = NoOne
  BY <1>1 DEF Launch!Returns, Launch!Goes, Launch!Releases
<1>3. d \in Lines /\ d.pc = end /\ d.at = c.at /\ d.ticket = c.ticket
  BY <1>1 DEF Lines
<1>4. d.pc \notin Holders /\ d.pc \notin {"wait", "launch", "offer"} /\ d.pc \in {"offer", "ok", "failed"}
  BY <1>3 DEF Holders
<1>5. o # "none" => c.at \in Workbenches /\ wb[c.at].life \notin Early /\ c.ticket \in Tickets
  BY <1>1 DEF CallInv
<1>6. c.pc # "ok" /\ (c.pc = "wait" => wb[c.at].life \notin {"starting", "serving"})
      /\ (d.pc = "ok" /\ c.ticket # NoOne => Kept(c.ticket))
  BY <1>3 DEF Holders
<1>7. c = line[i]
  OBVIOUS
<1>. HIDE DEF c, d, lock, descriptor, line, offer, wb, made, settled
<1>. QED
  BY <1>1, <1>2, <1>3, <1>4, <1>5, <1>6, <1>7, CallStep

\* It goes on, under the lock.
LEMMA GoesOn ==
    ASSUME Launch!NamesAssumption, LaunchInv, NEW i \in Invocations, NEW pc \in {"look", "sweep", "launch"},
           line[i].pc \in {"idle", "look", "sweep"}, Launch!Goes(i, pc),
           lock' = i, lock \in {i, NoOne}, UNCHANGED <<offer, wb, v6, made, settled>>,
           \/ descriptor' = descriptor
           \/ descriptor' = NoOne /\ \A w \in Workbenches : wb[w].life = "up" => descriptor # w,
           pc = "launch" => \A w \in Workbenches : ~Launch!Alive(w)
    PROVE  LaunchInv'
<1>. DEFINE c == line[i]
            d == [c EXCEPT !.pc = pc]
            o == offer[i]
<1>1. c \in Lines /\ CallInv(i) /\ line \in [Invocations -> Lines] /\ o \in Steps /\ offer' = [offer EXCEPT ![i] = o]
  BY OfLine
<1>2. line' = [line EXCEPT ![i] = d]
  BY DEF Launch!Goes
<1>3. d \in Lines /\ d.pc = pc /\ d.ticket = c.ticket
  BY <1>1 DEF Lines, Holders
<1>4. o = "none" /\ c.pc \in {"idle", "look", "sweep"} /\ c = line[i]
  BY <1>1 DEF CallInv
<1>5. /\ d.pc \in Holders /\ d.pc # "wait" /\ d.pc # "ok" /\ d.pc # "offer" /\ c.pc # "ok" /\ c.pc # "wait"
      /\ d.pc = "launch" => \A w \in Workbenches : ~Launch!Alive(w)
  BY <1>3, <1>4 DEF Holders
<1>6. (lock' = i /\ lock \in {i, NoOne} /\ d.pc \in Holders) \/ (lock = i /\ lock' = NoOne /\ d.pc \notin Holders)
  BY <1>5
<1>. HIDE DEF c, d, o, lock, descriptor, line, offer, wb, made, settled
<1>. QED
  BY <1>1, <1>2, <1>3, <1>4, <1>5, <1>6, CallStep

LEMMA LockSound ==
    ASSUME Launch!NamesAssumption, LaunchInv, NEW i \in Invocations, Launch!Lock(i)
    PROVE  LaunchInv'
<1>1. /\ line[i].pc = "idle" /\ lock = NoOne /\ lock' = i /\ Launch!Goes(i, "look")
      /\ UNCHANGED <<descriptor, offer, wb, v6, made, settled>>
  BY DEF Launch!Lock
<1>. HIDE DEF lock, descriptor, line, offer, wb, made, settled
<1>. QED
  BY <1>1, GoesOn

LEMMA DiscoverSound ==
    ASSUME Launch!NamesAssumption, LaunchInv, NEW i \in Invocations, Launch!Discover(i)
    PROVE  LaunchInv'
<1>. DEFINE c == line[i]
<1>1. /\ c \in Lines /\ CallInv(i) /\ line \in [Invocations -> Lines] /\ offer[i] \in Steps
      /\ offer = [offer EXCEPT ![i] = offer[i]] /\ (lock = i <=> c.pc \in Holders) /\ c = line[i]
  BY OfLine
<1>2. c.pc = "look" /\ UNCHANGED <<wb, v6, made, settled>>
  BY DEF Launch!Discover
<1>3. lock = i /\ offer[i] = "none" /\ c.pc \in Holders
  BY <1>1, <1>2 DEF Holders, CallInv
<1>4. CASE Launch!Returns(i, "failed") /\ UNCHANGED <<descriptor, offer>>
  BY <1>1, <1>2, <1>3, <1>4, GivesUp
<1>5. CASE /\ descriptor # NoOne /\ Launch!Answers(descriptor) /\ c.ticket # NoOne
           /\ line' = [line EXCEPT ![i].pc = "offer", ![i].at = descriptor]
           /\ offer' = [offer EXCEPT ![i] = "sent"] /\ UNCHANGED <<lock, descriptor>>
  <2>. DEFINE d == [c EXCEPT !.pc = "offer", !.at = descriptor]
  <2>1. descriptor \in Workbenches
    BY <1>5 DEF LaunchInv, LaunchTyped
  <2>2. line' = [line EXCEPT ![i] = d]
    BY <1>1, <1>5
  <2>3. d \in Lines /\ d.pc = "offer" /\ d.at = descriptor /\ d.ticket = c.ticket
    BY <1>1, <2>1 DEF Lines, Holders
  <2>4. wb[descriptor].life \notin Early /\ wb[descriptor].move # "handed" /\ wb[descriptor] \in Records
    BY <2>1, OfWorkbench DEF Placed
  <2>5. wb[descriptor].move \notin Locked
    BY <1>3, <2>1, HeldByOne
  <2>6. wb[descriptor].move \in Unlocked
    BY <2>4, <2>5 DEF Records
  <2>7. c.ticket \in Tickets /\ "sent" \in Steps /\ d.pc \in Holders
    BY <1>1, <1>5, <2>3 DEF Lines, Steps, Holders
  <2>. HIDE DEF c, d, lock, descriptor, line, offer, wb, made, settled
  <2>. QED
    BY <1>1, <1>2, <1>3, <1>5, <2>1, <2>2, <2>3, <2>4, <2>6, <2>7, CallStep
<1>6. CASE /\ ~(descriptor # NoOne /\ Launch!Answers(descriptor))
           /\ descriptor' = NoOne /\ Launch!Goes(i, "sweep") /\ UNCHANGED <<lock, offer>>
  <2>1. \A w \in Workbenches : wb[w].life = "up" => descriptor # w
    BY <1>6 DEF Launch!Answers, Launch!NamesAssumption
  <2>. HIDE DEF c, lock, descriptor, line, offer, wb, made, settled
  <2>. QED
    BY <1>1, <1>2, <1>3, <1>6, <2>1, GoesOn
<1>. QED
  BY <1>4, <1>5, <1>6 DEF Launch!Discover

LEMMA SweepSound ==
    ASSUME Launch!NamesAssumption, LaunchInv, NEW i \in Invocations, Launch!Sweep(i)
    PROVE  LaunchInv'
<1>. DEFINE c == line[i]
<1>1. /\ c \in Lines /\ CallInv(i) /\ line \in [Invocations -> Lines] /\ offer[i] \in Steps
      /\ offer = [offer EXCEPT ![i] = offer[i]] /\ (lock = i <=> c.pc \in Holders) /\ c = line[i]
  BY OfLine
<1>2. c.pc = "sweep" /\ UNCHANGED <<descriptor, offer, wb, v6, made, settled>>
  BY DEF Launch!Sweep
<1>3. lock = i /\ offer[i] = "none" /\ c.pc \in Holders
  BY <1>1, <1>2 DEF Holders, CallInv
<1>4. CASE Launch!Returns(i, "failed")
  BY <1>1, <1>2, <1>3, <1>4, GivesUp
<1>5. CASE (\A w \in Workbenches : ~Launch!Answers(w)) /\ Launch!Goes(i, "launch") /\ UNCHANGED lock
  <2>1. ASSUME NEW w \in Workbenches PROVE ~Launch!Alive(w)
    <3>1. \A j \in Invocations : line[j].pc # "wait"
      BY <1>2, <1>3, HeldByOne DEF Holders
    <3>2. \A v \in Workbenches : wb[v].move # "waits"
      BY <1>3, HeldByOne DEF Locked
    <3>3. wb[w].life \notin {"starting", "serving"}
      BY <3>1, <3>2 DEF LaunchInv, Awaited
    <3>4. wb[w].life \in Early \cup Late \cup {"gone"}
      BY OfWorkbench DEF Records
    <3>. QED
      BY <3>3, <3>4, <1>5 DEF Launch!Answers, Launch!Alive, Early, Late
  <2>. HIDE DEF c, lock, descriptor, line, offer, wb, made, settled
  <2>. QED
    BY <1>1, <1>2, <1>3, <1>5, <2>1, GoesOn
<1>. QED
  BY <1>4, <1>5 DEF Launch!Sweep

LEMMA WaitedSound ==
    ASSUME Launch!NamesAssumption, LaunchInv, NEW i \in Invocations, Launch!Waited(i)
    PROVE  LaunchInv'
<1>. DEFINE v == line[i].at
<1>1. CallInv(i) /\ offer = [offer EXCEPT ![i] = offer[i]] /\ offer[i] \in Steps
  BY OfLine
<1>2. line[i].pc = "wait" /\ UNCHANGED <<descriptor, offer, wb, v6, made, settled>>
  BY DEF Launch!Waited
<1>3. v \in Workbenches /\ wb[v].move \in Unlocked
      /\ (line[i].ticket # NoOne => line[i].ticket \in settled \cup Launch!Holding(v) \/ wb[v].life = "gone")
  BY <1>1, <1>2 DEF CallInv
<1>4. "wait" \in Holders /\ {"ok", "failed"} = {"failed", "ok"} /\ offer' = [offer EXCEPT ![i] = offer[i]]
  BY <1>1, <1>2 DEF Holders
<1>5. CASE Launch!Ready(v) /\ Launch!Returns(i, "ok")
  <2>1. descriptor = v /\ wb[v].life \in {"serving", "up", "leaving", "unpublished"}
    BY <1>5 DEF Launch!Ready, Launch!Answers
  <2>2. Placed(v) /\ wb[v].life \notin {"starting", "serving"} /\ wb[v].move # "handed"
    BY <1>3, <2>1, OfWorkbench DEF Placed, Early
  <2>3. CASE wb[v].life = "up"
    <3>1. Good(v)
      BY <2>2, <2>3 DEF Good, Launch!Alive
    <3>2. line[i].ticket # NoOne => Kept(line[i].ticket)
      BY <3>1, <1>3, <2>3 DEF Kept
    <3>. HIDE DEF lock, descriptor, line, offer, wb, made, settled
    <3>. QED
      BY <3>2, <1>1, <1>2, <1>4, <1>5, <2>2, GivesUp DEF v
  <2>4. CASE wb[v].life \in {"leaving", "unpublished"}
    <3>1. line[i].ticket # NoOne => Kept(line[i].ticket)
      BY <1>3, <2>2, <2>4 DEF Kept, Placed
    <3>. HIDE DEF lock, descriptor, line, offer, wb, made, settled
    <3>. QED
      BY <3>1, <1>1, <1>2, <1>4, <1>5, <2>2, GivesUp DEF v
  <2>. QED
    BY <2>1, <2>2, <2>3, <2>4
<1>6. CASE wb[v].life = "gone" /\ Launch!Returns(i, "failed")
  <2>1. wb[line[i].at].life \notin {"starting", "serving"}
    BY <1>6
  <2>. HIDE DEF lock, descriptor, line, offer, wb, made, settled, v
  <2>. QED
    BY <2>1, <1>1, <1>2, <1>4, <1>6, GivesUp
<1>. QED
  BY <1>5, <1>6 DEF Launch!Waited

LEMMA OfferEnds ==
    ASSUME Launch!NamesAssumption, LaunchInv, NEW i \in Invocations, Launch!Replied(i) \/ Launch!Unanswered(i)
    PROVE  LaunchInv'
<1>1. CallInv(i) /\ offer = [offer EXCEPT ![i] = offer[i]] /\ offer[i] \in Steps /\ "none" \in Steps
  BY OfLine DEF Steps
<1>2. line[i].pc = "offer" /\ UNCHANGED <<descriptor, wb, v6, made, settled>>
  BY DEF Launch!Replied, Launch!Unanswered
<1>3. /\ "offer" \in Holders /\ {"ok", "failed"} = {"failed", "ok"}
      /\ offer[i] = "accepted" => Kept(line[i].ticket)
  BY <1>1, <1>2 DEF Holders, CallInv
<1>4. CASE offer[i] = "accepted" /\ Launch!Returns(i, "ok") /\ offer' = [offer EXCEPT ![i] = "none"]
  <2>. HIDE DEF lock, descriptor, line, offer, wb, made, settled
  <2>. QED
    BY <1>1, <1>2, <1>3, <1>4, GivesUp
<1>5. ASSUME NEW o \in {offer[i], "none"}, Launch!Returns(i, "failed"), offer' = [offer EXCEPT ![i] = o]
      PROVE  LaunchInv'
  <2>. HIDE DEF lock, descriptor, line, offer, wb, made, settled
  <2>. QED
    BY <1>1, <1>2, <1>3, <1>5, GivesUp
<1>6. CASE Launch!Replied(i)
  BY <1>4, <1>5, <1>6 DEF Launch!Replied
<1>7. CASE Launch!Unanswered(i)
  BY <1>1, <1>5, <1>7 DEF Launch!Unanswered
<1>. QED
  BY <1>6, <1>7

LEMMA InterruptedSound ==
    ASSUME Launch!NamesAssumption, LaunchInv, NEW i \in Invocations, Launch!Interrupted(i)
    PROVE  LaunchInv'
<1>1. offer = [offer EXCEPT ![i] = offer[i]] /\ offer[i] \in Steps
  BY OfLine
<1>2. /\ line[i].pc \in Holders /\ line[i].pc # "wait" /\ Launch!Returns(i, "failed")
      /\ UNCHANGED <<descriptor, offer, wb, v6, made, settled>>
  BY DEF Launch!Interrupted, Holders
<1>. HIDE DEF lock, descriptor, line, offer, wb, made, settled
<1>. QED
  BY <1>1, <1>2, GivesUp

-----------------------------------------------------------------------------
(* The end of a workbench.                                                   *)

LEMMA TimedOutSound ==
    ASSUME Launch!NamesAssumption, LaunchInv, NEW i \in Invocations, Launch!TimedOut(i)
    PROVE  LaunchInv'
<1>. DEFINE w == line[i].at
            d == [line[i] EXCEPT !.pc = "failed"]
<1>1. /\ line[i] \in Lines /\ CallInv(i) /\ line \in [Invocations -> Lines] /\ offer[i] \in Steps
      /\ offer = [offer EXCEPT ![i] = offer[i]] /\ (lock = i <=> line[i].pc \in Holders)
  BY OfLine
<1>2. /\ line[i].pc = "wait" /\ wb' = [wb EXCEPT ![w] = Launch!Gone] /\ Launch!Returns(i, "failed")
      /\ UNCHANGED <<descriptor, offer, v6, made, settled>>
  BY DEF Launch!TimedOut, Launch!Dies
<1>3. w \in Workbenches /\ wb[w].life # "none" /\ wb[w].move \in Unlocked /\ Promised \subseteq settled
  BY <1>1, <1>2 DEF CallInv
<1>4. lock = i /\ lock' = NoOne /\ line' = [line EXCEPT ![i] = d]
  BY <1>1, <1>2 DEF Launch!Returns, Launch!Goes, Launch!Releases, Holders
<1>5. CASE wb[w].life = "gone"
  <2>1. wb[w] = Launch!Gone /\ wb \in [Workbenches -> Records]
    BY <1>3, <1>5, OfWorkbench DEF Sound
  <2>2. wb' = wb
    BY <1>2, <2>1
  <2>3. line[i].pc \in Holders /\ offer' = [offer EXCEPT ![i] = offer[i]] /\ "failed" \in {"ok", "failed"}
    BY <1>1, <1>2 DEF Holders
  <2>4. wb[line[i].at].life \notin {"starting", "serving"}
    BY <1>5
  <2>. HIDE DEF w, d, lock, descriptor, line, offer, wb, made, settled
  <2>. QED
    BY <1>1, <1>2, <2>2, <2>3, <2>4, GivesUp
<1>6. CASE wb[w].life # "gone"
  <2>1. Launch!Alive(w) /\ wb[w].move # "waits"
    BY <1>3, <1>6 DEF Launch!Alive, Unlocked
  <2>2. \A j \in Invocations : line'[j] = IF j = i THEN d ELSE line[j]
    BY <1>1, <1>4
  <2>3. d \in Lines /\ d.pc = "failed"
    BY <1>1 DEF Lines
  <2>4. \A j \in Invocations \ {i} : line[j].pc \notin Holders
    BY <1>2, HeldByOne DEF Holders
  <2>5. \A u \in Workbenches : wb[u].move \notin Locked
    BY <1>2, HeldByOne DEF Holders
  <2>6. \A u \in Workbenches : wb'[u] = wb[u] \/ wb'[u].move = "no"
    BY <1>2, OfWorkbench, BlankIs DEF Launch!Gone
  <2>7. \A j \in Invocations : line[j].pc # "offer"
    BY <1>2, <2>4 DEF Holders
  <2>8. settled' \subseteq Tickets /\ line' \in [Invocations -> Lines]
    BY <1>1, <1>2, <1>4, <2>3 DEF LaunchInv, LaunchTyped
  <2>. HIDE DEF w, d, lock, descriptor, line, offer, wb, made, settled
  <2>9. LockInv'
    BY <1>4, <2>2, <2>3, <2>4, <2>5, <2>6 DEF LockInv, Holders, Locked, Launch!NamesAssumption
  <2>10. \A j \in Invocations : \/ line'[j] = line[j]
                                \/ /\ line[j].pc = "wait" /\ line[j].at = w
                                   /\ line'[j] = [line[j] EXCEPT !.pc = "failed"]
    BY <1>2, <2>2 DEF w, d
  <2>. QED
    BY <1>2, <1>3, <1>4, <2>1, <2>7, <2>8, <2>9, <2>10, Death
<1>. QED
  BY <1>5, <1>6

\* It dies, and lets go of the lock if it held it.
LEMMA DiesSound ==
    ASSUME Launch!NamesAssumption, LaunchInv, NEW w \in Workbenches, Launch!Alive(w), wb[w].move # "waits",
           Launch!Dies(w), Launch!Releases(w), UNCHANGED <<descriptor, line, offer, v6, made>>,
           settled \subseteq settled', settled' \subseteq Tickets,
           Good(w) => \/ HoldingOf(wb[w]) \subseteq settled'
                      \/ /\ \A i \in Invocations : line[i].pc # "offer"
                         /\ \/ Promised \subseteq settled
                            \/ \E v \in Workbenches \ {w} :
                                  Good(v) /\ Promised \subseteq settled \cup Launch!Holding(v)
    PROVE  LaunchInv'
<1>1. wb' = [wb EXCEPT ![w] = Launch!Gone] /\ lock' = (IF lock = w THEN NoOne ELSE lock)
  BY DEF Launch!Dies, Launch!Releases
<1>2. LaunchTyped /\ LockInv
  BY DEF LaunchInv
<1>3. \A u \in Workbenches : wb'[u] = IF u = w THEN Launch!Gone ELSE wb[u]
  BY <1>1, <1>2 DEF LaunchTyped
<1>4. Launch!Gone.move = "no"
  BY BlankIs DEF Launch!Gone
<1>5. Launch!Holding(w) = HoldingOf(wb[w])
  BY DEF Launch!Holding, HoldingOf
<1>. HIDE DEF lock, descriptor, line, offer, wb, made, settled
<1>6. LockInv'
  BY <1>1, <1>2, <1>3, <1>4 DEF LockInv, Locked, Launch!NamesAssumption
<1>7. ASSUME NEW t \in Tickets,
             \/ t \in Promised
             \/ \E i \in Invocations : line[i].pc = "offer" /\ offer[i] = "accepted" /\ t = line[i].ticket
      PROVE  t \in settled' \/ \E u \in Workbenches \ {w} : Good(u) /\ t \in Launch!Holding(u)
  <2>1. Kept(t)
    BY <1>7 DEF LaunchInv, CallInv
  <2>2. CASE t \in settled \/ \E u \in Workbenches \ {w} : Good(u) /\ t \in Launch!Holding(u)
    BY <2>2
  <2>3. CASE Good(w) /\ t \in Launch!Holding(w)
    BY <2>3, <1>5, <1>7
  <2>. QED
    BY <2>1, <2>2, <2>3 DEF Kept
<1>8. lock' \in {lock, NoOne} /\ line' \in [Invocations -> Lines] /\ (\A i \in Invocations : line'[i] = line[i])
  BY <1>1, <1>2 DEF LaunchTyped
<1>. QED
  BY <1>1, <1>6, <1>7, <1>8, Death

LEMMA ExitSound ==
    ASSUME Launch!NamesAssumption, LaunchInv, NEW w \in Workbenches, Launch!Exit(w)
    PROVE  LaunchInv'
<1>1. /\ wb[w].life = "unpublished" /\ Launch!Dies(w) /\ Launch!Releases(w)
      /\ UNCHANGED <<descriptor, line, offer, v6, made, settled>>
  BY DEF Launch!Exit
<1>2. Launch!Alive(w) /\ ~Good(w) /\ wb[w].move # "waits"
  BY <1>1, OfWorkbench DEF Launch!Alive, Good, Sound, Locked
<1>3. settled \subseteq settled' /\ settled' \subseteq Tickets
  BY <1>1 DEF LaunchInv, LaunchTyped
<1>. HIDE DEF lock, descriptor, line, offer, wb, made, settled
<1>. QED
  BY <1>1, <1>2, <1>3, DiesSound

LEMMA CrashSound ==
    ASSUME Launch!NamesAssumption, LaunchInv, NEW w \in Workbenches, Launch!Crash(w)
    PROVE  LaunchInv'
<1>1. /\ Launch!Alive(w) /\ wb[w].move # "waits" /\ Launch!Dies(w) /\ Launch!Releases(w)
      /\ settled' = IF wb[w].move = "handed" \/ wb[w].life = "starting" THEN settled
                    ELSE settled \cup Launch!Holding(w)
      /\ UNCHANGED <<descriptor, line, offer, v6, made>>
  BY DEF Launch!Crash
<1>2. Launch!Holding(w) = HoldingOf(wb[w]) /\ Launch!Holding(w) \subseteq Tickets
  BY DEF Launch!Holding, HoldingOf
<1>3. settled \subseteq settled' /\ settled' \subseteq Tickets
  BY <1>1, <1>2 DEF LaunchInv, LaunchTyped
<1>4. Good(w) => wb[w].move # "handed"
  BY DEF Good
<1>. HIDE DEF lock, descriptor, line, offer, wb, made, settled
<1>5. ASSUME wb[w].life = "starting"
      PROVE  /\ \A i \in Invocations : line[i].pc # "offer"
             /\ \/ Promised \subseteq settled
                \/ \E v \in Workbenches \ {w} : Good(v) /\ Promised \subseteq settled \cup Launch!Holding(v)
  <2>1. Awaited(w)
    BY <1>5 DEF LaunchInv
  <2>2. ASSUME NEW j \in Invocations, line[j].pc = "wait"
        PROVE  (\A i \in Invocations : line[i].pc # "offer") /\ Promised \subseteq settled
    <3>1. Promised \subseteq settled
      BY <2>2 DEF LaunchInv, CallInv
    <3>2. \A i \in Invocations : line[i].pc # "offer"
      BY <2>2, HeldByOne DEF Holders
    <3>. QED
      BY <3>1, <3>2
  <2>3. ASSUME NEW v \in Workbenches, wb[v].move = "waits"
        PROVE  /\ \A i \in Invocations : line[i].pc # "offer"
               /\ v \in Workbenches \ {w} /\ Good(v) /\ Promised \subseteq settled \cup Launch!Holding(v)
    <3>1. wb[v].life = "up" /\ \A i \in Invocations : line[i].pc \notin Holders
      BY <2>3, UnderTheLock DEF Locked
    <3>2. v # w
      BY <3>1, <1>5
    <3>3. Good(v)
      BY <3>1, <2>3 DEF Good, Launch!Alive, wb
    <3>4. Promised \subseteq settled \cup Launch!Holding(v)
      BY <2>3 DEF LaunchInv, WaitsInv
    <3>. QED
      BY <3>1, <3>2, <3>3, <3>4 DEF Holders
  <2>. QED
    BY <2>1, <2>2, <2>3 DEF Awaited
<1>6. Good(w) /\ wb[w].life # "starting" => HoldingOf(wb[w]) \subseteq settled'
  BY <1>1, <1>2, <1>4
<1>. QED
  BY <1>1, <1>3, <1>5, <1>6, DiesSound

-----------------------------------------------------------------------------
LEMMA LaunchInitially ==
    ASSUME Launch!NamesAssumption, Launch!Init PROVE LaunchInv
<1>. USE DEF Launch!Init
<1>1. /\ \A w \in Workbenches : wb[w] = Launch!Blank
      /\ \A i \in Invocations : line[i].pc = "idle" /\ offer[i] = "none"
  OBVIOUS
<1>2. LaunchTyped
  <2>1. wb \in [Workbenches -> Records]
    BY BlankIs
  <2>2. line \in [Invocations -> Lines]
    BY DEF Lines
  <2>3. offer \in [Invocations -> Steps]
    BY DEF Steps
  <2>. QED
    BY <2>1, <2>2, <2>3 DEF LaunchTyped
<1>3. lock = NoOne /\ descriptor = NoOne /\ settled = {}
  OBVIOUS
<1>. HIDE DEF lock, descriptor, line, offer, wb, made, settled, Launch!Init
<1>4. LockInv
  BY <1>1, <1>3, BlankIs DEF LockInv, Holders, Locked, Launch!NamesAssumption
<1>5. \A w \in Workbenches : Placed(w) /\ WaitsInv(w)
  BY <1>1, <1>3, BlankIs DEF Placed, WaitsInv, Sound, Locked, Launch!NamesAssumption
<1>6. /\ \A w \in Workbenches : wb[w].life \notin {"starting", "serving"}
      /\ Launch!OneWorkbench
  BY <1>1, BlankIs DEF Launch!OneWorkbench, Launch!Alive, wb
<1>7. \A i \in Invocations : CallInv(i)
  BY <1>1 DEF CallInv
<1>8. Promised = {}
  BY <1>1 DEF Promised
<1>. QED
  BY <1>2, <1>4, <1>5, <1>6, <1>7, <1>8 DEF LaunchInv

LEMMA LaunchStep ==
    ASSUME Launch!NamesAssumption, LaunchInv, Launch!Next PROVE LaunchInv'
<1>1. ASSUME NEW i \in Invocations,
             \/ Launch!Lock(i) \/ Launch!Invokes(i) \/ Launch!TimedOut(i)
             \/ Launch!Unanswered(i) \/ Launch!Interrupted(i)
             \/ Launch!OfferHeld(i) \/ Launch!OfferScan(i) \/ Launch!OfferTake(i)
      PROVE  LaunchInv'
  <2>1. CASE Launch!Invokes(i)
    BY <2>1, DiscoverSound, SweepSound, DetachSound, WaitedSound, OfferEnds DEF Launch!Invokes
  <2>2. CASE Launch!Lock(i) \/ Launch!TimedOut(i) \/ Launch!Unanswered(i) \/ Launch!Interrupted(i)
    BY <2>2, LockSound, TimedOutSound, OfferEnds, InterruptedSound
  <2>3. CASE Launch!OfferHeld(i) \/ Launch!OfferScan(i) \/ Launch!OfferTake(i)
    BY <2>3, OfferHeldSound, OfferScanSound, OfferTakeSound
  <2>. QED
    BY <1>1, <2>1, <2>2, <2>3
<1>2. ASSUME NEW w \in Workbenches,
             \/ Launch!Serve(w) \/ Launch!StartupOffer(w) \/ Launch!Publish(w)
             \/ Launch!Begin(w) \/ Launch!Create(w) \/ Launch!End(w)
      PROVE  LaunchInv'
  BY <1>2, ServeSound, StartupOfferSound, PublishSound, OverlayOpens, CreateSound, EndSound
<1>3. ASSUME NEW w \in Workbenches,
             \/ Launch!Welcome(w) \/ Launch!AskRelaunch(w) \/ Launch!LockRelaunch(w)
             \/ Launch!Relaunch(w) \/ Launch!Relaunched(w) \/ Launch!RelaunchFailed(w)
      PROVE  LaunchInv'
  BY <1>3, WelcomeSound, AskRelaunchSound, LockRelaunchSound, RelaunchSound, RelaunchedSound, RelaunchFailedSound
<1>4. ASSUME NEW w \in Workbenches,
             Launch!Quit(w) \/ Launch!Unpublish(w) \/ Launch!Exit(w) \/ Launch!Crash(w)
      PROVE  LaunchInv'
  BY <1>4, QuitSound, UnpublishSound, ExitSound, CrashSound
<1>. QED
  BY <1>1, <1>2, <1>3, <1>4 DEF Launch!Next

LEMMA LaunchShow ==
    ASSUME LaunchInv, Launch!NamesAssumption
    PROVE  Launch!TypeOK /\ Launch!OneWorkbench /\ Launch!Findable /\ Launch!TicketKept
<1>1. Launch!TypeOK
  BY LaunchTypes DEF LaunchInv, Placed
<1>2. Launch!Findable
  BY DEF LaunchInv, Placed, Launch!Findable
<1>3. ASSUME NEW i \in Invocations, line[i].pc = "ok", line[i].ticket # NoOne
      PROVE  \/ line[i].ticket \in settled
             \/ \E w \in Workbenches : /\ Launch!Alive(w) /\ wb[w].life \notin {"leaving", "unpublished"}
                                       /\ wb[w].move # "handed" /\ line[i].ticket \in Launch!Holding(w)
  <2>1. line[i].ticket \in Promised
    BY <1>3, OfLine DEF Promised, Lines
  <2>. QED
    BY <2>1 DEF LaunchInv, Kept, Good
<1>. QED
  BY <1>1, <1>2, <1>3 DEF LaunchInv, Launch!TicketKept

\* Of one workbench, from r to q: what waited still does, or went to the draft.
Keeps(r, q) ==
    r.pending # NoOne /\ q.life # "gone" => q.pending = r.pending \/ (q.pending = NoOne /\ q.draft = r.pending)

LEMMA LaunchDisplacesNone ==
    ASSUME LaunchInv, Launch!NamesAssumption, Launch!Next PROVE Launch!DisplacesNone
<1>1. SUFFICES \A u \in Workbenches : Keeps(wb[u], wb'[u])
  BY DEF Launch!DisplacesNone, Keeps
<1>2. wb \in [Workbenches -> Records] /\ \A u \in Workbenches : Sound(u, wb[u])
  BY OfWorkbench DEF LaunchInv, LaunchTyped
<1>3. ASSUME NEW w, NEW q, wb' = [wb EXCEPT ![w] = q], w \in Workbenches => Keeps(wb[w], q)
      PROVE  \A u \in Workbenches : Keeps(wb[u], wb'[u])
  BY <1>2, <1>3 DEF Keeps
<1>4. CASE UNCHANGED wb
  BY <1>4 DEF Keeps
<1>5. Launch!Gone.life = "gone"
  BY BlankIs DEF Launch!Gone, Records, Early
<1>6. ASSUME NEW w, wb' = [wb EXCEPT ![w] = Launch!Gone] PROVE \A u \in Workbenches : Keeps(wb[u], wb'[u])
  BY <1>3, <1>5, <1>6 DEF Keeps
<1>7. ASSUME NEW u \in Workbenches, u \in Launch!Fresh PROVE wb[u].pending = NoOne
  BY <1>2, <1>7, BlankIs DEF Sound, Launch!Fresh
<1>8. ASSUME NEW i \in Invocations,
             \/ Launch!Lock(i) \/ Launch!Invokes(i) \/ Launch!TimedOut(i)
             \/ Launch!Unanswered(i) \/ Launch!Interrupted(i)
             \/ Launch!OfferHeld(i) \/ Launch!OfferScan(i) \/ Launch!OfferTake(i)
      PROVE  \A u \in Workbenches : Keeps(wb[u], wb'[u])
  <2>1. CASE Launch!Lock(i) \/ Launch!Discover(i) \/ Launch!Sweep(i) \/ Launch!Waited(i) \/ Launch!Replied(i)
             \/ Launch!Unanswered(i) \/ Launch!Interrupted(i) \/ Launch!OfferHeld(i)
    BY <2>1, <1>4 DEF Launch!Lock, Launch!Discover, Launch!Sweep, Launch!Waited, Launch!Replied,
                      Launch!Unanswered, Launch!Interrupted, Launch!OfferHeld
  <2>2. CASE Launch!Detach(i)
    <3>1. PICK w, s : w \in Launch!Fresh /\ wb' = [wb EXCEPT ![w] = s]
      BY <2>2 DEF Launch!Detach
    <3>. QED
      BY <3>1, <1>3, <1>7 DEF Keeps
  <2>3. CASE Launch!TimedOut(i)
    BY <2>3, <1>6 DEF Launch!TimedOut, Launch!Dies
  <2>4. CASE Launch!OfferScan(i) \/ Launch!OfferTake(i)
    <3>. DEFINE w == line[i].at  t == line[i].ticket
    <3>1. w \in Workbenches
      BY <2>4, OfferUnderWay DEF Launch!OfferScan, Launch!OfferTake, Launch!Offered
    <3>2. \/ UNCHANGED wb
          \/ wb' = [wb EXCEPT ![w] = [wb[w] EXCEPT !.gate = FALSE]]
          \/ wb' = [wb EXCEPT ![w] = [wb[w] EXCEPT !.pending = t]] /\ wb[w].pending = NoOne
      BY <2>4 DEF Launch!OfferScan, Launch!OfferTake, Launch!Held
    <3>3. [wb[w] EXCEPT !.gate = FALSE].pending = wb[w].pending
      BY <1>2, <3>1 DEF Records
    <3>. QED
      BY <3>1, <3>2, <3>3, <1>3, <1>4 DEF Keeps
  <2>. QED
    BY <1>8, <2>1, <2>2, <2>3, <2>4 DEF Launch!Invokes
<1>9. ASSUME NEW w \in Workbenches, Launch!Relaunch(w) \/ Launch!RelaunchFailed(w)
      PROVE  \A u \in Workbenches : Keeps(wb[u], wb'[u])
  <2>1. PICK v, s, move, child :
           /\ wb' = [wb EXCEPT ![w].move = move, ![w].child = child, ![v] = s]
           /\ s = Launch!Gone \/ v \in Launch!Fresh
    <3>1. CASE Launch!Relaunch(w)
      BY <3>1 DEF Launch!Relaunch
    <3>2. CASE Launch!RelaunchFailed(w)
      <4>1. wb' = [wb EXCEPT ![w].move = "no", ![w].child = wb[w].child, ![wb[w].child] = Launch!Gone]
        BY <3>2, <1>2 DEF Launch!RelaunchFailed, Records
      <4>. QED
        BY <4>1
    <3>. QED
      BY <3>1, <3>2, <1>9
  <2>2. ASSUME NEW u \in Workbenches PROVE Keeps(wb[u], wb'[u])
    <3>1. CASE u = v
      BY <3>1, <2>1, <1>2, <1>5, <1>7 DEF Keeps
    <3>2. CASE u # v /\ u = w
      <4>1. wb[w] \in Records
        BY <1>2
      <4>2. wb'[w] = [wb[w] EXCEPT !.move = move, !.child = child]
        BY <3>2, <2>1, <1>2
      <4>. QED
        BY <3>2, <4>1, <4>2 DEF Keeps, Records
    <3>3. CASE u # v /\ u # w
      <4>1. wb'[u] = wb[u]
        BY <3>3, <2>1, <1>2
      <4>. QED
        BY <4>1 DEF Keeps
    <3>. QED
      BY <3>1, <3>2, <3>3
  <2>. QED
    BY <2>2
<1>10. ASSUME NEW w \in Workbenches,
             \/ Launch!Serve(w) \/ Launch!Publish(w) \/ Launch!Create(w) \/ Launch!Welcome(w)
             \/ Launch!AskRelaunch(w) \/ Launch!LockRelaunch(w) \/ Launch!Relaunched(w)
             \/ Launch!Quit(w) \/ Launch!Unpublish(w)
      PROVE  \A u \in Workbenches : Keeps(wb[u], wb'[u])
  <2>1. \A u \in Workbenches : wb'[u].pending = wb[u].pending
    <3>1. wb[w] \in Records
      BY <1>2
    <3>2. CASE Launch!Serve(w) \/ Launch!Publish(w) \/ Launch!Quit(w) \/ Launch!Unpublish(w)
      <4>1. PICK life : wb' = [wb EXCEPT ![w].life = life]
        BY <3>2 DEF Launch!Serve, Launch!Publish, Launch!Quit, Launch!Unpublish
      <4>. QED
        BY <4>1, <3>1, <1>2 DEF Records
    <3>3. CASE Launch!Create(w) \/ Launch!Welcome(w)
      <4>1. wb' = [wb EXCEPT ![w].gate = FALSE]
        BY <3>3 DEF Launch!Create, Launch!Welcome
      <4>. QED
        BY <4>1, <3>1, <1>2 DEF Records
    <3>4. CASE Launch!LockRelaunch(w) \/ Launch!Relaunched(w)
      <4>1. PICK move : wb' = [wb EXCEPT ![w].move = move]
        BY <3>4 DEF Launch!LockRelaunch, Launch!Relaunched
      <4>. QED
        BY <4>1, <3>1, <1>2 DEF Records
    <3>5. CASE Launch!AskRelaunch(w)
      <4>1. wb' = [wb EXCEPT ![w].move = "asks", ![w].carries = wb[w].gate]
        BY <3>5 DEF Launch!AskRelaunch
      <4>. QED
        BY <4>1, <3>1, <1>2 DEF Records
    <3>. QED
      BY <3>2, <3>3, <3>4, <3>5, <1>10
  <2>. QED
    BY <2>1 DEF Keeps
<1>11. ASSUME NEW w \in Workbenches, Launch!StartupOffer(w) \/ Launch!Begin(w) \/ Launch!End(w)
      PROVE  \A u \in Workbenches : Keeps(wb[u], wb'[u])
  <2>. DEFINE r == wb[w]
  <2>1. r \in Records /\ Sound(w, r)
    BY <1>2
  <2>2. CASE Launch!StartupOffer(w)
    <3>1. r.pending = NoOne
      BY <2>1, <2>2 DEF Launch!StartupOffer, Sound
    <3>2. PICK q : wb' = [wb EXCEPT ![w] = q]
      BY <2>2 DEF Launch!StartupOffer
    <3>. QED
      BY <3>1, <3>2, <1>3 DEF Keeps
  <2>3. CASE Launch!Begin(w)
    <3>. DEFINE begun == IF r.pending = NoOne THEN ByHand ELSE r.pending
                q == [r EXCEPT !.draft = begun, !.pending = NoOne]
    <3>1. wb' = [wb EXCEPT ![w] = q]
      BY <2>3, <1>2 DEF Launch!Begin
    <3>2. q.draft = begun /\ q.pending = NoOne
      BY <2>1 DEF Records
    <3>. QED
      BY <3>1, <3>2, <1>3 DEF Keeps
  <2>4. CASE Launch!End(w)
    <3>. DEFINE q == [r EXCEPT !.draft = NoOne]
    <3>1. wb' = [wb EXCEPT ![w] = q]
      BY <2>4, <1>2 DEF Launch!End
    <3>2. q.pending = r.pending
      BY <2>1 DEF Records
    <3>. QED
      BY <3>1, <3>2, <1>3 DEF Keeps
  <2>. QED
    BY <1>11, <2>2, <2>3, <2>4
<1>12. ASSUME NEW w \in Workbenches, Launch!Exit(w) \/ Launch!Crash(w)
      PROVE  \A u \in Workbenches : Keeps(wb[u], wb'[u])
  BY <1>6, <1>12 DEF Launch!Exit, Launch!Crash, Launch!Dies
<1>. QED
  BY <1>8, <1>9, <1>10, <1>11, <1>12 DEF Launch!Next

-----------------------------------------------------------------------------
(* The picker's list.                                                        *)

Lists == INSTANCE RepositoriesProofs WITH
    Owner <- Owners, MaxGen <- Presses, MaxEdits <- OwnerEdits, configured <- v1, repos <- v2,
    errs <- v3, gen <- v4, runs <- v5, disk <- v6, ownerEdits <- v7

\* The list as it is checked is the list as it is proved.
LEMMA SameList ==
    /\ Repositories!RepositoriesAssumption => Lists!RepositoriesAssumption
    /\ Repositories!RepoInit <=> Lists!RepoInit
    /\ Repositories!RepoNext <=> Lists!RepoNext
    /\ Repositories!RepoTypeOK <=> Lists!RepoTypeOK
    /\ Repositories!NotOlder <=> Lists!NotOlder
<1>1. Repositories!RepositoriesAssumption => Lists!RepositoriesAssumption
  BY DEF Repositories!RepositoriesAssumption, Lists!RepositoriesAssumption,
     Repositories!IsFiniteSet, Lists!IsFiniteSet
<1>2. Repositories!RepoInit <=> Lists!RepoInit
  BY Zenon DEF Repositories!Gens, Lists!Gens, Repositories!None, Lists!None, Repositories!NoRun,
     Lists!NoRun, Repositories!RepoInit, Lists!RepoInit
<1>3. Repositories!RepoNext <=> Lists!RepoNext
  BY Zenon DEF Repositories!Gens, Lists!Gens, Repositories!Lists, Lists!Lists, Repositories!None,
     Lists!None, Repositories!Started, Lists!Started, Repositories!Failed, Lists!Failed,
     Repositories!Succeeded, Lists!Succeeded, Repositories!Complete, Lists!Complete,
     Repositories!NoRun, Lists!NoRun, Repositories!OwnedBy, Lists!OwnedBy,
     Repositories!Superseded, Lists!Superseded, Repositories!NextOf, Lists!NextOf,
     Repositories!Buffer, Lists!Buffer, Repositories!Configure, Lists!Configure,
     Repositories!Refresh, Lists!Refresh, Repositories!Push, Lists!Push,
     Repositories!Quietly, Lists!Quietly, Repositories!HasToken, Lists!HasToken,
     Repositories!HasNoToken, Lists!HasNoToken, Repositories!TellRefused,
     Lists!TellRefused, Repositories!CompleteRefused, Lists!CompleteRefused,
     Repositories!RetryStarts, Lists!RetryStarts, Repositories!RetryAnswers,
     Lists!RetryAnswers, Repositories!RetryJudges, Lists!RetryJudges, Repositories!Written,
     Lists!Written, Repositories!RetryStamps, Lists!RetryStamps,
     Repositories!RetryCompletes, Lists!RetryCompletes, Repositories!Send, Lists!Send,
     Repositories!StartOwner, Lists!StartOwner, Repositories!Collect, Lists!Collect,
     Repositories!Judge, Lists!Judge, Repositories!Write, Lists!Write,
     Repositories!SendComplete, Lists!SendComplete, Repositories!Receive, Lists!Receive,
     Repositories!Step, Lists!Step, Repositories!RepoNext, Lists!RepoNext,
     Repositories!Cardinality, Lists!Cardinality
<1>4. Repositories!RepoTypeOK <=> Lists!RepoTypeOK
  BY Zenon DEF Repositories!Gens, Lists!Gens, Repositories!Lists, Lists!Lists,
     Repositories!RepoTypeOK, Lists!RepoTypeOK, Repositories!Cardinality,
     Lists!Cardinality
<1>5. Repositories!NotOlder <=> Lists!NotOlder
  BY Zenon DEF Repositories!NotOlder, Lists!NotOlder
<1>. QED
  BY <1>1, <1>2, <1>3, <1>4, <1>5

-----------------------------------------------------------------------------
(* The picker over a live session.                                           *)

Fresh(c) ==
    /\ call[c] = "idle" => since[c] = {} /\ c \notin sent
    /\ since[c] # {} => stanza \in since[c]
    /\ call[c] \in Outcome => call[c] \in since[c]

Untouched(c) ==
    call[c] = "idle" \/ c \in sent =>
        picker # c /\ gave[c] = {} /\ \A a \in Answer : answer[a].req # c

Cleared(c) ==
    gave[c] # {} /\ (\A a \in Answer : answer[a].at # "clear") => picker # c

PickerInv == TypeOK /\ \A c \in Call : Fresh(c) /\ Untouched(c) /\ Cleared(c)

-----------------------------------------------------------------------------
LEMMA PickerInitially == Init => PickerInv
<1> SUFFICES ASSUME Init PROVE PickerInv  OBVIOUS
<1>1. TypeOK  BY DEF Init, TypeOK, Modes, Outcome, Request, Waiting
<1>2. ASSUME NEW c \in Call PROVE Fresh(c) /\ Untouched(c) /\ Cleared(c)
  BY RequestAssumption DEF Init, Outcome, Fresh, Untouched, Cleared
<1> QED  BY <1>1, <1>2 DEF PickerInv

\* A step that leaves the request and the answers alone, and moves one call on.
LEMMA PickerCall ==
    ASSUME PickerInv, NEW d \in Call, NEW to \in Waiting \cup Outcome \cup {"timeout", "failed", "gone"},
           call' = [call EXCEPT ![d] = to], call[d] # "idle" \/ d \in sent',
           to \in Outcome => to \in since[d],
           call[d] = "idle" => to \notin Outcome,
           sent' \subseteq sent \cup (IF call[d] = "idle" THEN {d} ELSE {}),
           expired' \subseteq Call,
           UNCHANGED <<manifest, runner, picker, click, answer, ghosts>>
    PROVE  PickerInv'
<1>1. TypeOK'  BY DEF PickerInv, TypeOK, manifest, ghosts, Waiting, Outcome
<1>2. ASSUME NEW c \in Call PROVE Fresh(c)' /\ Untouched(c)' /\ Cleared(c)'
  <2>1. call'[c] = IF c = d THEN to ELSE call[c]  BY DEF PickerInv, TypeOK
  <2>2. to # "idle"  BY DEF Waiting, Outcome
  <2>3. Fresh(c) /\ Untouched(c) /\ Cleared(c)  BY DEF PickerInv
  <2>4. Fresh(c)'  BY <2>1, <2>2, <2>3 DEF Fresh, manifest, ghosts, Outcome
  <2>5. Untouched(c)'  BY <2>1, <2>2, <2>3 DEF Untouched, ghosts
  <2>6. Cleared(c)'  BY <2>3 DEF Cleared, ghosts
  <2> QED  BY <2>4, <2>5, <2>6
<1> QED  BY <1>1, <1>2 DEF PickerInv

\* A step that only sets the runner, the mode or the header's click, or ends calls.
LEMMA CallsEnd ==
    ASSUME PickerInv, mode' \in Modes, runner' \in Modes, click' \in BOOLEAN,
           call' = call \/ call' = [c \in Call |-> IF call[c] \in Waiting THEN "gone" ELSE call[c]],
           picker' = picker \/ picker' = Header,
           UNCHANGED <<stanza, sent, expired, answer, ghosts>>
    PROVE  PickerInv'
<1>1. TypeOK'  BY DEF PickerInv, TypeOK, ghosts, Waiting, Outcome, Request
<1>2. ASSUME NEW c \in Call PROVE Fresh(c)' /\ Untouched(c)' /\ Cleared(c)'
  <2>1. call'[c] = call[c] \/ (call'[c] = "gone" /\ call[c] # "idle")
    BY DEF Waiting
  <2>2. Fresh(c) /\ Untouched(c) /\ Cleared(c)  BY DEF PickerInv
  <2>3. Fresh(c)'  BY <2>1, <2>2 DEF Fresh, ghosts, Outcome
  <2>4. Untouched(c)'  BY <2>1, <2>2, RequestAssumption DEF Untouched, ghosts
  <2>5. Cleared(c)'  BY <2>2, RequestAssumption DEF Cleared, ghosts
  <2> QED  BY <2>3, <2>4, <2>5
<1> QED  BY <1>1, <1>2 DEF PickerInv

LEMMA QueuePickerSound == ASSUME PickerInv, NEW d \in Call, QueuePicker(d) PROVE PickerInv'
<1>1. TypeOK'  BY DEF PickerInv, TypeOK, QueuePicker, Request, manifest, ghosts
<1>2. ASSUME NEW c \in Call PROVE Fresh(c)' /\ Untouched(c)' /\ Cleared(c)'
  <2>1. Fresh(c) /\ Untouched(c) /\ Fresh(d) /\ Untouched(d)  BY DEF PickerInv
  <2>2. call[d] # "idle"  BY <2>1 DEF Fresh, QueuePicker
  <2>3. Fresh(c)'  BY <2>1 DEF Fresh, QueuePicker, manifest, ghosts
  <2>4. Untouched(c)'  BY <2>1, <2>2 DEF Untouched, QueuePicker, ghosts
  <2>5. Cleared(c)'  BY <2>1 DEF Untouched, Cleared, QueuePicker, ghosts
  <2> QED  BY <2>3, <2>4, <2>5
<1> QED  BY <1>1, <1>2 DEF PickerInv

\* An answer starts from the request there is, fails, or clears whatever is there.
LEMMA AnswerMoves ==
    ASSUME PickerInv, NEW b \in Answer, Confirm(b) \/ Cancel(b) \/ Refused(b) \/ ClearPicker(b)
    PROVE  PickerInv'
<1> USE DEF Confirm, Cancel, Starts, Refused, ClearPicker
<1>1. TypeOK'  BY DEF PickerInv, TypeOK, manifest, calls, ghosts, Pending, Request
<1>2. UNCHANGED <<manifest, calls, ghosts>>  OBVIOUS
<1>3. picker' = Nobody \/ (picker' = picker /\ answer[b].at # "clear")
  <2>1. CASE Confirm(b) \/ Cancel(b)  BY <2>1
  <2>2. CASE Refused(b)  BY <2>2
  <2>3. CASE ClearPicker(b)  BY <2>3
  <2> QED  BY <2>1, <2>2, <2>3
<1>4. \A a \in Answer : answer'[a].req \in {answer[a].req, Pending}  BY DEF PickerInv, TypeOK
<1>5. \A a \in Answer \ {b} : answer'[a] = answer[a]  BY DEF PickerInv, TypeOK
<1>6. ASSUME NEW c \in Call PROVE Fresh(c)' /\ Untouched(c)' /\ Cleared(c)'
  <2> USE RequestAssumption
  <2>1. Fresh(c) /\ Untouched(c) /\ Cleared(c)  BY DEF PickerInv
  <2>2. Fresh(c)'  BY <2>1, <1>2 DEF Fresh, manifest, calls, ghosts
  <2>3. Untouched(c)'  BY <2>1, <1>2, <1>3, <1>4 DEF Untouched, Pending, calls, ghosts
  <2>4. ASSUME picker' = Nobody PROVE Cleared(c)'
    <3>1. picker' # c  BY <2>4
    <3> QED  BY <3>1 DEF Cleared
  <2>5. ASSUME picker' = picker /\ answer[b].at # "clear" PROVE Cleared(c)'
    <3>1. (\A a \in Answer : answer'[a].at # "clear") => \A a \in Answer : answer[a].at # "clear"
      BY <2>5, <1>5
    <3> QED  BY <3>1, <2>5, <2>1, <1>2 DEF Cleared, ghosts
  <2>6. Cleared(c)'  BY <2>4, <2>5, <1>3
  <2> QED  BY <2>2, <2>3, <2>6
<1> QED  BY <1>1, <1>6 DEF PickerInv

LEMMA WritesSound ==
    ASSUME PickerInv, NEW b \in Answer, NEW outcome \in Outcome, mode' \in Modes, Writes(b, outcome)
    PROVE  PickerInv'
<1> DEFINE req == answer[b].req
<1>1. TypeOK'  BY DEF PickerInv, TypeOK, Writes, calls, ghosts
<1>2. answer'[b].at = "clear" /\ \A a \in Answer : answer'[a].req = answer[a].req
  BY DEF PickerInv, TypeOK, Writes
<1>3. UNCHANGED <<picker, sent, call>>  BY DEF Writes, calls
<1>4. ASSUME NEW c \in Call PROVE Fresh(c)' /\ Untouched(c)' /\ Cleared(c)'
  <2>1. Fresh(c) /\ Untouched(c)  BY DEF PickerInv
  <2>2. Cleared(c)'  BY <1>2 DEF Cleared
  <2>3. CASE req = Nobody
    <3>1. UNCHANGED <<stanza, ghosts>>  BY <2>3 DEF Writes
    <3> QED  BY <3>1, <2>1, <2>2, <1>2, <1>3 DEF Fresh, Untouched, ghosts
  <2>4. CASE req # Nobody
    <3>1. /\ stanza' = outcome
          /\ since'[c] = IF call[c] = "idle" THEN since[c] ELSE since[c] \cup {outcome}
          /\ gave'[c] = IF c = req THEN gave[c] \cup {outcome} ELSE gave[c]
      BY <2>4 DEF Writes
    <3>2. Fresh(c)'  BY <3>1, <2>1, <1>3 DEF Fresh
    <3>3. Untouched(c)'  BY <3>1, <2>1, <1>2, <1>3 DEF Untouched
    <3> QED  BY <3>2, <3>3, <2>2
  <2> QED  BY <2>3, <2>4
<1> QED  BY <1>1, <1>4 DEF PickerInv

LEMMA PickerStep == PickerInv /\ [Next]_vars => PickerInv'
<1> SUFFICES ASSUME PickerInv, [Next]_vars PROVE PickerInv'  OBVIOUS
<1>1. ASSUME NEW c \in Call, Escalate(c) PROVE PickerInv'
  BY <1>1, PickerCall DEF Escalate, Goes, Waiting, Outcome, PickerInv, TypeOK
<1>2. ASSUME NEW c \in Call, Accepted(c) PROVE PickerInv'
  BY <1>2, PickerCall DEF Accepted, Goes, Waiting, Outcome, PickerInv, TypeOK
<1>3. ASSUME NEW c \in Call, NotAccepted(c) PROVE PickerInv'
  BY <1>3, PickerCall DEF NotAccepted, Goes, Outcome, PickerInv, TypeOK
<1>4. ASSUME NEW c \in Call, TimedOut(c) PROVE PickerInv'
  BY <1>4, PickerCall DEF TimedOut, Goes, Outcome, PickerInv, TypeOK
<1>5. ASSUME NEW c \in Call, Polled(c) PROVE PickerInv'
  <2>1. Fresh(c)  BY DEF PickerInv
  <2>2. stanza \in since[c] /\ stanza \in Outcome  BY <1>5, <2>1 DEF Fresh, Polled, PickerInv, TypeOK
  <2> QED  BY <1>5, <2>2, PickerCall DEF Polled, Goes, PickerInv, TypeOK
<1>6. ASSUME NEW c \in Call, Abandoned(c) PROVE PickerInv'
  BY <1>6, PickerCall DEF Abandoned, Waiting, Outcome, PickerInv, TypeOK
<1>7. ASSUME NEW c \in Call, Deadline(c) PROVE PickerInv'
  <2>1. TypeOK'  BY <1>7 DEF Deadline, PickerInv, TypeOK, manifest, ghosts
  <2> QED  BY <1>7, <2>1 DEF Deadline, PickerInv, Fresh, Untouched, Cleared, manifest, ghosts
<1>8. ASSUME NEW c \in Call, QueuePicker(c) PROVE PickerInv'  BY <1>8, QueuePickerSound
<1>9. CASE Relaunch  BY <1>9, CallsEnd DEF Relaunch, PickerInv, TypeOK, manifest
<1>10. CASE SetMode  BY <1>10, CallsEnd DEF SetMode, PickerInv, TypeOK, calls, Modes
<1>11. CASE HeaderEscalate  BY <1>11, CallsEnd DEF HeaderEscalate, PickerInv, TypeOK, calls, manifest
<1>12. CASE HeaderQueues  BY <1>12, CallsEnd DEF HeaderQueues, PickerInv, TypeOK, calls, manifest
<1>13. ASSUME NEW a \in Answer, Confirm(a) \/ Cancel(a) PROVE PickerInv'  BY <1>13, AnswerMoves
<1>14. ASSUME NEW a \in Answer, Refused(a) PROVE PickerInv'  BY <1>14, AnswerMoves
<1>15. ASSUME NEW a \in Answer, ClearPicker(a) PROVE PickerInv'  BY <1>15, AnswerMoves
<1>16. ASSUME NEW a \in Answer, Confirmed(a) PROVE PickerInv'
  BY <1>16, WritesSound DEF Confirmed, Outcome, Modes, PickerInv, TypeOK
<1>17. ASSUME NEW a \in Answer, Cancelled(a) PROVE PickerInv'
  BY <1>17, WritesSound DEF Cancelled, Outcome, PickerInv, TypeOK
<1>18. CASE UNCHANGED vars
  BY <1>18 DEF vars, manifest, calls, ghosts, PickerInv, TypeOK, Fresh, Untouched, Cleared
<1> QED
  BY <1>1, <1>2, <1>3, <1>4, <1>5, <1>6, <1>7, <1>8, <1>9, <1>10, <1>11, <1>12, <1>13, <1>14,
     <1>15, <1>16, <1>17, <1>18 DEF Next, Settles

LEMMA PickerInvariance == Spec => []PickerInv
  BY PickerInitially, PickerStep, PTL DEF Spec

-----------------------------------------------------------------------------
\* Every variable of the picker keeps its type.
THEOREM TypeCorrect == Spec => []TypeOK
<1>1. PickerInv => TypeOK  BY DEF PickerInv
<1> QED  BY <1>1, PickerInvariance, PTL

\* A call is never told of an outcome from before it asked (escalationOutcome).
THEOREM ToldTruly == Spec => []ToldWhatHappened
<1>1. PickerInv => ToldWhatHappened  BY DEF PickerInv, Fresh, ToldWhatHappened
<1> QED  BY <1>1, PickerInvariance, PTL

\* A request an answer was given for is not drawn again (clearPicker).
THEOREM NotRedrawn == Spec => []AnsweredIsCleared
<1>1. PickerInv => AnsweredIsCleared  BY DEF PickerInv, Cleared, AnsweredIsCleared
<1> QED  BY <1>1, PickerInvariance, PTL

-----------------------------------------------------------------------------
(* Lists read a page at a time.                                              *)

\* A bounded set of numbers has a greatest.
LEMMA GreatestIs ==
    ASSUME NEW U, NEW top \in Nat, U \subseteq -1..top, U # {}
    PROVE  \E u \in U : \A v \in U : u >= v
<1>. DEFINE below == {top - u : u \in U}
<1>0. \A u \in U : u \in Int /\ top - u \in Nat
  <2>. SUFFICES ASSUME NEW u \in U PROVE u \in Int /\ top - u \in Nat
    OBVIOUS
  <2>1. u \in -1..top
    OBVIOUS
  <2>. QED
    BY <2>1
<1>1. below \subseteq Nat /\ below # {}
  BY <1>0
<1>. HIDE DEF below
<1>2. \E b \in below : \A d \in below : ~ (<<d, b>> \in OpToRel(<, Nat))
  BY Zenon, <1>1, NatLessThanWellFounded, WFMin
<1>3. PICK b \in below : \A d \in below : ~ (<<d, b>> \in OpToRel(<, Nat))
  BY Zenon, <1>2
<1>4. \A d \in below : ~ (d < b)
  BY <1>1, <1>3 DEF OpToRel
<1>5. PICK u \in U : b = top - u
  BY DEF below
<1>6. ASSUME NEW v \in U PROVE u >= v
  <2>1. top - v \in below /\ top - v \in Nat /\ u \in Int /\ v \in Int
    BY <1>0 DEF below
  <2>. QED
    BY <1>1, <1>4, <1>5, <2>1
<1>. QED
  BY <1>6

\* Where a member stands among the others, from 1.
UpTo(S, m)   == {n \in S : n <= m}
Ranked(S, m) == Cardinality(UpTo(S, m))
FirstOf(S, c) == {n \in S : Ranked(S, n) <= c}

Numbered(S) == S \subseteq Int /\ IsFiniteSet(S)

LEMMA RanksAreOrdered ==
    ASSUME NEW S, Numbered(S), NEW m \in S
    PROVE  /\ IsFiniteSet(UpTo(S, m)) /\ Ranked(S, m) \in Nat /\ Ranked(S, m) >= 1
           /\ \A n \in S : m <= n <=> Ranked(S, m) <= Ranked(S, n)
<1>1. \A k \in S : IsFiniteSet(UpTo(S, k)) /\ Ranked(S, k) \in Nat
  <2>. SUFFICES ASSUME NEW k \in S PROVE IsFiniteSet(UpTo(S, k)) /\ Ranked(S, k) \in Nat
    OBVIOUS
  <2>1. UpTo(S, k) \in SUBSET S
    BY DEF UpTo
  <2>. QED
    BY <2>1, FS_Subset, FS_CardinalityType DEF Numbered, Ranked
<1>2. \A k, l \in S : k <= l => Ranked(S, k) <= Ranked(S, l)
  <2>. SUFFICES ASSUME NEW k \in S, NEW l \in S, k <= l PROVE Ranked(S, k) <= Ranked(S, l)
    OBVIOUS
  <2>0. \A n \in S : n \in Int
    BY DEF Numbered
  <2>1. UpTo(S, k) \in SUBSET UpTo(S, l)
    <3>. SUFFICES ASSUME NEW n \in S, n <= k PROVE n <= l
      BY DEF UpTo
    <3>. QED
      BY <2>0
  <2>. QED
    BY <1>1, <2>1, FS_Subset DEF Ranked
<1>3. \A k, l \in S : k < l => Ranked(S, k) < Ranked(S, l)
  <2>. SUFFICES ASSUME NEW k \in S, NEW l \in S, k < l PROVE Ranked(S, k) < Ranked(S, l)
    OBVIOUS
  <2>0. \A n \in S : n \in Int
    BY DEF Numbered
  <2>1. UpTo(S, k) \in SUBSET UpTo(S, l) /\ l \in UpTo(S, l) /\ l \notin UpTo(S, k)
    <3>1. l \in UpTo(S, l) /\ l \notin UpTo(S, k)
      BY <2>0 DEF UpTo
    <3>2. SUFFICES ASSUME NEW n \in S, n <= k PROVE n <= l
      BY <3>1 DEF UpTo
    <3>. QED
      BY <2>0, <3>2
  <2>2. Ranked(S, k) # Ranked(S, l)
    BY <1>1, <2>1, FS_Subset DEF Ranked
  <2>. QED
    BY <1>1, <1>2, <2>2 DEF Numbered
<1>4. Ranked(S, m) >= 1
  <2>1. UpTo(S, m) # {}
    BY DEF UpTo, Numbered
  <2>2. Ranked(S, m) # 0
    BY <1>1, <2>1, FS_EmptySet DEF Ranked
  <2>. QED
    BY <1>1, <2>2
<1>5. ASSUME NEW n \in S PROVE m <= n <=> Ranked(S, m) <= Ranked(S, n)
  <2>1. m <= n \/ n < m
    BY DEF Numbered
  <2>. QED
    BY <1>1, <1>2, <1>3, <2>1 DEF Numbered
<1>. QED
  BY <1>1, <1>4, <1>5

\* As many stand in the first places as there are places, when one stands behind them.
LEMMA FirstAreCounted ==
    ASSUME NEW S, Numbered(S), NEW c \in Nat, NEW m \in S, Ranked(S, m) > c
    PROVE  IsFiniteSet(FirstOf(S, c)) /\ Cardinality(FirstOf(S, c)) = c
<1>1. \A k \in S : Ranked(S, k) \in Nat /\ IsFiniteSet(UpTo(S, k)) /\ k \in Int
  BY RanksAreOrdered DEF Numbered
<1>2. \A k, l \in S : k <= l <=> Ranked(S, k) <= Ranked(S, l)
  BY RanksAreOrdered
<1>3. FirstOf(S, c) \in SUBSET S
  BY DEF FirstOf
<1>4. IsFiniteSet(FirstOf(S, c)) /\ Cardinality(FirstOf(S, c)) \in Nat
  BY <1>3, FS_Subset, FS_CardinalityType DEF Numbered
<1>5. Cardinality(FirstOf(S, c)) >= c
  <2>. DEFINE behind == {Ranked(S, k) : k \in S \ FirstOf(S, c)}
  <2>1. behind \subseteq Nat /\ behind # {}
    BY <1>1 DEF FirstOf
  <2>. HIDE DEF behind
  <2>2. \E b \in behind : \A d \in behind : ~ (<<d, b>> \in OpToRel(<, Nat))
    BY Zenon, <2>1, NatLessThanWellFounded, WFMin
  <2>3. PICK b \in behind : \A d \in behind : ~ (d < b)
    BY <2>1, <2>2 DEF OpToRel
  <2>4. PICK x \in S \ FirstOf(S, c) : b = Ranked(S, x)
    BY DEF behind
  <2>5. \A k \in S \ FirstOf(S, c) : Ranked(S, x) <= Ranked(S, k)
    <3>. SUFFICES ASSUME NEW k \in S \ FirstOf(S, c) PROVE Ranked(S, x) <= Ranked(S, k)
      OBVIOUS
    <3>1. Ranked(S, k) \in behind
      BY DEF behind
    <3>. QED
      BY <1>1, <2>3, <2>4, <3>1
  <2>6. Ranked(S, x) > c /\ Ranked(S, x) \in Nat
    BY <1>1 DEF FirstOf
  <2>7. UpTo(S, x) \ {x} = FirstOf(S, c)
    <3>1. ASSUME NEW k \in S PROVE k \in UpTo(S, x) \ {x} <=> k \in FirstOf(S, c)
      <4>1. k \in UpTo(S, x) <=> k <= x
        BY DEF UpTo
      <4>2. k \in FirstOf(S, c) <=> Ranked(S, k) <= c
        BY DEF FirstOf
      <4>3. k <= x <=> Ranked(S, k) <= Ranked(S, x)
        BY <1>2
      <4>4. x <= k <=> Ranked(S, x) <= Ranked(S, k)
        BY <1>2
      <4>5. Ranked(S, k) \in Nat /\ k \in Int /\ x \in Int
        BY <1>1
      <4>6. k \notin FirstOf(S, c) => x <= k
        BY <2>5, <4>4
      <4>. QED
        BY <2>6, <4>1, <4>2, <4>3, <4>4, <4>5, <4>6
    <3>2. UpTo(S, x) \subseteq S
      BY DEF UpTo
    <3>. QED
      BY <1>3, <3>1, <3>2
  <2>8. x \in UpTo(S, x) /\ IsFiniteSet(UpTo(S, x))
    BY <1>1 DEF UpTo
  <2>9. Cardinality(FirstOf(S, c)) = Ranked(S, x) - 1
    BY <2>7, <2>8, FS_RemoveElement DEF Ranked
  <2>. QED
    BY <2>6, <2>9
<1>6. Cardinality(FirstOf(S, c)) <= c
  <2>1. CASE FirstOf(S, c) = {}
    BY <2>1, FS_EmptySet
  <2>2. CASE FirstOf(S, c) # {}
    <3>. DEFINE ahead == {Ranked(S, k) : k \in FirstOf(S, c)}
    <3>1. ahead \subseteq -1 .. c /\ ahead # {}
      BY <1>1, <1>3, <2>2 DEF FirstOf
    <3>. HIDE DEF ahead
    <3>2. PICK u \in ahead : \A v \in ahead : u >= v
      BY <3>1, GreatestIs
    <3>3. PICK y \in FirstOf(S, c) : u = Ranked(S, y)
      BY DEF ahead
    <3>4. y \in S /\ Ranked(S, y) <= c /\ Ranked(S, y) \in Nat /\ IsFiniteSet(UpTo(S, y))
      BY <1>1, <1>3 DEF FirstOf
    <3>5. ASSUME NEW k \in FirstOf(S, c) PROVE k \in UpTo(S, y)
      <4>1. Ranked(S, k) \in ahead /\ k \in S
        BY <1>3 DEF ahead
      <4>2. Ranked(S, k) <= Ranked(S, y)
        BY <1>1, <3>2, <3>3, <4>1
      <4>3. k <= y
        BY <1>2, <3>4, <4>1, <4>2
      <4>. QED
        BY <4>1, <4>3 DEF UpTo
    <3>6. FirstOf(S, c) \in SUBSET UpTo(S, y)
      BY <3>5
    <3>7. Cardinality(FirstOf(S, c)) <= Ranked(S, y)
      BY <3>4, <3>6, FS_Subset DEF Ranked
    <3>. QED
      BY <1>4, <3>4, <3>7
  <2>. QED
    BY <2>1, <2>2
<1>. QED
  BY <1>4, <1>5, <1>6

\* A page is as long as it can be, when the list goes on behind it.
LEMMA PageIsFull ==
    ASSUME NEW S, Numbered(S), NEW a \in Nat, NEW b \in Nat, a <= b, NEW m \in S, Ranked(S, m) > b
    PROVE  Cardinality({n \in S : a < Ranked(S, n) /\ Ranked(S, n) <= b}) = b - a
<1>1. PICK A, B, page : A = FirstOf(S, a) /\ B = FirstOf(S, b)
                        /\ page = {n \in S : a < Ranked(S, n) /\ Ranked(S, n) <= b}
  OBVIOUS
<1>2. \A k \in S : Ranked(S, k) \in Nat
  BY RanksAreOrdered
<1>3. page = B \ A /\ A \subseteq B
  BY <1>1, <1>2 DEF FirstOf
<1>4. IsFiniteSet(A) /\ Cardinality(A) = a
  BY <1>1, <1>2, FirstAreCounted
<1>5. IsFiniteSet(B) /\ Cardinality(B) = b
  BY <1>1, <1>2, FirstAreCounted
<1>6. B \cap A = A
  BY <1>3
<1>7. Cardinality(B \ A) = Cardinality(B) - Cardinality(B \cap A)
  BY <1>5, FS_Difference
<1>. QED
  BY <1>1, <1>3, <1>4, <1>5, <1>6, <1>7

onGitHub == v1
foreign  == v2
asked    == v3
gathered == v4
steady   == v5
taken    == v6
altered  == v7
USE DEF onGitHub, foreign, asked, gathered, steady, taken, altered

Endpoint == {"their own", "collaborator"}
Whose    == {"organization", "signed in", "another user", "branches"}
Asks     == [at : {"idle", "reading", "listed", "failed"}, whose : Whose, endpoint : {1, 2}, page : Nat \ {0}]

\* Only another user's repositories are read at two endpoints.
ReadByKind(a) == a.endpoint = 2 => a.whose = "another user"

\* The endpoint whose pages are read.
AtEndpoint(a) == IF a.endpoint = 2 THEN "collaborator" ELSE "their own"
\* Those that are read for an owner.
ReadOf(whose) == IF whose = "another user" THEN Endpoint ELSE {"their own"}

PagingTyped ==
    /\ onGitHub \in [Endpoint -> SUBSET Names]
    /\ steady \in [Endpoint -> SUBSET Names]
    /\ \A e \in Endpoint : steady[e] \subseteq onGitHub[e]
    /\ asked \in Asks /\ ReadByKind(asked)
    /\ gathered \in [Names -> Nat]
    /\ altered \in Nat /\ taken \in Nat

\* What was there from first to last is gathered, or is still to come.
GatheredThere ==
    asked.at = "reading" =>
        /\ asked.endpoint = 2 => \A n \in steady["their own"] : gathered[n] > 0
        /\ \A n \in steady[AtEndpoint(asked)] :
              Paging!Ours(AtEndpoint(asked), n) /\ gathered[n] = 0
                  => Ranked(onGitHub[AtEndpoint(asked)], n) > (asked.page - 1) * PerPage
GatheredAll ==
    asked.at = "listed" =>
        \A e \in ReadOf(asked.whose) : \A n \in steady[e] : Paging!Ours(e, n) => gathered[n] > 0

PagingInv ==
    /\ PagingTyped
    /\ asked.at = "idle" => asked.endpoint = 1 /\ asked.page = 1 /\ \A n \in Names : gathered[n] = 0
    /\ asked.whose # "branches" => \A n \in Names : gathered[n] <= 1
    /\ taken = 0 => GatheredThere /\ GatheredAll
    /\ altered = 0 => \A n \in Names : gathered[n] > 0 =>
          \E e \in ReadOf(asked.whose) : n \in onGitHub[e] /\ Paging!Ours(e, n)

LEMMA NamesAreNumbered ==
    /\ Numbered(Names) /\ \A S \in SUBSET Names : Numbered(S)
    /\ PerPage \in Nat /\ PerPage >= 1 /\ ListChanges \in Nat
    /\ \A S : Paging!Cardinality(S) = Cardinality(S)
<1>1. \A S : Paging!Cardinality(S) = Cardinality(S)
  <2>. SUFFICES ASSUME NEW S PROVE Paging!Cardinality(S) = Cardinality(S)
    OBVIOUS
  <2>. QED
    BY Zenon DEF Paging!Cardinality, Cardinality
<1>2. \A S : Paging!IsFiniteSet(S) <=> IsFiniteSet(S)
  <2>. SUFFICES ASSUME NEW S PROVE Paging!IsFiniteSet(S) <=> IsFiniteSet(S)
    OBVIOUS
  <2>. QED
    BY Zenon DEF Paging!IsFiniteSet, IsFiniteSet
<1>3. Numbered(Names) /\ PerPage \in Nat /\ PerPage >= 1 /\ ListChanges \in Nat
  BY <1>2, PartsAssumption DEF Paging!PagingAssumption, Numbered
<1>4. ASSUME NEW S \in SUBSET Names PROVE Numbered(S)
  BY <1>3, FS_Subset DEF Numbered
<1>. QED
  BY <1>1, <1>3, <1>4

LEMMA PagingInit == Paging!Init => PagingInv
<1>. SUFFICES ASSUME Paging!Init PROVE PagingInv
  OBVIOUS
<1>1. /\ onGitHub \in [Endpoint -> SUBSET Names] /\ gathered = [n \in Names |-> 0]
      /\ asked = [at |-> "idle", whose |-> "branches", endpoint |-> 1, page |-> 1]
      /\ steady = [e \in Endpoint |-> {}] /\ altered = 0 /\ taken = 0
  BY Zenon DEF Paging!Init, Endpoint, Paging!Endpoint, onGitHub, asked, gathered, steady, altered, taken
<1>2. PagingTyped
  BY <1>1 DEF PagingTyped, Asks, ReadByKind, Whose
<1>. QED
  BY <1>1, <1>2 DEF PagingInv, GatheredThere, GatheredAll

LEMMA EndpointLists ==
    /\ \A p : p = <<"their own", "collaborator">> =>
          Len(p) = 2 /\ p[1] = "their own" /\ p[2] = "collaborator" /\ DOMAIN p = {1, 2}
    /\ \A p : p = <<"their own">> => Len(p) = 1 /\ p[1] = "their own" /\ DOMAIN p = {1}
<1>1. Len(<<"their own", "collaborator">>) = 2 /\ Len(<<"their own">>) = 1
  OBVIOUS
<1>2. <<"their own", "collaborator">>[1] = "their own" /\ <<"their own", "collaborator">>[2] = "collaborator"
  OBVIOUS
<1>3. <<"their own">>[1] = "their own"
  OBVIOUS
<1>4. DOMAIN <<"their own", "collaborator">> = 1 .. 2
  BY <1>1, LenProperties
<1>5. DOMAIN <<"their own">> = 1 .. 1
  BY <1>1, LenProperties
<1>6. 1 .. 2 = {1, 2} /\ 1 .. 1 = {1}
  OBVIOUS
<1>. QED
  BY Zenon, <1>1, <1>2, <1>3, <1>4, <1>5, <1>6

LEMMA EndpointsRead ==
    /\ \A p : DOMAIN p = {1, 2} /\ p[1] = "their own" /\ p[2] = "collaborator" => {p[i] : i \in DOMAIN p} = Endpoint
    /\ \A p : DOMAIN p = {1} /\ p[1] = "their own" => {p[i] : i \in DOMAIN p} = {"their own"}
<1>1. ASSUME NEW p, DOMAIN p = {1, 2}, p[1] = "their own", p[2] = "collaborator"
      PROVE  {p[i] : i \in DOMAIN p} = Endpoint
  BY <1>1 DEF Endpoint
<1>2. ASSUME NEW p, DOMAIN p = {1}, p[1] = "their own"
      PROVE  {p[i] : i \in DOMAIN p} = {"their own"}
  <2>1. ASSUME NEW e PROVE e \in {p[i] : i \in DOMAIN p} <=> e = "their own"
    <3>1. e \in {p[i] : i \in DOMAIN p} <=> \E i \in DOMAIN p : e = p[i]
      OBVIOUS
    <3>. QED
      BY Zenon, <1>2, <3>1
  <2>2. ASSUME NEW e PROVE e \in {p[i] : i \in DOMAIN p} <=> e \in {"their own"}
    BY Zenon, <2>1
  <2>. QED
    BY Zenon, <2>2
<1>. QED
  BY Zenon, <1>1, <1>2

LEMMA EndpointsAre ==
    ASSUME asked \in Asks, ReadByKind(asked)
    PROVE  /\ Paging!Endpoints(asked.whose)[asked.endpoint] = AtEndpoint(asked)
           /\ asked.endpoint = Len(Paging!Endpoints(asked.whose)) <=>
                 (asked.whose = "another user" => asked.endpoint = 2)
           /\ {Paging!Endpoints(asked.whose)[i] : i \in DOMAIN Paging!Endpoints(asked.whose)} = ReadOf(asked.whose)
           /\ AtEndpoint(asked) \in Endpoint /\ AtEndpoint(asked) \in ReadOf(asked.whose)
           /\ asked.endpoint \in {1, 2}
<1>1. CASE asked.whose = "another user"
  <2>1. Paging!Endpoints(asked.whose) = <<"their own", "collaborator">>
    BY <1>1 DEF Paging!Endpoints
  <2>2. PICK p : p = <<"their own", "collaborator">>
    OBVIOUS
  <2>3. Len(p) = 2 /\ p[1] = "their own" /\ p[2] = "collaborator" /\ DOMAIN p = {1, 2}
    BY Zenon, <2>2, EndpointLists
  <2>4. {p[i] : i \in DOMAIN p} = Endpoint
    BY Zenon, <2>3, EndpointsRead
  <2>5. asked.endpoint \in {1, 2}
    BY DEF Asks, ReadByKind
  <2>6. p[asked.endpoint] = AtEndpoint(asked) /\ (asked.endpoint = Len(p) <=> asked.endpoint = 2)
    BY <2>3, <2>5 DEF AtEndpoint
  <2>7. ReadOf(asked.whose) = Endpoint /\ AtEndpoint(asked) \in Endpoint
    BY <1>1 DEF ReadOf, AtEndpoint, Endpoint
  <2>. QED
    BY Zenon, <1>1, <2>1, <2>2, <2>4, <2>5, <2>6, <2>7
<1>2. CASE asked.whose # "another user"
  <2>1. Paging!Endpoints(asked.whose) = <<"their own">>
    BY <1>2 DEF Paging!Endpoints
  <2>2. PICK p : p = <<"their own">>
    OBVIOUS
  <2>3. Len(p) = 1 /\ p[1] = "their own"
    BY Zenon, <2>2, EndpointLists
  <2>4. {p[i] : i \in DOMAIN p} = {"their own"}
    BY Zenon, <2>2, EndpointLists, EndpointsRead
  <2>5. asked.endpoint \in {1, 2} /\ asked.endpoint = 1 /\ asked.endpoint # 2
    BY <1>2 DEF Asks, ReadByKind
  <2>6. p[asked.endpoint] = AtEndpoint(asked) /\ asked.endpoint = Len(p)
    BY Zenon, <2>3, <2>5 DEF AtEndpoint
  <2>7. ReadOf(asked.whose) = {"their own"} /\ AtEndpoint(asked) \in {"their own"} /\ AtEndpoint(asked) \in Endpoint
    BY <1>2, <2>5 DEF ReadOf, AtEndpoint, Endpoint
  <2>. QED
    BY Zenon, <1>2, <2>1, <2>2, <2>4, <2>5, <2>6, <2>7
<1>. QED
  BY <1>1, <1>2

LEMMA PagingShows == PagingInv => Paging!ListIsWhole
<1>. SUFFICES ASSUME PagingInv, asked.at = "listed"
              PROVE  Paging!ListIsWhole
  BY DEF Paging!ListIsWhole, asked
<1>1. PICK read : read = ReadOf(asked.whose)
  OBVIOUS
<1>2. {Paging!Endpoints(asked.whose)[i] : i \in DOMAIN Paging!Endpoints(asked.whose)} = read
  BY <1>1, EndpointsAre DEF PagingInv, PagingTyped
<1>3. asked.whose # "branches" => \A n \in Names : gathered[n] <= 1
  BY DEF PagingInv
<1>4. taken = 0 => \A e \in read : \A n \in steady[e] : Paging!Ours(e, n) => gathered[n] > 0
  BY <1>1 DEF PagingInv, GatheredAll
<1>5. altered = 0 => \A n \in Names : gathered[n] > 0 => \E e \in read : n \in onGitHub[e] /\ Paging!Ours(e, n)
  BY <1>1 DEF PagingInv
<1>. QED
  BY Zenon, <1>2, <1>3, <1>4, <1>5 DEF Paging!ListIsWhole, onGitHub, asked, gathered, steady, taken, altered

\* Nothing already on a list moves up while nothing is taken from it.
LEMMA RanksOnlyGrow ==
    ASSUME NEW S, NEW T, Numbered(T), S \subseteq T, NEW m \in S
    PROVE  Ranked(S, m) <= Ranked(T, m) /\ Ranked(S, m) \in Nat /\ Ranked(T, m) \in Nat
<1>1. UpTo(S, m) \in SUBSET UpTo(T, m) /\ UpTo(T, m) \in SUBSET T
  BY DEF UpTo
<1>2. IsFiniteSet(UpTo(T, m)) /\ IsFiniteSet(UpTo(S, m))
  BY <1>1, FS_Subset DEF Numbered
<1>. QED
  BY <1>1, <1>2, FS_Subset, FS_CardinalityType DEF Ranked

LEMMA IdentifyKeeps == ASSUME PagingInv, Paging!Identify PROVE PagingInv'
<1>. USE DEF PagingInv
<1>1. /\ asked.at = "idle" /\ asked.endpoint = 1 /\ asked.page = 1 /\ \A n \in Names : gathered[n] = 0
      /\ UNCHANGED <<onGitHub, foreign, gathered, taken, altered>>
      /\ asked \in Asks /\ ReadByKind(asked) /\ PagingTyped
  BY DEF Paging!Identify, PagingTyped, asked, onGitHub, foreign, gathered, taken, altered
<1>2. CASE \E w \in Paging!Whose : asked' = [asked EXCEPT !.at = "reading", !.whose = w] /\ steady' = onGitHub
  <2>1. PICK w \in Whose : asked' = [asked EXCEPT !.at = "reading", !.whose = w] /\ steady' = onGitHub
    BY <1>2 DEF Whose, Paging!Whose
  <2>2. asked' \in Asks /\ asked'.at = "reading" /\ asked'.endpoint = 1 /\ asked'.page = 1 /\ asked'.whose = w
    BY <1>1, <2>1 DEF Asks
  <2>2a. ReadByKind(asked') /\ ~(asked'.endpoint = 2)
    BY <2>2 DEF ReadByKind
  <2>3. PagingTyped'
    BY <1>1, <2>1, <2>2, <2>2a DEF PagingTyped
  <2>4. AtEndpoint(asked') = "their own"
    BY <2>2 DEF AtEndpoint
  <2>5. PICK S : S = onGitHub["their own"]
    OBVIOUS
  <2>6. Numbered(S)
    BY <1>1, <2>5, NamesAreNumbered DEF PagingTyped, Endpoint
  <2>7. \A n \in S : Ranked(S, n) >= 1 /\ Ranked(S, n) \in Nat
    BY <2>6, RanksAreOrdered
  <2>8. (asked'.page - 1) * PerPage = 0
    BY <2>2, NamesAreNumbered
  <2>9. \A n \in S : Ranked(S, n) > (asked'.page - 1) * PerPage
    BY <2>7, <2>8
  <2>10. GatheredThere'
    <3>1. onGitHub'["their own"] = S /\ steady'["their own"] = S
      BY <1>1, <2>1, <2>5
    <3>. QED
      BY Zenon, <2>2a, <2>4, <2>9, <3>1 DEF GatheredThere
  <2>11. GatheredAll'
    BY <2>2 DEF GatheredAll
  <2>12. \A n \in Names : gathered'[n] = 0
    BY <1>1
  <2>. QED
    BY <2>2, <2>3, <2>10, <2>11, <2>12
<1>3. CASE asked' = [asked EXCEPT !.at = "failed"] /\ UNCHANGED steady
  <2>1. asked' \in Asks /\ ReadByKind(asked') /\ asked'.at = "failed" /\ asked'.endpoint = 1
    BY <1>1, <1>3 DEF Asks, ReadByKind
  <2>2. PagingTyped'
    BY <1>1, <1>3, <2>1 DEF PagingTyped
  <2>3. GatheredThere' /\ GatheredAll'
    BY <2>1 DEF GatheredThere, GatheredAll
  <2>4. \A n \in Names : gathered'[n] = 0
    BY <1>1
  <2>. QED
    BY <2>1, <2>2, <2>3, <2>4
<1>. QED
  BY <1>2, <1>3 DEF Paging!Identify, asked, steady, onGitHub

LEMMA PageFailsKeeps == ASSUME PagingInv, Paging!PageFails PROVE PagingInv'
<1>. USE DEF PagingInv
<1>1. /\ asked' = [asked EXCEPT !.at = "failed"] /\ gathered' = [n \in Names |-> 0]
      /\ UNCHANGED <<onGitHub, foreign, steady, taken, altered>>
  BY DEF Paging!PageFails, Paging!AfterFailure, asked, onGitHub, foreign, gathered, taken, altered, steady
<1>2. asked \in Asks /\ ReadByKind(asked) /\ PagingTyped
  BY DEF PagingTyped
<1>3. asked' \in Asks /\ ReadByKind(asked') /\ asked'.at = "failed" /\ asked'.endpoint = asked.endpoint /\ asked'.whose = asked.whose
  BY <1>1, <1>2 DEF Asks, ReadByKind
<1>4. PagingTyped'
  BY <1>1, <1>2, <1>3 DEF PagingTyped
<1>5. GatheredThere' /\ GatheredAll'
  BY <1>3 DEF GatheredThere, GatheredAll
<1>6. \A n \in Names : gathered'[n] = 0
  BY <1>1
<1>. QED
  BY <1>3, <1>4, <1>5, <1>6

LEMMA ChangesKeep == ASSUME PagingInv, NEW e \in Endpoint, Paging!Changes(e) PROVE PagingInv'
<1>. USE DEF PagingInv
<1>1. /\ asked.at = "reading" /\ altered' = altered + 1 /\ UNCHANGED <<foreign, asked, gathered>>
      /\ asked \in Asks /\ ReadByKind(asked) /\ PagingTyped
  BY DEF Paging!Changes, PagingTyped, asked, foreign, gathered, altered
<1>2. altered' \in Nat /\ altered' # 0
  BY <1>1 DEF PagingTyped
<1>3. PICK n \in Names :
        IF n \in onGitHub[e]
        THEN /\ onGitHub' = [onGitHub EXCEPT ![e] = @ \ {n}]
             /\ steady' = [steady EXCEPT ![e] = @ \ {n}]
             /\ taken' = taken + 1
        ELSE /\ onGitHub' = [onGitHub EXCEPT ![e] = @ \cup {n}]
             /\ UNCHANGED <<steady, taken>>
  BY DEF Paging!Changes, onGitHub, steady, taken
<1>4. CASE n \in onGitHub[e]
  <2>1. PagingTyped' /\ taken' # 0
    <3>1. taken' = taken + 1 /\ taken \in Nat
      BY <1>1, <1>3, <1>4 DEF PagingTyped
    <3>2. taken' \in Nat /\ taken' # 0
      BY <3>1
    <3>. QED
      BY <1>1, <1>2, <1>3, <1>4, <3>2 DEF PagingTyped
  <2>. QED
    BY <1>1, <1>2, <2>1
<1>5. CASE n \notin onGitHub[e]
  <2>1. /\ onGitHub' \in [Endpoint -> SUBSET Names] /\ UNCHANGED <<steady, taken>>
        /\ \A d \in Endpoint : onGitHub[d] \subseteq onGitHub'[d]
    BY <1>1, <1>3, <1>5 DEF PagingTyped
  <2>2. PagingTyped'
    BY <1>1, <1>2, <2>1 DEF PagingTyped
  <2>3. GatheredAll'
    BY <1>1 DEF GatheredAll
  <2>4. ASSUME taken = 0 PROVE GatheredThere'
    <3>1. PICK at, S, T : at = AtEndpoint(asked) /\ S = onGitHub[at] /\ T = onGitHub'[at]
      OBVIOUS
    <3>2. at \in Endpoint
      BY <3>1 DEF AtEndpoint, Endpoint
    <3>3. S \subseteq T /\ Numbered(T) /\ steady[at] \subseteq S
      BY <1>1, <2>1, <3>1, <3>2, NamesAreNumbered DEF PagingTyped
    <3>4. PICK done : done = (asked.page - 1) * PerPage
      OBVIOUS
    <3>5. done \in Nat
      <4>1. asked.page - 1 \in Nat
        <5>1. asked.page \in Nat \ {0}
          BY Zenon, <1>1 DEF Asks
        <5>. QED
          BY <5>1
      <4>. QED
        BY <3>4, <4>1, NamesAreNumbered
    <3>6. \A m \in steady[at] : Paging!Ours(at, m) /\ gathered[m] = 0 => Ranked(S, m) > done
      BY <1>1, <2>4, <3>1, <3>4 DEF GatheredThere
    <3>7. ASSUME NEW m \in steady[at], Paging!Ours(at, m)', gathered[m] = 0 PROVE Ranked(T, m) > done
      <4>1. Paging!Ours(at, m)
        BY <1>1, <3>7 DEF Paging!Ours, foreign
      <4>. QED
        BY <3>3, <3>5, <3>6, <3>7, <4>1, RanksOnlyGrow
    <3>8. asked.endpoint = 2 => \A m \in steady["their own"] : gathered[m] > 0
      BY <1>1, <2>4 DEF GatheredThere
    <3>. QED
      BY <1>1, <2>1, <3>1, <3>4, <3>7, <3>8 DEF GatheredThere, AtEndpoint, Paging!Ours
  <2>. QED
    BY <1>1, <1>2, <2>1, <2>2, <2>3, <2>4
<1>. QED
  BY <1>4, <1>5

\* Reading a page: what is kept of it is gathered, and what stands behind it is
\* still to come; a short page has nothing behind it.
LEMMA ReadPageKeeps == ASSUME PagingInv, Paging!ReadPage PROVE PagingInv'
<1>0. 1 + 1 = 2 /\ ~(1 = 2) /\ (1 - 1) * PerPage = 0
  BY NamesAreNumbered
<1>. USE DEF PagingInv
<1>1. PICK at : at = AtEndpoint(asked)
  OBVIOUS
<1>2. /\ asked \in Asks /\ ReadByKind(asked) /\ PagingTyped /\ asked.at = "reading"
      /\ UNCHANGED <<onGitHub, foreign, steady, taken, altered>>
  BY DEF PagingTyped, Paging!ReadPage, onGitHub, foreign, steady, taken, altered, asked
<1>3. /\ Paging!Endpoints(asked.whose)[asked.endpoint] = at /\ at \in Endpoint /\ at \in ReadOf(asked.whose)
      /\ asked.endpoint = Len(Paging!Endpoints(asked.whose)) <=> (asked.whose = "another user" => asked.endpoint = 2)
      /\ asked.endpoint \in {1, 2}
  BY Zenon, <1>1, <1>2, EndpointsAre
<1>4. PICK batch : batch = Paging!Page(at, asked.page)
  OBVIOUS
<1>5. PICK kept : kept = {n \in batch : Paging!Kept(at, n)}
  OBVIOUS
<1>6. /\ gathered' = [n \in Names |-> gathered[n] + (IF n \in kept THEN 1 ELSE 0)]
      /\ asked' = IF ~Paging!Short(batch, kept) THEN [asked EXCEPT !.page = @ + 1]
                  ELSE IF asked.endpoint = Len(Paging!Endpoints(asked.whose))
                       THEN [asked EXCEPT !.at = "listed"]
                       ELSE [asked EXCEPT !.endpoint = @ + 1, !.page = 1]
  BY Zenon, <1>3, <1>4, <1>5 DEF Paging!ReadPage, gathered, asked
<1>7. PICK S : S = onGitHub[at]
  OBVIOUS
<1>8. S \in SUBSET Names /\ Numbered(S) /\ steady[at] \subseteq S
  BY <1>2, <1>3, <1>7, NamesAreNumbered DEF PagingTyped
<1>9. PICK k : k = asked.page
  OBVIOUS
<1>10. k \in Nat \ {0}
  BY Zenon, <1>2, <1>9 DEF Asks
<1>11. PICK a, b : a = (k - 1) * PerPage /\ b = k * PerPage
  OBVIOUS
<1>12. a \in Nat /\ b \in Nat /\ b = a + PerPage /\ (k + 1) - 1 = k
  <2>1. k - 1 \in Nat /\ PerPage \in Nat /\ k \in Nat
    BY <1>10, NamesAreNumbered
  <2>. QED
    BY <1>11, <2>1
<1>13. batch = {n \in S : a < Ranked(S, n) /\ Ranked(S, n) <= b}
  <2>1. \A n : Paging!Place(at, n) = Ranked(S, n)
    BY Zenon, <1>7, NamesAreNumbered DEF Paging!Place, Ranked, UpTo, onGitHub
  <2>. QED
    BY Zenon, <1>4, <1>7, <1>9, <1>11, <2>1 DEF Paging!Page, onGitHub
<1>14. Paging!Short(batch, kept) <=> Cardinality(batch) < PerPage
  BY Zenon, NamesAreNumbered DEF Paging!Short
<1>15. \A n \in batch : n \in kept <=>
          Paging!Ours(at, n) /\ (asked.whose # "branches" => gathered[n] = 0)
  BY Zenon, <1>5 DEF Paging!Kept, asked, gathered
<1>16. kept \subseteq batch /\ batch \subseteq S
  BY <1>5, <1>13
<1>17. /\ gathered' \in [Names -> Nat]
       /\ \A n \in Names : n \in kept => gathered'[n] = gathered[n] + 1
       /\ \A n \in Names : n \notin kept => gathered'[n] = gathered[n]
       /\ \A n \in Names : gathered[n] \in Nat
  BY <1>2, <1>6 DEF PagingTyped
<1>18. /\ asked' \in Asks /\ ReadByKind(asked') /\ asked'.whose = asked.whose /\ asked'.at # "idle"
       /\ Cardinality(batch) >= PerPage => asked'.at = "reading" /\ asked'.endpoint = asked.endpoint /\ asked'.page = k + 1
       /\ Cardinality(batch) < PerPage /\ (asked.whose = "another user" => asked.endpoint = 2) => asked'.at = "listed"
       /\ Cardinality(batch) < PerPage /\ ~(asked.whose = "another user" => asked.endpoint = 2) =>
             /\ asked'.at = "reading" /\ asked'.endpoint = 2 /\ asked.endpoint = 1 /\ asked'.page = 1
             /\ asked.whose = "another user"
  <2>1. CASE Cardinality(batch) >= PerPage
    <3>1. ~Paging!Short(batch, kept)
      <4>1. Cardinality(batch) \in Nat /\ PerPage \in Nat
        BY <1>8, <1>16, FS_Subset, FS_CardinalityType, NamesAreNumbered DEF Numbered
      <4>2. ~(Cardinality(batch) < PerPage)
        BY <2>1, <4>1
      <4>. QED
        BY Zenon, <1>14, <4>2
    <3>2. asked' = [asked EXCEPT !.page = @ + 1]
      BY Zenon, <1>6, <3>1
    <3>3. asked' \in Asks /\ asked'.at = asked.at /\ asked'.whose = asked.whose
          /\ asked'.endpoint = asked.endpoint /\ asked'.page = asked.page + 1
      BY <1>2, <3>2 DEF Asks
    <3>4. ReadByKind(asked')
      BY Zenon, <1>2, <3>3 DEF ReadByKind
    <3>5. ~(Cardinality(batch) < PerPage)
      BY Zenon, <1>14, <3>1
    <3>. QED
      BY Zenon, <1>2, <1>9, <3>3, <3>4, <3>5
  <2>2. CASE ~(Cardinality(batch) >= PerPage)
    <3>1. Paging!Short(batch, kept)
      <4>1. Cardinality(batch) \in Nat /\ PerPage \in Nat
        BY <1>8, <1>16, FS_Subset, FS_CardinalityType, NamesAreNumbered DEF Numbered
      <4>2. Cardinality(batch) < PerPage
        BY <2>2, <4>1
      <4>. QED
        BY Zenon, <1>14, <4>2
    <3>2. CASE asked.whose = "another user" => asked.endpoint = 2
      <4>1. asked' = [asked EXCEPT !.at = "listed"]
        BY Zenon, <1>3, <1>6, <3>1, <3>2
      <4>2. asked' \in Asks /\ asked'.at = "listed" /\ asked'.whose = asked.whose
            /\ asked'.endpoint = asked.endpoint
        BY <1>2, <4>1 DEF Asks
      <4>3. ReadByKind(asked')
        BY Zenon, <1>2, <4>2 DEF ReadByKind
      <4>. QED
        BY Zenon, <2>2, <3>2, <4>2, <4>3
    <3>3. CASE ~(asked.whose = "another user" => asked.endpoint = 2)
      <4>1. asked' = [asked EXCEPT !.endpoint = @ + 1, !.page = 1]
        BY Zenon, <1>3, <1>6, <3>1, <3>3
      <4>2. asked.whose = "another user" /\ asked.endpoint = 1
        BY Zenon, <1>3, <3>3
      <4>3. asked' \in Asks /\ asked'.at = asked.at /\ asked'.whose = asked.whose
            /\ asked'.endpoint = 2 /\ asked'.page = 1
        <5>1. PICK x : x = [asked EXCEPT !.endpoint = 2]
          OBVIOUS
        <5>2. x \in Asks /\ x.at = asked.at /\ x.whose = asked.whose /\ x.endpoint = 2
          BY <1>2, <5>1 DEF Asks
        <5>3. asked.endpoint + 1 = 2
          BY Zenon, <1>0, <4>2
        <5>4. asked' = [x EXCEPT !.page = 1]
          BY <4>1, <5>1, <5>3
        <5>. QED
          BY <5>2, <5>4 DEF Asks
      <4>4. ReadByKind(asked')
        BY Zenon, <4>2, <4>3 DEF ReadByKind
      <4>. QED
        BY Zenon, <1>2, <2>2, <3>3, <4>2, <4>3, <4>4
    <3>. QED
      BY Zenon, <3>2, <3>3
  <2>. QED
    BY Zenon, <2>1, <2>2
<1>19. PagingTyped'
  BY <1>2, <1>17, <1>18 DEF PagingTyped
\* Nothing is read twice where what is gathered already is left out.
<1>20. asked'.whose # "branches" => \A n \in Names : gathered'[n] <= 1
  <2>. SUFFICES ASSUME asked.whose # "branches", NEW n \in Names PROVE gathered'[n] <= 1
    BY <1>18
  <2>1. gathered[n] <= 1 /\ gathered[n] \in Nat
    BY <1>17
  <2>2. CASE n \in kept
    <3>1. gathered[n] = 0
      BY Zenon, <1>15, <1>16, <2>2
    <3>2. gathered'[n] = gathered[n] + 1
      BY Zenon, <1>17, <2>2
    <3>. QED
      BY <3>1, <3>2
  <2>3. CASE n \notin kept
    BY <1>17, <2>1, <2>3
  <2>. QED
    BY <2>2, <2>3
<1>21. altered' = 0 => \A n \in Names : gathered'[n] > 0 =>
          \E e \in ReadOf(asked'.whose) : n \in onGitHub'[e] /\ Paging!Ours(e, n)'
  <2>. SUFFICES ASSUME altered = 0, NEW n \in Names, gathered'[n] > 0
                PROVE  \E e \in ReadOf(asked.whose) : n \in onGitHub[e] /\ Paging!Ours(e, n)
    BY <1>2, <1>18 DEF Paging!Ours, foreign
  <2>1. CASE n \in kept
    BY Zenon, <1>3, <1>7, <1>15, <1>16, <2>1
  <2>2. CASE n \notin kept
    <3>1. gathered[n] > 0
      BY <1>17, <2>2
    <3>. QED
      BY <3>1
  <2>. QED
    BY <2>1, <2>2
<1>22. ASSUME taken' = 0 PROVE GatheredThere' /\ GatheredAll'
  <2>1. GatheredThere
    BY <1>2, <1>22
  <2>2. asked.endpoint = 2 => \A n \in steady["their own"] : gathered[n] > 0
    BY Zenon, <1>2, <2>1 DEF GatheredThere
  <2>3. \A n \in steady[at] : Paging!Ours(at, n) /\ gathered[n] = 0 => Ranked(S, n) > a
    BY Zenon, <1>1, <1>2, <1>7, <1>9, <1>11, <2>1 DEF GatheredThere
  <2>4. \A n \in S : n \in Names /\ Ranked(S, n) \in Nat
    BY <1>8, RanksAreOrdered
  <2>5. \A n \in Names : gathered[n] > 0 => gathered'[n] > 0
    <3>. SUFFICES ASSUME NEW n \in Names, gathered[n] > 0 PROVE gathered'[n] > 0
      OBVIOUS
    <3>1. gathered[n] \in Nat /\ (gathered'[n] = gathered[n] + 1 \/ gathered'[n] = gathered[n])
      BY Zenon, <1>17
    <3>. QED
      BY <3>1
  <2>6. \A n \in steady[at] : Paging!Ours(at, n) /\ gathered'[n] = 0 => Ranked(S, n) > b
    <3>. SUFFICES ASSUME NEW n \in steady[at], Paging!Ours(at, n), gathered'[n] = 0, ~(Ranked(S, n) > b)
                  PROVE  FALSE
      OBVIOUS
    <3>1. n \in S /\ n \in Names /\ Ranked(S, n) \in Nat
      BY Zenon, <1>8, <2>4
    <3>2. n \notin kept
      <4>. SUFFICES ASSUME n \in kept PROVE FALSE
        OBVIOUS
      <4>1. gathered'[n] = gathered[n] + 1 /\ gathered[n] \in Nat
        BY Zenon, <1>17, <3>1
      <4>. QED
        BY <4>1
    <3>3. gathered[n] = 0
      BY Zenon, <1>17, <3>1, <3>2
    <3>4. Ranked(S, n) > a /\ Ranked(S, n) <= b
      <4>1. Ranked(S, n) > a
        BY Zenon, <2>3, <3>3
      <4>. QED
        BY <1>12, <3>1, <4>1
    <3>5. n \in batch
      BY <1>13, <3>1, <3>4
    <3>. QED
      BY Zenon, <1>15, <3>2, <3>3, <3>5
  <2>7. Cardinality(batch) < PerPage => \A n \in S : ~(Ranked(S, n) > b)
    <3>. SUFFICES ASSUME Cardinality(batch) < PerPage, NEW n \in S, Ranked(S, n) > b PROVE FALSE
      OBVIOUS
    <3>1. a <= b /\ b - a = PerPage /\ PerPage \in Nat
      BY <1>12, NamesAreNumbered
    <3>2. Cardinality(batch) = b - a
      BY <1>8, <1>12, <1>13, <3>1, PageIsFull
    <3>. QED
      BY <3>1, <3>2
  <2>8. Cardinality(batch) < PerPage => \A n \in steady[at] : Paging!Ours(at, n) => gathered'[n] > 0
    <3>. SUFFICES ASSUME Cardinality(batch) < PerPage, NEW n \in steady[at], Paging!Ours(at, n)
                  PROVE  gathered'[n] > 0
      OBVIOUS
    <3>1. n \in S /\ n \in Names
      BY Zenon, <1>8, <2>4
    <3>2. gathered'[n] # 0
      BY Zenon, <2>6, <2>7, <3>1
    <3>3. gathered'[n] \in Nat
      BY <1>17, <3>1
    <3>. QED
      BY <3>2, <3>3
  <2>9. \A n : Paging!Ours(at, n)' <=> Paging!Ours(at, n)
    BY Zenon, <1>2 DEF Paging!Ours, foreign
  <2>10. CASE Cardinality(batch) >= PerPage
    <3>1. asked'.at = "reading" /\ asked'.endpoint = asked.endpoint /\ asked'.page = k + 1
      BY Zenon, <1>18, <2>10
    <3>2. AtEndpoint(asked') = at
      BY Zenon, <1>1, <3>1 DEF AtEndpoint
    <3>3. (asked'.page - 1) * PerPage = b
      BY Zenon, <1>11, <1>12, <3>1
    <3>4. asked'.endpoint = 2 => \A n \in steady'["their own"] : gathered'[n] > 0
      <4>1. \A n \in steady["their own"] : n \in Names
        BY <1>2 DEF PagingTyped, Endpoint
      <4>. QED
        BY Zenon, <1>2, <2>2, <2>5, <3>1, <4>1
    <3>5. \A n \in steady'[AtEndpoint(asked')] :
             Paging!Ours(AtEndpoint(asked), n)' /\ gathered'[n] = 0
                => Ranked(onGitHub'[AtEndpoint(asked')], n) > (asked'.page - 1) * PerPage
      BY Zenon, <1>2, <1>7, <2>6, <2>9, <3>2, <3>3
    <3>6. GatheredThere'
      BY Zenon, <3>4, <3>5 DEF GatheredThere
    <3>. QED
      BY Zenon, <3>1, <3>6 DEF GatheredAll
  <2>11. CASE Cardinality(batch) < PerPage /\ (asked.whose = "another user" => asked.endpoint = 2)
    <3>1. asked'.at = "listed" /\ asked'.whose = asked.whose
      BY Zenon, <1>18, <2>11
    <3>2. ASSUME NEW e \in ReadOf(asked.whose), NEW n \in steady[e], Paging!Ours(e, n) PROVE gathered'[n] > 0
      <4>1. CASE e = at
        BY Zenon, <2>8, <2>11, <3>2, <4>1
      <4>2. CASE e # at
        <5>1. asked.endpoint = 2 /\ e = "their own"
          <6>1. asked.whose = "another user"
            <7>. SUFFICES ASSUME asked.whose # "another user" PROVE FALSE
              OBVIOUS
            <7>1. asked.endpoint # 2
              BY Zenon, <1>2 DEF ReadByKind
            <7>2. at = "their own" /\ e = "their own"
              BY Zenon, <1>1, <7>1 DEF AtEndpoint, ReadOf
            <7>. QED
              BY Zenon, <4>2, <7>2
          <6>2. asked.endpoint = 2
            BY Zenon, <2>11, <6>1
          <6>3. at = "collaborator" /\ e \in Endpoint
            BY Zenon, <1>1, <6>1, <6>2 DEF AtEndpoint, ReadOf
          <6>. QED
            BY Zenon, <4>2, <6>2, <6>3 DEF Endpoint
        <5>2. n \in Names
          BY <1>2, <5>1 DEF PagingTyped, Endpoint
        <5>. QED
          BY Zenon, <2>2, <2>5, <5>1, <5>2
      <4>. QED
        BY Zenon, <4>1, <4>2
    <3>3. \A e, n : Paging!Ours(e, n)' <=> Paging!Ours(e, n)
      BY Zenon, <1>2 DEF Paging!Ours, foreign
    <3>4. GatheredAll'
      BY Zenon, <1>2, <3>1, <3>2, <3>3 DEF GatheredAll
    <3>. QED
      BY Zenon, <3>1, <3>4 DEF GatheredThere
  <2>12. CASE Cardinality(batch) < PerPage /\ ~(asked.whose = "another user" => asked.endpoint = 2)
    <3>1. /\ asked'.at = "reading" /\ asked'.endpoint = 2 /\ asked.endpoint = 1 /\ asked'.page = 1
          /\ asked.whose = "another user"
      BY Zenon, <1>18, <2>12
    <3>2. at = "their own" /\ AtEndpoint(asked') = "collaborator"
      BY Zenon, <1>0, <1>1, <3>1 DEF AtEndpoint
    <3>3. \A n \in steady["their own"] : gathered'[n] > 0
      <4>1. \A n : Paging!Ours("their own", n)
        BY DEF Paging!Ours
      <4>. QED
        BY Zenon, <2>8, <2>12, <3>2, <4>1
    <3>4. PICK T : T = onGitHub["collaborator"]
      OBVIOUS
    <3>5. Numbered(T) /\ steady["collaborator"] \subseteq T
      BY <1>2, <3>4, NamesAreNumbered DEF PagingTyped, Endpoint
    <3>6. (asked'.page - 1) * PerPage = 0
      BY Zenon, <1>0, <3>1
    <3>7. \A n \in steady["collaborator"] : Ranked(T, n) > 0
      <4>. SUFFICES ASSUME NEW n \in steady["collaborator"] PROVE Ranked(T, n) > 0
        OBVIOUS
      <4>1. n \in T
        BY <3>5
      <4>2. Ranked(T, n) \in Nat /\ Ranked(T, n) >= 1
        BY <3>5, <4>1, RanksAreOrdered
      <4>. QED
        BY <4>2
    <3>8. GatheredThere'
      BY Zenon, <1>2, <3>2, <3>3, <3>4, <3>6, <3>7 DEF GatheredThere
    <3>. QED
      BY Zenon, <3>1, <3>8 DEF GatheredAll
  <2>13. Cardinality(batch) >= PerPage \/ Cardinality(batch) < PerPage
    <3>1. Cardinality(batch) \in Nat /\ PerPage \in Nat
      BY <1>8, <1>16, FS_Subset, FS_CardinalityType, NamesAreNumbered DEF Numbered
    <3>. QED
      BY <3>1
  <2>. QED
    BY Zenon, <2>10, <2>11, <2>12, <2>13
<1>. QED
  <2>1. asked'.at # "idle"
    BY Zenon, <1>18
  <2>. QED
    BY Zenon, <1>19, <1>20, <1>21, <1>22, <2>1

LEMMA UnchangedKeeps == ASSUME PagingInv, UNCHANGED Paging!pagingVars PROVE PagingInv'
<1>1. UNCHANGED <<onGitHub, foreign, asked, gathered, steady, taken, altered>>
  BY Zenon DEF Paging!pagingVars, onGitHub, foreign, asked, gathered, steady, taken, altered
<1>2. PagingTyped'
  BY <1>1 DEF PagingInv, PagingTyped
<1>3. taken' = 0 => GatheredThere' /\ GatheredAll'
  <2>1. \A e, n : Paging!Ours(e, n)' <=> Paging!Ours(e, n)
    BY Zenon, <1>1 DEF Paging!Ours, foreign
  <2>. QED
    BY Zenon, <1>1, <2>1 DEF PagingInv, GatheredThere, GatheredAll, AtEndpoint
<1>4. \A e, n : Paging!Ours(e, n)' <=> Paging!Ours(e, n)
  BY Zenon, <1>1 DEF Paging!Ours, foreign
<1>. QED
  BY Zenon, <1>1, <1>2, <1>3, <1>4 DEF PagingInv

LEMMA PagingStep == PagingInv /\ [Paging!Next]_(Paging!pagingVars) => PagingInv'
<1>. SUFFICES ASSUME PagingInv, Paging!Next PROVE PagingInv'
  BY UnchangedKeeps
<1>1. CASE Paging!Identify
  BY <1>1, IdentifyKeeps
<1>2. CASE Paging!ReadPage
  BY <1>2, ReadPageKeeps
<1>3. CASE Paging!PageFails
  BY <1>3, PageFailsKeeps
<1>4. CASE \E e \in Paging!Endpoint : Paging!Changes(e)
  BY <1>4, ChangesKeep DEF Endpoint, Paging!Endpoint
<1>. QED
  BY Zenon, <1>1, <1>2, <1>3, <1>4 DEF Paging!Next

\* A list that was read to its end is the owner's whole list, however its pages
\* shifted while it was read, for every number of names, size of a page and
\* number of changes (fetchOwnerRepos and ListBranches of internal/github).
THEOREM ListsAreWhole == Paging!PagingSpec => []Paging!ListIsWhole
  BY PagingInit, PagingStep, PagingShows, PTL DEF Paging!PagingSpec

-----------------------------------------------------------------------------
(* Rows of pull requests and their ETags.                                    *)

versions == v1
listed   == v2
kept     == v3
fetch    == v4
USE DEF versions, listed, kept, fetch

Rows   == [rows : Nat, etag : Nat]
Caches == [order : SUBSET PullRepos, signedOut : BOOLEAN, repos : [PullRepos -> Rows]]

\* A cache whose ETags are those its rows came with, for listed repositories only.
Paired(c) ==
    \A r \in PullRepos :
        /\ c.repos[r].rows = c.repos[r].etag
        /\ r \notin c.order => c.repos[r] = PullRequests!NoRows

\* The fetch under way builds such a cache out of one, and has only listed
\* repositories left to ask for.
PairedInv ==
    /\ versions \in [PullRepos -> Nat] /\ listed \subseteq PullRepos
    /\ kept \in Caches /\ Paired(kept)
    /\ fetch \in [at : {"idle", "asking"}, left : SUBSET PullRepos, next : Caches]
    /\ Paired(fetch.next)
    /\ fetch.left \subseteq fetch.next.order

LEMMA EmptyIsPaired == PullRequests!Empty \in Caches /\ Paired(PullRequests!Empty)
  BY DEF PullRequests!Empty, Caches, Rows, Paired, PullRequests!NoRows

\* Whatever GitHub answers, the rows kept are those of the ETag kept.
LEMMA AnswerIsPaired ==
    ASSUME NEW r \in PullRepos, versions[r] \in Nat, NEW cached \in Rows, cached.rows = cached.etag
    PROVE  /\ PullRequests!ListPullRequests(r, cached) \in Rows
           /\ PullRequests!ListPullRequests(r, cached).rows = PullRequests!ListPullRequests(r, cached).etag
  BY DEF PullRequests!ListPullRequests, PullRequests!Gone, PullRequests!NoRows, Rows

LEMMA PairedInitially == PullRequests!PullsInit => PairedInv
  BY EmptyIsPaired DEF PullRequests!PullsInit, PairedInv

\* A fetch starts from the rows of the repositories that are still listed.
LEMMA StartsPaired == ASSUME PairedInv, PullRequests!Starts PROVE PairedInv'
<1>. DEFINE from == [order |-> listed, signedOut |-> FALSE,
                     repos |-> [r \in PullRepos |-> IF r \in listed THEN kept.repos[r] ELSE PullRequests!NoRows]]
<1>1. from \in Caches /\ Paired(from) /\ from.order = listed
  BY DEF PairedInv, Caches, Rows, Paired, PullRequests!NoRows
<1>2. fetch' = [at |-> "asking", left |-> listed, next |-> from] /\ UNCHANGED <<versions, listed, kept>>
  BY DEF PullRequests!Starts
<1>. HIDE DEF from
<1>3. fetch'.next = from /\ fetch'.left = listed
      /\ fetch' \in [at : {"idle", "asking"}, left : SUBSET PullRepos, next : Caches]
  BY <1>1, <1>2 DEF PairedInv
<1>. QED
  BY <1>1, <1>2, <1>3 DEF PairedInv

\* However it ends, the cache is one of those two.
LEMMA EndsPaired ==
    ASSUME PairedInv, PullRequests!AllAsked \/ PullRequests!SignedOut \/ PullRequests!Cancelled
    PROVE  PairedInv'
<1>. DEFINE out == [fetch.next EXCEPT !.signedOut = TRUE]
<1>1. out \in Caches /\ Paired(out)
  BY DEF PairedInv, Caches, Rows, Paired
<1>2. PICK next \in Caches : Paired(next) /\ PullRequests!Ends(next)
  BY <1>1 DEF PairedInv, PullRequests!AllAsked, PullRequests!SignedOut, PullRequests!Cancelled
<1>. QED
  BY <1>2, EmptyIsPaired DEF PairedInv, PullRequests!Ends

\* One repository is asked for.
LEMMA AskPaired == ASSUME PairedInv, NEW r \in PullRepos, PullRequests!Ask(r) PROVE PairedInv'
<1>. DEFINE cached == fetch.next.repos[r]
<1>1. cached \in Rows /\ cached.rows = cached.etag /\ versions[r] \in Nat
  BY DEF PairedInv, Caches, Rows, Paired
<1>2. PICK now \in Rows :
         now.rows = now.etag /\ fetch' = [fetch EXCEPT !.left = @ \ {r}, !.next.repos[r] = now]
  BY <1>1, AnswerIsPaired DEF PullRequests!Ask
<1>3. r \in fetch.next.order
  BY DEF PullRequests!Ask, PairedInv
<1>. HIDE DEF cached
<1>4. /\ fetch' \in [at : {"idle", "asking"}, left : SUBSET PullRepos, next : Caches]
      /\ fetch'.left \subseteq fetch.left
      /\ fetch'.next.order = fetch.next.order
      /\ fetch'.next.repos = [fetch.next.repos EXCEPT ![r] = now]
  BY <1>2 DEF PairedInv, Caches, Rows
<1>5. Paired(fetch'.next)
  BY <1>2, <1>3, <1>4 DEF PairedInv, Paired, Caches, Rows
<1>. QED
  BY <1>4, <1>5 DEF PairedInv, PullRequests!Ask

LEMMA PairedStep == PairedInv /\ [PullRequests!PullsNext]_(PullRequests!pullVars) => PairedInv'
<1>. SUFFICES ASSUME PairedInv, [PullRequests!PullsNext]_(PullRequests!pullVars) PROVE PairedInv'
  OBVIOUS
<1>1. CASE \E r \in PullRepos, v \in 0..2 : PullRequests!Changes(r, v)
  BY <1>1 DEF PairedInv, PullRequests!Changes
<1>2. CASE \E repos \in SUBSET PullRepos : PullRequests!ManifestChanges(repos)
  BY <1>2 DEF PairedInv, PullRequests!ManifestChanges
<1>3. CASE UNCHANGED PullRequests!pullVars
  BY <1>3 DEF PairedInv, PullRequests!pullVars
<1>. QED
  BY <1>1, <1>2, <1>3, StartsPaired, EndsPaired, AskPaired DEF PullRequests!PullsNext

LEMMA PairedShows == PairedInv => PullRequests!NotModifiedIsTrue
  BY DEF PairedInv, Paired, PullRequests!NotModifiedIsTrue

\* What GitHub calls "not modified" is what the rows show, however many repositories
\* come and go and whatever fails in between (pulls.go's fetch).
THEOREM RowsMatchTheirETag == PullRequests!PullsSpec => []PullRequests!NotModifiedIsTrue
  BY PairedInitially, PairedStep, PairedShows, PTL DEF PullRequests!PullsSpec

-----------------------------------------------------------------------------
(* The parts together.                                                       *)

PartInv ==
    /\ PickerInv
    /\ part = "launch" => LaunchInv
    /\ part = "settings" => SettingsInv
    /\ part = "repositories" => Lists!OlderInv
    /\ part = "paging" => PagingInv
    /\ part = "pull requests" => PairedInv

LEMMA LaunchRests ==
    ASSUME LaunchInv, UNCHANGED <<v1, v2, v3, v4, v5, v6, v7, v8>> PROVE LaunchInv'
<1>1. UNCHANGED <<lock, descriptor, line, offer, wb, v6, made, settled>>
  OBVIOUS
<1>. HIDE DEF lock, descriptor, line, offer, wb, made, settled
<1>2. /\ \A w : /\ Launch!Holding(w)' = Launch!Holding(w)
                /\ (Launch!Alive(w)' <=> Launch!Alive(w)) /\ (Good(w)' <=> Good(w))
      /\ Promised' = Promised /\ \A t : Kept(t)' <=> Kept(t)
  BY <1>1 DEF Launch!Holding, Launch!Alive, Good, Promised, Kept, wb
<1>3. LaunchTyped' /\ LockInv'
  BY <1>1 DEF LaunchInv, LaunchTyped, LockInv
<1>4. \A w \in Workbenches : Placed(w)' /\ WaitsInv(w)'
  BY <1>1, <1>2 DEF LaunchInv, Placed, WaitsInv
<1>5. \A w \in Workbenches : wb'[w].life \in {"starting", "serving"} => Awaited(w)'
  BY <1>1 DEF LaunchInv, Awaited
<1>6. \A i \in Invocations : CallInv(i)'
  BY <1>1, <1>2 DEF LaunchInv, CallInv
<1>7. Launch!OneWorkbench'
  BY <1>1, <1>2 DEF LaunchInv, Launch!OneWorkbench, wb
<1>. QED
  BY <1>2, <1>3, <1>4, <1>5, <1>6, <1>7 DEF LaunchInv

LEMMA SettingsRest ==
    ASSUME SettingsInv, UNCHANGED Settings!settingsVars PROVE SettingsInv'
<1>1. UNCHANGED <<v1, v2, v3, v4, v5, v6, v7, v8, v9, v11>>
  BY DEF Settings!settingsVars
<1>2. UNCHANGED <<file, live, told, Onfile, doing, Unedited>>
  BY <1>1 DEF file, live, told, Onfile, doing, Unedited
<1>3. \A h \in Settings!Handler : BegunInv(h)' /\ StagedInv(h)' /\ IndexedInv(h)'
  BY <1>1, <1>2, HandlerKept DEF SettingsInv
<1>. QED
  BY <1>1, <1>2, <1>3 DEF SettingsInv, SettingsTyped, At, ToldInv

LEMMA PartsInitially == RequestsInit => PartInv
<1>. SUFFICES ASSUME RequestsInit PROVE PartInv
  OBVIOUS
<1>1. PickerInv
  <2>1. Init
    BY Zenon DEF RequestsInit
  <2>. QED
    BY <2>1, PickerInitially
<1>2. ASSUME part = "launch" PROVE LaunchInv
  BY <1>2, LaunchInitially, PartsAssumption DEF RequestsInit
<1>3. ASSUME part = "settings" PROVE SettingsInv
  BY <1>3, SettingsInitially, PartsAssumption DEF RequestsInit
<1>4. ASSUME part = "repositories" PROVE Lists!OlderInv
  <2>1. Repositories!RepoInit
    BY <1>4 DEF RequestsInit
  <2>. QED
    BY <2>1, Lists!OlderInit, SameList, PartsAssumption
<1>5. ASSUME part = "paging" PROVE PagingInv
  <2>1. Paging!Init
    BY <1>5 DEF RequestsInit
  <2>. QED
    BY <2>1, PagingInit
<1>6. ASSUME part = "pull requests" PROVE PairedInv
  <2>1. PullRequests!PullsInit
    BY <1>6 DEF RequestsInit
  <2>. QED
    BY <2>1, PairedInitially
<1>. QED
  BY Zenon, <1>1, <1>2, <1>3, <1>4, <1>5, <1>6 DEF PartInv

\* The part under check is one step of its own further, and the picker is too, or rests.
LEMMA PartsMove ==
    ASSUME RequestsNext
    PROVE  /\ part' = part /\ [Next]_vars
           /\ part = "launch" => Launch!Next
           /\ part = "settings" => Settings!Next
           /\ part = "repositories" => Repositories!RepoNext
           /\ part = "paging" => Paging!Next
           /\ part = "pull requests" => PullRequests!PullsNext
<1>1. part' = part
  BY Zenon DEF RequestsNext
<1>2. [Next]_vars
  BY Zenon DEF RequestsNext
<1>3. part = "launch" => Launch!Next
  BY Zenon DEF RequestsNext
<1>4. part = "settings" => Settings!Next
  BY Zenon DEF RequestsNext
<1>5. part = "repositories" => Repositories!RepoNext
  BY Zenon DEF RequestsNext
<1>6. part = "paging" => Paging!Next
  BY Zenon DEF RequestsNext
<1>7. part = "pull requests" => PullRequests!PullsNext
  BY Zenon DEF RequestsNext
<1>. QED
  BY Zenon, <1>1, <1>2, <1>3, <1>4, <1>5, <1>6, <1>7

LEMMA PartsStep == PartInv /\ [RequestsNext]_RequestsVars => PartInv'
<1>. SUFFICES ASSUME PartInv, [RequestsNext]_RequestsVars PROVE PartInv'
  OBVIOUS
<1>1. CASE RequestsNext
  <2>1. PickerInv'
    BY <1>1, PartsMove, PickerStep DEF PartInv
  <2>2. ASSUME part = "launch" PROVE LaunchInv'
    BY <1>1, <2>2, PartsMove, LaunchStep, PartsAssumption DEF PartInv
  <2>3. ASSUME part = "settings" PROVE SettingsInv'
    BY <1>1, <2>3, PartsMove, SettingsStep, PartsAssumption DEF PartInv
  <2>4. ASSUME part = "repositories" PROVE Lists!OlderInv'
    <3>1. Lists!RepoNext
      BY <1>1, <2>4, PartsMove, SameList
    <3>. QED
      BY <2>4, <3>1, Lists!OlderStep, SameList, PartsAssumption DEF PartInv
  <2>5. part' = part
    BY <1>1, PartsMove
  <2>6. ASSUME part = "paging" PROVE PagingInv'
    <3>1. PagingInv /\ Paging!Next
      BY Zenon, <1>1, <2>6, PartsMove DEF PartInv
    <3>. QED
      BY Zenon, <3>1, PagingStep
  <2>7. ASSUME part = "pull requests" PROVE PairedInv'
    <3>1. PairedInv /\ PullRequests!PullsNext
      BY Zenon, <1>1, <2>7, PartsMove DEF PartInv
    <3>. QED
      BY Zenon, <3>1, PairedStep
  <2>. QED
    BY Zenon, <2>1, <2>2, <2>3, <2>4, <2>5, <2>6, <2>7 DEF PartInv
<1>2. CASE UNCHANGED RequestsVars
  <2>1. part' = part /\ UNCHANGED vars /\ UNCHANGED <<v1, v2, v3, v4, v5, v6, v7, v8, v9, v10, v11>>
    BY <1>2 DEF RequestsVars
  <2>2. PickerInv'
    BY <2>1, PickerStep DEF PartInv
  <2>3. part = "launch" => LaunchInv'
    BY <2>1, LaunchRests DEF PartInv
  <2>4. part = "settings" => SettingsInv'
    BY <2>1, SettingsRest DEF PartInv, Settings!settingsVars
  <2>5. ASSUME part = "repositories" PROVE Lists!OlderInv'
    <3>1. UNCHANGED Lists!repoVars
      BY <2>1 DEF Lists!repoVars
    <3>. QED
      BY <2>5, <3>1, Lists!OlderStep, SameList, PartsAssumption DEF PartInv
  <2>6. ASSUME part = "paging" PROVE PagingInv'
    <3>1. PagingInv /\ UNCHANGED Paging!pagingVars
      BY <2>1, <2>6 DEF PartInv, Paging!pagingVars
    <3>. QED
      BY Zenon, <3>1, PagingStep
  <2>7. ASSUME part = "pull requests" PROVE PairedInv'
    <3>1. PairedInv /\ UNCHANGED PullRequests!pullVars
      BY <2>1, <2>7 DEF PartInv, PullRequests!pullVars
    <3>. QED
      BY Zenon, <3>1, PairedStep
  <2>. QED
    BY Zenon, <2>1, <2>2, <2>3, <2>4, <2>5, <2>6, <2>7 DEF PartInv
<1>. QED
  BY <1>1, <1>2

LEMMA PartsInvariance == Requests => []PartInv
<1>1. Requests => [][RequestsNext]_RequestsVars
  BY PTL DEF Requests
<1>. QED
  BY <1>1, PartsInitially, PartsStep, PTL DEF Requests

\* The variables of the picker, the launch, the settings and the lists hold what the
\* code's own types let them hold.
THEOREM RequestsTyped == Requests => []RequestTypesOK
<1>1. PartInv => RequestTypesOK
  <2>. SUFFICES ASSUME PartInv PROVE RequestTypesOK
    OBVIOUS
  <2>1. TypeOK
    BY DEF PartInv, PickerInv
  <2>2. part = "launch" => Launch!TypeOK
    BY LaunchShow, PartsAssumption DEF PartInv
  <2>3. part = "settings" => Settings!SettingsTypeOK
    BY SettingsShow, PartsAssumption DEF PartInv
  <2>4. ASSUME part = "repositories" PROVE Repositories!RepoTypeOK
    <3>1. Lists!RepoInv
      BY <2>4 DEF PartInv, Lists!OlderInv
    <3>. QED
      BY <3>1, Lists!RepositoriesShow, SameList, PartsAssumption
  <2>. QED
    BY <2>1, <2>2, <2>3, <2>4 DEF RequestTypesOK
<1>. QED
  BY <1>1, PartsInvariance, PTL

\* However many command lines, workbenches and tickets there are, and whichever of them
\* end: there is one workbench, it can be found, and no ticket that was told to be
\* delivered is lost (main.go, launch, assembly/offer.go).
THEOREM LaunchSound == Requests => []LaunchIsSound
<1>1. PartInv => LaunchIsSound
  BY LaunchShow, PartsAssumption DEF PartInv, LaunchIsSound
<1>. QED
  BY <1>1, PartsInvariance, PTL

\* Handlers that save and fail half way never leave routing and search apart, nor a
\* restart that is needed untold; a list read a page at a time while it changes is whole;
\* and rows that were not modified are GitHub's (desktop/settings.go,
\* assembly/settings.go, github/github.go, desktop/pulls.go).
THEOREM WhatIsToldTrue == Requests => []WhatIsToldIsTrue
<1>1. ASSUME PartInv PROVE WhatIsToldIsTrue
  <2>1. part = "settings" =>
           Settings!RoutingIsIndexed /\ Settings!RestartToldTruly /\ Settings!PanelRoundTrip
    BY <1>1, SettingsShow, PartsAssumption DEF PartInv
  <2>2. part = "paging" => Paging!ListIsWhole
    BY Zenon, <1>1, PagingShows DEF PartInv
  <2>3. part = "pull requests" => PullRequests!NotModifiedIsTrue
    BY Zenon, <1>1, PairedShows DEF PartInv
  <2>. QED
    BY Zenon, <2>1, <2>2, <2>3 DEF WhatIsToldIsTrue
<1>. QED
  BY <1>1, PartsInvariance, PTL

\* No step takes back what an earlier one was given: a ticket that waits, a list that is
\* shown, a setting another handler wrote.
THEOREM NothingTaken == Requests => NothingIsTaken
<1>1. Requests => [][RequestsNext]_RequestsVars
  BY PTL DEF Requests
<1>2. PartInv /\ [RequestsNext]_RequestsVars => [TakesNothing]_RequestsVars
  <2>. SUFFICES ASSUME PartInv, RequestsNext PROVE TakesNothing
    OBVIOUS
  <2>1. part = "launch" => Launch!DisplacesNone
    BY PartsMove, LaunchDisplacesNone, PartsAssumption DEF PartInv
  <2>2. ASSUME part = "repositories" PROVE Repositories!NotOlder
    <3>1. Lists!RepoNext
      BY <2>2, PartsMove, SameList
    <3>2. Lists!NotOlder
      BY <2>2, <3>1, Lists!NeverOlder, SameList, PartsAssumption DEF PartInv
    <3>. QED
      BY <3>2, SameList
  <2>3. part = "settings" => Settings!HoldsRouting /\ Settings!KeepsTheRest
    BY PartsMove, SettingsHold, PartsAssumption DEF PartInv
  <2>. QED
    BY <2>1, <2>2, <2>3 DEF TakesNothing
<1>3. Requests => [][TakesNothing]_RequestsVars
  BY <1>1, <1>2, PartsInvariance, PTL
<1>. QED
  BY <1>3 DEF NothingIsTaken
=============================================================================
