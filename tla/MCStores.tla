------------------------------ MODULE MCStores ------------------------------
(* What qrouton keeps on disk and who keeps it up, a part at a time: the        *)
(* supervisor with the manifest it reads, the placement of documents, and the  *)
(* vault's vectors, roots and index.  A run checks the parts its cfg names,    *)
(* each from its own initial states; the parts share no state, and the others  *)
(* rest.                                                                       *)
EXTENDS Supervisor, TLC

CONSTANTS
    Parts,                              \* the parts a run checks
    Root, Far, MaxCrashes,              \* of Placement, the last its MaxFailures
    Homes,                              \* roots a run has its session created in
    Served,                             \* what a run has Ollama serve at first
    Window, Bad, Digest, Search,        \* of Vault
    Batch, SaveEvery, Failures, MaxChanges,
    Profile, Path, MaxServices,         \* of VaultSet, the first its Id
    Name, Text, Sealed, MaxEdits        \* of VaultIndex

\* Where Supervisor's variables rest.
AtRest == mode = "rpi" /\ ~notice

VARIABLES
    part,       \* the part under check
    \* the variables of that part, in the order its module declares them
    v1, v2, v3, v4, v5, v6, v7, v8, v9, v10, v11, v12

Placement == INSTANCE Placement WITH
    MaxFailures <- MaxCrashes, cfg <- v1, away <- v2, folder <- v3, mark <- v4,
    link <- v5, recorded <- v6, op <- v7, failures <- v8

Vault == INSTANCE Vault WITH
    serving <- v1, live <- v2, header <- v3, loaded <- v4, vectors <- v5,
    failures <- v6, building <- v7, builds <- v8, cacheFile <- v9, task <- v10,
    stray <- v11, changes <- v12

VaultSet == INSTANCE VaultSet WITH
    Id <- Profile, made <- v1, services <- v2, stops <- v3, warm <- v4, cancelled <- v5,
    warming <- v6, embedding <- v7, held <- v8

VaultIndex == INSTANCE VaultIndex WITH
    files <- v1, stampOf <- v2, twins <- v3, rootUp <- v4, edits <- v5, due <- v6,
    walking <- v7, walked <- v8, toLoad <- v9, stamps <- v10, byName <- v11, rootErr <- v12

StoresVars == <<part, v1, v2, v3, v4, v5, v6, v7, v8, v9, v10, v11, v12, vars>>

StoresInit ==
    /\ part \in Parts
    /\ Init
    /\ part # "supervisor" => AtRest
    /\ \/ /\ part = "supervisor"
          /\ v1 = 0 /\ v2 = 0 /\ v3 = 0 /\ v4 = 0 /\ v5 = 0 /\ v6 = 0 /\ v7 = 0
          /\ v8 = 0 /\ v9 = 0 /\ v10 = 0 /\ v11 = 0 /\ v12 = 0
       \/ /\ part = "placement" /\ Placement!Init /\ v5 \in Homes
          /\ v9 = 0 /\ v10 = 0 /\ v11 = 0 /\ v12 = 0
       \/ /\ part = "vault" /\ Vault!Init /\ v1 \in Served
       \/ /\ part = "vault set" /\ VaultSet!Init
          /\ v9 = 0 /\ v10 = 0 /\ v11 = 0 /\ v12 = 0
       \/ /\ part = "vault index" /\ VaultIndex!Init

StoresNext ==
    \/ /\ part = "supervisor" /\ Next
       /\ UNCHANGED <<part, v1, v2, v3, v4, v5, v6, v7, v8, v9, v10, v11, v12>>
    \/ /\ part = "placement" /\ Placement!Next
       /\ UNCHANGED <<part, v9, v10, v11, v12, vars>>
    \/ /\ part = "vault" /\ Vault!Next
       /\ UNCHANGED <<part, vars>>
    \/ /\ part = "vault set" /\ VaultSet!Next
       /\ UNCHANGED <<part, v9, v10, v11, v12, vars>>
    \/ /\ part = "vault index" /\ VaultIndex!Next
       /\ UNCHANGED <<part, vars>>

\* The fairness of each part is the one its module states.
Stores ==
    /\ StoresInit /\ [][StoresNext]_StoresVars
    /\ WF_vars(part = "supervisor" /\ Loop)
    /\ WF_(Placement!vars)(part = "placement" /\ (Placement!Step \/ Placement!Refused))
    /\ WF_(Placement!vars)(part = "placement" /\ Placement!Scan)
    /\ WF_(Vault!vaultVars)(part = "vault" /\ Vault!Build)
    /\ WF_(VaultIndex!indexVars)(part = "vault index" /\ VaultIndex!Refresh)
    /\ WF_(VaultIndex!indexVars)(part = "vault index" /\ VaultIndex!IntervalPasses)

ASSUME PartsAssumption ==
    /\ Placement!RootsAssumption /\ Placement!FailuresAssumption
    /\ Vault!VaultAssumption /\ VaultSet!VaultSetAssumption
    /\ VaultIndex!VaultIndexAssumption

-----------------------------------------------------------------------------

\* The variables of every part hold what the code's own types let them hold.
StoreTypesOK ==
    /\ TypeOK
    /\ part = "placement" => Placement!TypeOK
    /\ part = "vault" => Vault!VaultTypeOK
    /\ part = "vault set" => VaultSet!VaultSetTypeOK
    /\ part = "vault index" => VaultIndex!IndexTypeOK

\* A session's documents are somewhere a scan finds them after any crash, and no move
\* ever takes over a folder that is another session's.
PlacementIsSafe ==
    part = "placement" => Placement!NeverLost /\ Placement!NeverAdopts

\* A move that stopped is finished, and leaves no marker, by the scans of later launches
\* once the roots stay configured and mounted and the user asks for no more moves.
MovesAreFinished ==
    /\ <>[](part = "placement" => Placement!RootsAreUp)
    /\ <>[][~(part = "placement" /\ Placement!Move)]_StoresVars
    => <>[](part = "placement" => Placement!Finished)

\* The vault files no vector under another model and no text under a later stamp than
\* its own, builds once at a time, and warms each configured root while it is one.
VaultIsTrue ==
    /\ part = "vault" => Vault!VectorsAsFiled /\ Vault!VectorsOfTheirModel /\ Vault!OneBuild
    /\ part = "vault set" => VaultSet!WarmedIfConfigured
    /\ part = "vault index" => VaultIndex!StampTellsTheText /\ VaultIndex!NothingUnstamped

\* Work under way in the background, and its end.
Unfinished ==
    \/ part = "vault" /\ Vault!Building
    \/ part = "vault index" /\ VaultIndex!LeftAlone

WorkIsDone ==
    \/ part = "vault" /\ ~Vault!Building
    \/ part = "vault index" /\ VaultIndex!Indexes

\* Work in the background ends: a build of the vault, whatever texts no model takes, and
\* the catching up of an index with files that changed while it read them.
WorkEnds == Unfinished ~> WorkIsDone
=============================================================================
