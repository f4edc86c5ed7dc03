------------------------------ MODULE VaultSet ------------------------------
(***************************************************************************)
(* vault.Set: the services of the configured thoughts roots.  Configure    *)
(* swaps the whole map while searches hold services they were handed       *)
(* before; every build a service begins runs under some context, and only  *)
(* the ones the warm up began can be cancelled.                            *)
(***************************************************************************)
EXTENDS Naturals, FiniteSets, Sequences

CONSTANTS
    Id,            \* profile ids
    Path,          \* their roots' paths
    MaxServices    \* bound: services ever made

NoRoot == "none"

VaultSetAssumption == IsFiniteSet(Id) /\ NoRoot \notin Path /\ MaxServices \in Nat

VARIABLES
    made,          \* services ever made: number -> [id, path]
    services,      \* Set.services: id -> number, 0 for none
    stops,         \* Set.stops: id -> the service whose warm up it cancels, 0 for none
    warm,          \* Set.warm is set
    cancelled,     \* services whose warm context is cancelled
    warming,       \* services whose warm up runs
    embedding,     \* builds under way: the service and what began it
    held           \* services handed out by ForPath and ForProfile

vaultSetVars == <<made, services, stops, warm, cancelled, warming, embedding, held>>

Made == 1..Len(made)

VaultSetTypeOK ==
    /\ made \in Seq([id : Id, path : Path])
    /\ services \in [Id -> 0..Len(made)] /\ stops \in [Id -> 0..Len(made)]
    /\ warm \in BOOLEAN /\ cancelled \subseteq Made /\ warming \subseteq Made
    /\ embedding \subseteq [service : Made, by : {"warm", "search"}]
    /\ held \subseteq Made

\* NewSet
Init ==
    /\ made = << >> /\ services = [i \in Id |-> 0] /\ stops = [i \in Id |-> 0]
    /\ warm = FALSE /\ cancelled = {} /\ warming = {} /\ embedding = {} /\ held = {}

-----------------------------------------------------------------------------
\* warmLocked: every service without a stop is warmed under a context of its own
Warmed(svc, stp) ==
    LET cold == {i \in Id : svc[i] # 0 /\ stp[i] = 0}
    IN /\ stops' = [i \in Id |-> IF i \in cold THEN svc[i] ELSE stp[i]]
       /\ warming' = warming \cup {svc[i] : i \in cold}

Warm ==
    /\ ~warm /\ warm' = TRUE
    /\ Warmed(services, stops)
    /\ UNCHANGED <<made, services, cancelled, embedding, held>>

\* the service that keeps its index: same id, same path
Kept(p, i) == p[i] # NoRoot /\ services[i] # 0 /\ made[services[i]] = [id |-> i, path |-> p[i]]

\* Mutant: a stop is kept though its service was replaced.
DroppedByRemoval(p) == {i \in Id : stops[i] # 0 /\ p[i] = NoRoot}

Dropped(p) == {i \in Id : stops[i] # 0 /\ ~Kept(p, i)}

\* the new services, numbered after the ones made so far
Added(p) ==
    LET fresh == {i \in Id : p[i] # NoRoot /\ ~Kept(p, i)}
    IN {f \in [fresh -> (Len(made) + 1)..(Len(made) + Cardinality(fresh))] :
           \A i, j \in fresh : i # j => f[i] # f[j]}

\* Validate: two roots must not overlap
Valid(p) == \A i, j \in Id : i # j /\ p[i] = p[j] => p[i] = NoRoot

Configure(p) ==
  /\ Valid(p)
  /\ \E fresh \in Added(p) :
       LET next == [i \in Id |-> IF Kept(p, i) THEN services[i]
                                 ELSE IF p[i] = NoRoot THEN 0 ELSE fresh[i]]
           left == [i \in Id |-> IF i \in Dropped(p) THEN 0 ELSE stops[i]]
       IN /\ Len(made) + Cardinality(DOMAIN fresh) <= MaxServices
          /\ made' = [n \in 1..(Len(made) + Cardinality(DOMAIN fresh)) |->
                        IF n \in Made THEN made[n]
                        ELSE LET i == CHOOSE i \in DOMAIN fresh : fresh[i] = n
                             IN [id |-> i, path |-> p[i]]]
          /\ services' = next
          /\ cancelled' = cancelled \cup {stops[i] : i \in Dropped(p)}
          /\ IF warm THEN Warmed(next, left) ELSE stops' = left /\ UNCHANGED warming
          /\ UNCHANGED <<warm, embedding, held>>

\* ForPath, ForProfile: a search, a read or an open is handed the service
Hand(i) ==
    /\ services[i] # 0
    /\ held' = held \cup {services[i]}
    /\ UNCHANGED <<made, services, stops, warm, cancelled, warming, embedding>>

Building(n) == \E b \in embedding : b.service = n

\* Service.Warm: gives up if a search already builds, or if its context is done
WarmBuilds(n) ==
    /\ n \in warming
    /\ warming' = warming \ {n}
    /\ embedding' = IF Building(n) \/ n \in cancelled THEN embedding
                    ELSE embedding \cup {[service |-> n, by |-> "warm"]}
    /\ UNCHANGED <<made, services, stops, warm, cancelled, held>>

\* Service.semantic hands a long backlog to a build, under context.Background
SearchBuilds(n) ==
    /\ n \in held
    /\ held' = held \ {n}
    /\ embedding' = IF Building(n) THEN embedding
                    ELSE embedding \cup {[service |-> n, by |-> "search"]}
    /\ UNCHANGED <<made, services, stops, warm, cancelled, warming>>

BuildEnds(b) ==
    /\ b \in embedding /\ embedding' = embedding \ {b}
    /\ UNCHANGED <<made, services, stops, warm, cancelled, warming, held>>

Next ==
    \/ Warm
    \/ \E p \in [Id -> Path \cup {NoRoot}] : Configure(p)
    \/ \E i \in Id : Hand(i)
    \/ \E n \in Made : WarmBuilds(n) \/ SearchBuilds(n)
    \/ \E b \in embedding : BuildEnds(b)

Spec == Init /\ [][Next]_vaultSetVars

-----------------------------------------------------------------------------
(* Properties. *)

Current == {services[i] : i \in Id} \ {0}

\* A configured root is warmed under a context that is its own and still good,
\* and every warm context given up belongs to a root that is gone: a
\* reconfiguration neither stops a root it keeps nor leaves one cold.
WarmedIfConfigured ==
    /\ warm => \A i \in Id : stops[i] = services[i]
    /\ cancelled \cap Current = {}

\* set.go: "cancels the build of every root it drops".
DroppedRootsStopBuilding ==
    [][\A b \in embedding :
          b.service \in Current /\ b.service \notin Current' => b.by = "warm"]_vaultSetVars
=============================================================================
