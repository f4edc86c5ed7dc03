------------------------------ MODULE Placement ------------------------------
(***************************************************************************)
(* Where a session keeps its thoughts, and moving them (placement.go).       *)
(*                                                                         *)
(* A session's thoughts are a folder of its name in one of the configured     *)
(* roots, which a link in the session's directory points at and the manifest   *)
(* records.  A move marks the folder, renames it, swaps the link and records    *)
(* it.  It may crash or fail after any of these; a later scan finishes it.      *)
(* The roots may be synced with other machines, which deliver folders of the    *)
(* same name, or be on a volume that is not mounted.                           *)
(*                                                                         *)
(* One session: each is inspected and moved on its own, under Placement.op.      *)
(***************************************************************************)
EXTENDS Naturals

CONSTANTS
    Root,        \* thoughts roots a config may name
    Far,         \* those of them on another device than the rest
    MaxFailures  \* bound: crashes and failed steps

RootsAssumption == Far \subseteq Root
FailuresAssumption == MaxFailures \in Nat

VARIABLES
    cfg,        \* the roots configured, and the one the session's repositories route to
    away,       \* roots whose directory is not there
    folder,     \* the folder of the session's name in each root: its own, or another's
    mark,       \* the move marker in it
    link,       \* the root whose folder the session's link points at
    recorded,   \* the root its manifest names
    op,         \* the scan or move under way, from its snapshot of the config
    failures    \* crashes and failed steps so far

disk == <<folder, mark, link, recorded>>
env  == <<cfg, away>>
vars == <<cfg, away, folder, mark, link, recorded, op, failures>>

\* No marker, or another session's; this session's; one that is not a regular file.
Marks   == {"none", "ours", "unsafe"}
Configs == {c \in [roots : SUBSET Root, routed : Root] : c.routed \in c.roots}

\* The session's documents are in one place.
Home(r) == folder[r] = "own"

TypeOK ==
    /\ cfg \in Configs /\ away \subseteq Root
    /\ folder \in [Root -> {"none", "own", "other"}] /\ mark \in [Root -> Marks]
    /\ link \in Root /\ recorded \in Root
    /\ op \in [pc : {"idle", "mark", "rename", "swap", "record", "unmark"}, from : Root, to : Root]
    /\ failures \in Nat
    /\ \A r \in Root, s \in Root : Home(r) /\ Home(s) => r = s
    /\ \E r \in Root : Home(r)

\* A session that was created in a root, beside folders others left there.
Init ==
    /\ cfg \in Configs /\ away = {}
    /\ link \in Root /\ recorded = link
    /\ folder \in [Root -> {"none", "own", "other"}]
    /\ \A r \in Root : Home(r) <=> r = link
    /\ mark \in [Root -> Marks \ {"ours"}]
    /\ \A r \in Root : folder[r] = "none" => mark[r] = "none"
    /\ op = [pc |-> "idle", from |-> link, to |-> link]
    /\ failures = 0

-----------------------------------------------------------------------------
(* What inspect makes of the session.                                        *)

There(r) == r \notin away /\ folder[r] # "none"

Placed == link = cfg.routed /\ There(link)

\* Mutant: any folder of that name will do.
ReachedUnmarked == {r \in cfg.roots : There(r)}

\* Mutant: only where the session routes to now.
ReachedRouted == {r \in {cfg.routed} : There(r) /\ mark[r] = "ours"}

\* markedDestination: where an interrupted move of this session got to.
Reached == {r \in cfg.roots : There(r) /\ mark[r] = "ours"}

\* A move would be refused over a folder, to a root that is missing or on another
\* device.  Under a running agent too: the user's Move is a choice.
Movable ==
    /\ link \in cfg.roots /\ There(link) /\ mark[link] # "unsafe"
    /\ ~There(cfg.routed) /\ cfg.routed \notin away
    /\ link \in Far <=> cfg.routed \in Far

Goes(pc, from, to) == op' = [pc |-> pc, from |-> from, to |-> to]

\* Placed already, but a move that got that far was not recorded or still has its marker.
ScanPlaced ==
    /\ op.pc = "idle" /\ Placed
    /\ recorded # link \/ mark[link] = "ours"
    /\ Goes("record", link, link)
    /\ UNCHANGED <<disk, env, failures>>

\* The folder has gone from where the link points.
ScanStranded ==
    /\ op.pc = "idle" /\ link \in cfg.roots /\ ~There(link)
    /\ \E r \in Reached : Goes("swap", link, r)
    /\ UNCHANGED <<disk, env, failures>>

\* clearStaleMarker: misplaced or skipped, with the marker of a move that never renamed.
ScanClears ==
    /\ op.pc = "idle" /\ ~Placed
    /\ link \in cfg.roots /\ There(link) /\ mark[link] = "ours"
    /\ mark' = [mark EXCEPT ![link] = "none"]
    /\ UNCHANGED <<folder, link, recorded, env, op, failures>>

\* The user asks for it.
Move ==
    /\ op.pc = "idle" /\ ~Placed /\ Movable
    /\ Goes("mark", link, cfg.routed)
    /\ UNCHANGED <<disk, env, failures>>

-----------------------------------------------------------------------------
(* The steps of a move.                                                      *)

\* Mutant: the folder is renamed unmarked.
WriteMarkNot ==
    /\ op.pc = "mark" /\ There(op.from) /\ mark[op.from] # "unsafe"
    /\ op' = [op EXCEPT !.pc = "rename"]
    /\ UNCHANGED <<disk, env, failures>>

WriteMark ==
    /\ op.pc = "mark" /\ There(op.from) /\ mark[op.from] # "unsafe"
    /\ mark' = [mark EXCEPT ![op.from] = "ours"]
    /\ op' = [op EXCEPT !.pc = "rename"]
    /\ UNCHANGED <<folder, link, recorded, env, failures>>

\* Mutant: the folder is copied.
RenameCopies ==
    /\ op.pc = "rename" /\ There(op.from) /\ ~There(op.to) /\ op.to \notin away
    /\ folder' = [folder EXCEPT ![op.to] = folder[op.from]]
    /\ mark' = [mark EXCEPT ![op.to] = mark[op.from]]
    /\ op' = [op EXCEPT !.pc = "swap"]
    /\ UNCHANGED <<link, recorded, env, failures>>

\* A folder that was delivered there meanwhile is not replaced: the rename fails.
Rename ==
    /\ op.pc = "rename" /\ There(op.from) /\ ~There(op.to) /\ op.to \notin away
    /\ folder' = [folder EXCEPT ![op.to] = folder[op.from], ![op.from] = "none"]
    /\ mark' = [mark EXCEPT ![op.to] = mark[op.from], ![op.from] = "none"]
    /\ op' = [op EXCEPT !.pc = "swap"]
    /\ UNCHANGED <<link, recorded, env, failures>>

Swap ==
    /\ op.pc = "swap"
    /\ link' = op.to
    /\ op' = [op EXCEPT !.pc = "record"]
    /\ UNCHANGED <<folder, mark, recorded, env, failures>>

Record ==
    /\ op.pc = "record"
    /\ recorded' = op.to
    /\ op' = [op EXCEPT !.pc = "unmark"]
    /\ UNCHANGED <<folder, mark, link, env, failures>>

\* Whatever regular file has the marker's name; none at all is no failure.
Unmark ==
    /\ op.pc = "unmark"
    /\ mark' = IF There(op.to) /\ mark[op.to] # "unsafe" THEN [mark EXCEPT ![op.to] = "none"] ELSE mark
    /\ op' = [op EXCEPT !.pc = "idle"]
    /\ UNCHANGED <<folder, link, recorded, env, failures>>

Step == WriteMark \/ Rename \/ Swap \/ Record \/ Unmark
Scan == ScanPlaced \/ ScanStranded \/ ScanClears

\* A step that fails, or the end of the workbench between two.  The marker that was
\* there is removed before this session's is written.
Abandon ==
    /\ op.pc # "idle" /\ failures < MaxFailures
    /\ failures' = failures + 1
    /\ op' = [op EXCEPT !.pc = "idle"]
    /\ \/ UNCHANGED mark
       \/ /\ op.pc = "mark" /\ There(op.from) /\ mark[op.from] # "unsafe"
          /\ mark' = [mark EXCEPT ![op.from] = "none"]
    /\ UNCHANGED <<folder, link, recorded, env>>

\* A step that cannot be taken fails.
Refused ==
    /\ \/ op.pc = "mark" /\ ~(There(op.from) /\ mark[op.from] # "unsafe")
       \/ op.pc = "rename" /\ ~(There(op.from) /\ ~There(op.to) /\ op.to \notin away)
    /\ op' = [op EXCEPT !.pc = "idle"]
    /\ UNCHANGED <<disk, env, failures>>

-----------------------------------------------------------------------------
(* What happens around it.                                                   *)

\* Repositories join the session, or the config is edited: a root more or less, or another
\* to route to.  An edit of several is as many of these in a row.
Reroute ==
    /\ \E r \in Root :
          cfg' \in {[cfg EXCEPT !.routed = r], [cfg EXCEPT !.roots = @ \cup {r}],
                     [cfg EXCEPT !.roots = @ \ {r}]} \cap (Configs \ {cfg})
    /\ UNCHANGED <<away, disk, op, failures>>

\* A volume is mounted, or not.
Mounts(r) ==
    /\ away' = IF r \in away THEN away \ {r} ELSE away \cup {r}
    /\ UNCHANGED <<cfg, disk, op, failures>>

\* A folder of the session's name, from another machine.  Not where the link points:
\* such a folder the session would take for its own.
Delivered(r) ==
    /\ r \notin away /\ folder[r] = "none" /\ r # link
    /\ folder' = [folder EXCEPT ![r] = "other"]
    /\ \E m \in Marks \ {"ours"} : mark' = [mark EXCEPT ![r] = m]
    /\ UNCHANGED <<link, recorded, env, op, failures>>

Withdrawn(r) ==
    /\ r \notin away /\ folder[r] = "other"
    /\ folder' = [folder EXCEPT ![r] = "none"]
    /\ mark' = [mark EXCEPT ![r] = "none"]
    /\ UNCHANGED <<link, recorded, env, op, failures>>

Next ==
    \/ Scan \/ Move \/ Step \/ Abandon \/ Refused
    \/ Reroute
    \/ \E r \in Root : Mounts(r) \/ Delivered(r) \/ Withdrawn(r)

Spec == Init /\ [][Next]_vars

\* A step once begun goes on, and every launch of a workbench scans.
FairSpec == Spec /\ WF_vars(Step \/ Refused) /\ WF_vars(Scan)

-----------------------------------------------------------------------------
(* What a move promises.                                                     *)

\* Wherever a move stopped, the session's documents are where its link points, or
\* carry the marker a scan finds them by.
NeverLost == \A r \in Root : Home(r) => link = r \/ mark[r] = "ours"

\* The session is never linked to a folder that is not its own.
NeverAdopts == folder[link] # "other"

\* A move that stopped is finished, and leaves no marker, by the scans of later
\* launches once the roots stay configured and mounted and the user asks for no more
\* moves, wherever the session routes to by then.
RootsAreUp == cfg.roots = Root /\ away = {}
Finished   == \A r \in Root : Home(r) => link = r /\ mark[r] # "ours"

MovesAreFinished == <>[]RootsAreUp /\ <>[][~Move]_vars => <>[]Finished
=============================================================================
