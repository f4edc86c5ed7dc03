---------------------------- MODULE SessionSlots ----------------------------
(***************************************************************************)
(* What the session registry promises of a session's supervisor, without   *)
(* the registry: each session directory is a slot that one supervisor      *)
(* holds at a time.  A slot changes hands only through being free, and a    *)
(* supervisor that has given its slot up never holds one again.             *)
(***************************************************************************)
CONSTANTS Slug, Term, Free, Foreign

VARIABLES
    owner,    \* who holds each slot: Free, a supervisor, or one left behind
    spent     \* the supervisors that have given a slot up

Init ==
    /\ owner \in [Slug -> {Free, Foreign}]
    /\ spent = {}

Take(s, t) ==
    /\ owner[s] = Free /\ t \notin spent
    /\ \A r \in Slug : owner[r] # t
    /\ owner' = [owner EXCEPT ![s] = t]
    /\ UNCHANGED spent

Release(s) ==
    /\ owner[s] # Free
    /\ owner' = [owner EXCEPT ![s] = Free]
    /\ spent' = spent \cup ({owner[s]} \ {Foreign})

Next == \E s \in Slug : Release(s) \/ \E t \in Term : Take(s, t)

Spec == Init /\ [][Next]_<<owner, spent>>
=============================================================================
