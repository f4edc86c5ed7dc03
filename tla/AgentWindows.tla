----------------------------- MODULE AgentWindows -----------------------------
(* The names an agent gives its windows (mcpserver/windows.go).  The manager   *)
(* maps a name to the workbench's own id, under a mutex it never holds over a  *)
(* round trip to the workbench; opens of one name race, the user closes tabs,  *)
(* and the workbench's answer can be lost.                                     *)
EXTENDS Naturals

CONSTANTS
    Name,       \* what agents call windows
    ToolCall,   \* calls of the window tools at a time
    MaxClaims   \* bound: opens

AgentWindowsAssumption == Name # {} /\ MaxClaims \in Nat

VARIABLES
    names,      \* windowManager.windows: a window id, 0 for an open in flight, and its claim
    claims,     \* windowManager.claims
    hosted,     \* the windows the workbench has open; each named by the claim that opened it
    unheard,    \* windows whose opening or closing was not answered
    tool        \* what each call is at

nameVars == <<names, claims, hosted, unheard, tool>>

Claim == 1..MaxClaims
NoEntry == [id |-> 0, claim |-> 0]      \* what Go's map gives for a missing name
Resting == [at |-> "rest", name |-> CHOOSE n \in Name : TRUE, claim |-> 0, id |-> 0, live |-> {}, asked |-> {}]

Is(t, step) == tool[t].at = step
Set(n, entry) == names' = [names EXCEPT ![n] = entry]
Step(t, to) == tool' = [tool EXCEPT ![t] = to]
Done(t) == Step(t, Resting)

Init ==
    /\ names = [n \in Name |-> NoEntry]
    /\ claims = 0
    /\ hosted = {}
    /\ unheard = {}
    /\ tool = [t \in ToolCall |-> Resting]

-----------------------------------------------------------------------------
(* claim: the name is this open's from here on; what it showed is displaced.   *)
ClaimName(t, n) ==
    /\ Is(t, "rest")
    /\ claims < MaxClaims
    /\ claims' = claims + 1
    /\ Set(n, [id |-> 0, claim |-> claims + 1])
    /\ Step(t, [Resting EXCEPT !.at = IF names[n].id = 0 THEN "open" ELSE "replace",
                               !.name = n, !.claim = claims + 1, !.id = names[n].id])
    /\ UNCHANGED <<hosted, unheard>>

(* host.Close, whose error nobody looks at.                                    *)
HostClose(t, step) ==
    /\ \/ /\ hosted' = hosted \ {tool[t].id}
          /\ UNCHANGED unheard
       \/ /\ unheard' = unheard \cup {tool[t].id}
          /\ UNCHANGED hosted
    /\ IF step = "rest" THEN Done(t) ELSE Step(t, [tool[t] EXCEPT !.at = step])
    /\ UNCHANGED <<names, claims>>

CloseReplaced(t) == Is(t, "replace") /\ HostClose(t, "open")
CloseLoser(t) == Is(t, "loser") /\ HostClose(t, "rest")
CloseNamed(t) == Is(t, "close") /\ HostClose(t, "rest")

(* host.Open answers with the window ...                                       *)
HostOpens(t) ==
    /\ Is(t, "open")
    /\ hosted' = hosted \cup {tool[t].claim}
    /\ Step(t, [tool[t] EXCEPT !.at = "commit"])
    /\ UNCHANGED <<names, claims, unheard>>

(* ... or fails, or opens it and its answer is lost.                           *)
HostOpenFails(t) ==
    /\ Is(t, "open")
    /\ \/ UNCHANGED <<hosted, unheard>>
       \/ /\ hosted' = hosted \cup {tool[t].claim}
          /\ unheard' = unheard \cup {tool[t].claim}
    /\ Step(t, [tool[t] EXCEPT !.at = "release"])
    /\ UNCHANGED <<names, claims>>

(* release: the claim is given up unless a later one has the name.             *)
Release(t) ==
    /\ Is(t, "release")
    /\ IF names[tool[t].name].claim = tool[t].claim THEN Set(tool[t].name, NoEntry) ELSE UNCHANGED names
    /\ Done(t)
    /\ UNCHANGED <<claims, hosted, unheard>>

(* commit: the window is registered if the name is still this claim's, and     *)
(* otherwise closed.                                                           *)
Commit(t) ==
    LET n == tool[t].name
        mine == names[n].claim = tool[t].claim
    IN  /\ Is(t, "commit")
        /\ IF mine
           THEN Set(n, [id |-> tool[t].claim, claim |-> tool[t].claim]) /\ Done(t)
           ELSE Step(t, [tool[t] EXCEPT !.at = "loser", !.id = tool[t].claim]) /\ UNCHANGED names
        /\ UNCHANGED <<claims, hosted, unheard>>

-----------------------------------------------------------------------------
(* liveWindow, before a read, a focus or a close of a name: the entry is read, *)
(* the workbench asked, and the entry forgotten if the window is gone.  An     *)
(* answer that is lost leaves the entry.                                       *)
LookUp(t, n) ==
    /\ Is(t, "rest")
    /\ names[n].id # 0
    /\ Step(t, [Resting EXCEPT !.at = "ask", !.name = n, !.id = names[n].id])
    /\ UNCHANGED <<names, claims, hosted, unheard>>

HostExists(t) ==
    /\ Is(t, "ask")
    /\ \/ tool[t].id \notin hosted /\ Step(t, [tool[t] EXCEPT !.at = "forget"])
       \/ Done(t)
       \/ Step(t, [tool[t] EXCEPT !.at = "forgetclose"])
    /\ UNCHANGED <<names, claims, hosted, unheard>>

(* forget: only the entry that was asked about.                                *)
Forget(t) ==
    /\ tool[t].at \in {"forget", "forgetclose"}
    /\ IF names[tool[t].name].id = tool[t].id THEN Set(tool[t].name, NoEntry) ELSE UNCHANGED names
    /\ IF Is(t, "forget") THEN Done(t) ELSE Step(t, [tool[t] EXCEPT !.at = "close"])
    /\ UNCHANGED <<claims, hosted, unheard>>

-----------------------------------------------------------------------------
(* list: the ids asked about, the workbench's list, and the pruning of entries *)
(* it did not name although they were asked about.                             *)
ListAsked(t) ==
    /\ Is(t, "rest")
    /\ Step(t, [Resting EXCEPT !.at = "list", !.asked = {names[n].id : n \in Name}])
    /\ UNCHANGED <<names, claims, hosted, unheard>>

HostLists(t) ==
    /\ Is(t, "list")
    /\ Step(t, [tool[t] EXCEPT !.at = "prune", !.live = hosted])
    /\ UNCHANGED <<names, claims, hosted, unheard>>

HostListFails(t) ==
    /\ Is(t, "list")
    /\ Done(t)
    /\ UNCHANGED <<names, claims, hosted, unheard>>

(* Mutant: what the workbench did not name is pruned, asked about or not.      *)
StaysIfListed(t, id) == id = 0 \/ id \in tool[t].live
Stays(t, id) == id = 0 \/ id \in tool[t].live \/ id \notin tool[t].asked

Prune(t) ==
    /\ Is(t, "prune")
    /\ names' = [n \in Name |-> IF Stays(t, names[n].id) THEN names[n] ELSE NoEntry]
    /\ Done(t)
    /\ UNCHANGED <<claims, hosted, unheard>>

-----------------------------------------------------------------------------
(* The user closes a tab, or its command ends.                                 *)
ClosedOutside(id) ==
    /\ id \in hosted
    /\ hosted' = hosted \ {id}
    /\ UNCHANGED <<names, claims, unheard, tool>>

Next ==
    \/ \E t \in ToolCall :
        \/ CloseReplaced(t) \/ CloseLoser(t) \/ CloseNamed(t) \/ HostOpens(t) \/ HostOpenFails(t)
        \/ Release(t) \/ Commit(t) \/ HostExists(t) \/ Forget(t)
        \/ ListAsked(t) \/ HostLists(t) \/ HostListFails(t) \/ Prune(t)
        \/ \E n \in Name : ClaimName(t, n) \/ LookUp(t, n)
    \/ \E id \in hosted : ClosedOutside(id)

Spec == Init /\ [][Next]_nameVars

-----------------------------------------------------------------------------
NamesTypeOK ==
    /\ names \in [Name -> [id : {0} \cup Claim, claim : {0} \cup Claim]]
    /\ claims \in 0..MaxClaims /\ hosted \subseteq Claim /\ unheard \subseteq Claim
    /\ \A t \in ToolCall : tool[t].name \in Name /\ tool[t].asked \subseteq 0..MaxClaims

(* No window is left behind: one the workbench shows is under a name, in the   *)
(* hands of a call that registers or closes it, or one whose answer was lost.  *)
(* And opens racing on one name resolve to the latest: no name is an earlier   *)
(* open's while a later one is still on its way.                               *)
Known(id) ==
    \/ \E n \in Name : names[n].id = id
    \/ \E t \in ToolCall : \/ Is(t, "commit") /\ tool[t].claim = id
                           \/ tool[t].at \in {"replace", "loser", "close"} /\ tool[t].id = id
    \/ id \in unheard
NoWindowLeftBehind == \A id \in hosted : Known(id)

LaterClaimWins ==
    \A t \in ToolCall : tool[t].at \in {"replace", "open", "commit"} =>
        LET held == names[tool[t].name].claim IN held = 0 \/ held >= tool[t].claim

WindowNamesAreFaithful == NoWindowLeftBehind /\ LaterClaimWins
=============================================================================
