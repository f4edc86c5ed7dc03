------------------------------- MODULE Stamps -------------------------------
(***************************************************************************)
(* The prompts stamped into a session at every launch: prompts/stamp.go.   *)
(* One asset of each sort stands for the rest: a provider's agent file,    *)
(* written beside the user's own, a prompt in the canonical directory, and *)
(* two sites linked into it, a discovery file and a skill.  The launch may *)
(* die between any two calls, and the user edits the tree at any time.     *)
(***************************************************************************)
EXTENDS Naturals

CONSTANTS
    Primary,        \* the mode prompts, one of which the session is launched with
    MaxLaunches, MaxEdits

\* A session is launched with one of the prompts there are.
StampsAssumption == Primary # {} /\ {MaxLaunches, MaxEdits} \subseteq Nat

VARIABLES
    agent,      \* what is at the agent file's path
    canonical,  \* what is at the canonical prompt's path
    link,       \* what is at each link site
    outside,    \* the file a link at an asset's path leads out to
    stamp,      \* where the launch under way is, and its primary prompt
    touched,    \* the sites the user edited since their check began
    ended,      \* how the last launch ended, and with which primary
    launches, edits

stampVars == <<agent, canonical, link, outside, stamp, touched, ended, launches, edits>>

Site == {"discovery", "skill"}

\* Mutant: every mode prompt asks for the discovery file, and the first has it.
TargetOfFirst(site, p) ==
    IF site = "discovery" THEN CHOOSE q \in Primary : TRUE ELSE "skill directory"
\* The target a stamped link has: the primary prompt, or the skill's directory.
Target(site, p) == IF site = "discovery" THEN p ELSE "skill directory"
Stamped == {<<"ours", t>> : t \in Primary \cup {"skill directory"}}

\* What of the user's may stand at a path: a file, a link or a directory of
\* their own, some of it a link qrouton left.
Users == {<<"theirs", "file">>, <<"theirs", "link">>}
UsersDir == <<"theirs", "directory">>
OldTree  == <<"our links", "directory">>     \* what linking skills per file left
Nothing  == <<"nothing", "">>
Marked   == <<"marked", "file">>
Torn     == <<"torn", "file">>               \* emptied, not written
LinkOut  == <<"link", "out of the tree">>

Steps ==
    <<"check agent", "clear agent", "empty agent", "write agent",
      "clear canonical", "empty canonical", "write canonical",
      "check discovery", "remove discovery", "link discovery",
      "check skill", "remove skill", "link skill">>

NotRunning == [step |-> 0, primary |-> CHOOSE p \in Primary : TRUE]

Init ==
    /\ agent = Nothing
    /\ canonical = Nothing
    /\ link = [s \in Site |-> Nothing]
    /\ outside = "theirs"
    /\ stamp = NotRunning
    /\ touched = {}
    /\ ended = [how |-> "never", primary |-> NotRunning.primary]
    /\ launches = 0
    /\ edits = 0

\* ownedByUs: nothing, a link into the canonical directory, or the marker.
ownedByUs(thing) == thing \in {Nothing, Marked} \cup Stamped

\* Mutant: a directory at a link's site is a skill stamped long ago.
stampedTreeAny(thing) == thing \in {OldTree, UsersDir}
\* stampedTree: every file beneath is a link we stamped.
stampedTree(thing) == thing = OldTree

linkSiteOurs(thing) == ownedByUs(thing) \/ stampedTree(thing)

Doing(name) == stamp.step > 0 /\ Steps[stamp.step] = name
NextStep == stamp' = [stamp EXCEPT !.step = @ + 1]
Stop(how) ==
    /\ stamp' = [stamp EXCEPT !.step = 0]
    /\ ended' = [how |-> how, primary |-> stamp.primary]

----------------------------------------------------------------------------

Launch ==
    /\ stamp.step = 0
    /\ launches < MaxLaunches
    /\ launches' = launches + 1
    /\ \E p \in Primary : stamp' = [step |-> 1, primary |-> p]
    /\ ended' = [ended EXCEPT !.how = "running"]
    /\ UNCHANGED <<agent, canonical, link, outside, touched, edits>>

\* Mutant: the file at an agent's path is overwritten whosever it is.
AgentIsOursAlways == stamp.step > 0
\* Existing unmarked files are user-owned and never replaced.
AgentIsOurs == ownedByUs(agent)

\* An asset outside the canonical directory stops the launch when the user's
\* own stands there.
CheckAgent ==
    /\ Doing("check agent")
    /\ touched' = touched \ {"agent"}
    /\ IF AgentIsOurs THEN NextStep /\ UNCHANGED ended ELSE Stop("agent refused")
    /\ UNCHANGED <<agent, canonical, link, outside, launches, edits>>

IsLink(thing) == thing \in Stamped \cup {LinkOut, <<"theirs", "link">>}

\* Mutant: the write goes where a link leads.
ClearedNot(thing) == thing
\* clearSymlink drops a link, so that the write does not follow it.
Cleared(thing) == IF IsLink(thing) THEN Nothing ELSE thing

ClearAgent ==
    /\ Doing("clear agent")
    /\ agent' = Cleared(agent)
    /\ NextStep
    /\ UNCHANGED <<canonical, link, outside, touched, ended, launches, edits>>

\* Writing empties the file first; a link put there since leads out.
EmptyAgent ==
    /\ Doing("empty agent")
    /\ IF agent = <<"theirs", "link">>
       THEN outside' = "overwritten" /\ UNCHANGED agent
       ELSE agent' = Torn /\ UNCHANGED outside
    /\ NextStep
    /\ UNCHANGED <<canonical, link, touched, ended, launches, edits>>

WriteAgent ==
    /\ Doing("write agent")
    /\ agent' = IF agent = Torn THEN Marked ELSE agent
    /\ NextStep
    /\ UNCHANGED <<canonical, link, outside, touched, ended, launches, edits>>

\* Everything under the canonical directory is qrouton's, marker or not.
ClearCanonical ==
    /\ Doing("clear canonical")
    /\ canonical' = Cleared(canonical)
    /\ touched' = touched \ {"canonical"}
    /\ NextStep
    /\ UNCHANGED <<agent, link, outside, ended, launches, edits>>

EmptyCanonical ==
    /\ Doing("empty canonical")
    /\ IF canonical = LinkOut
       THEN outside' = "overwritten" /\ UNCHANGED canonical
       ELSE canonical' = Torn /\ UNCHANGED outside
    /\ NextStep
    /\ UNCHANGED <<agent, link, touched, ended, launches, edits>>

WriteCanonical ==
    /\ Doing("write canonical")
    /\ canonical' = IF canonical = Torn THEN Marked ELSE canonical
    /\ NextStep
    /\ UNCHANGED <<agent, link, outside, touched, ended, launches, edits>>

CheckLink(s) ==
    /\ Doing(IF s = "discovery" THEN "check discovery" ELSE "check skill")
    /\ touched' = touched \ {s}
    /\ IF linkSiteOurs(link[s]) THEN NextStep /\ UNCHANGED ended ELSE Stop("link refused")
    /\ UNCHANGED <<agent, canonical, link, outside, launches, edits>>

\* What is at the site goes, whatever it links to.
RemoveLink(s) ==
    /\ Doing(IF s = "discovery" THEN "remove discovery" ELSE "remove skill")
    /\ link' = [link EXCEPT ![s] = Nothing]
    /\ NextStep
    /\ UNCHANGED <<agent, canonical, outside, touched, ended, launches, edits>>

\* A link cannot be made where something stands.
MakeLink(s) ==
    /\ Doing(IF s = "discovery" THEN "link discovery" ELSE "link skill")
    /\ link' = [link EXCEPT ![s] = IF @ = Nothing THEN <<"ours", Target(s, stamp.primary)>> ELSE @]
    /\ IF link[s] = Nothing
       THEN IF s = "skill" THEN Stop("stamped") ELSE NextStep /\ UNCHANGED ended
       ELSE Stop("link failed")
    /\ UNCHANGED <<agent, canonical, outside, touched, launches, edits>>

Crash ==
    /\ stamp.step > 0
    /\ Stop("crashed")
    /\ UNCHANGED <<agent, canonical, link, outside, touched, launches, edits>>

----------------------------------------------------------------------------
(* The user, and the qroutons that came before.                             *)

Edit(site) ==
    /\ edits < MaxEdits
    /\ edits' = edits + 1
    /\ touched' = touched \cup {site}
    /\ UNCHANGED <<outside, stamp, ended, launches>>

UserAtAgent ==
    /\ Edit("agent")
    /\ agent' \in (Users \cup {Nothing}) \ {agent}
    /\ UNCHANGED <<canonical, link>>

UserAtCanonical ==
    /\ Edit("canonical")
    /\ canonical' = LinkOut
    /\ UNCHANGED <<agent, link>>

UserAtLink(s) ==
    /\ Edit(s)
    /\ \E thing \in (Users \cup {Nothing, UsersDir, OldTree}) \ {link[s]} :
          link' = [link EXCEPT ![s] = thing]
    /\ UNCHANGED <<agent, canonical>>

StampStep ==
    \/ Launch \/ CheckAgent \/ ClearAgent \/ EmptyAgent \/ WriteAgent
    \/ ClearCanonical \/ EmptyCanonical \/ WriteCanonical
    \/ \E s \in Site : CheckLink(s) \/ RemoveLink(s) \/ MakeLink(s)
    \/ Crash

Next == StampStep \/ UserAtAgent \/ UserAtCanonical \/ \E s \in Site : UserAtLink(s)

StampsSpec == Init /\ [][Next]_stampVars

----------------------------------------------------------------------------

Thing == Users \cup Stamped \cup {UsersDir, OldTree, Nothing, Marked, Torn, LinkOut}

\* The variables hold what the paths of the session can.
StampsTypeOK ==
    /\ agent \in Thing /\ canonical \in Thing /\ link \in [Site -> Thing]
    /\ outside \in {"theirs", "overwritten"}
    /\ stamp \in [step : 0 .. 13, primary : Primary]
    /\ touched \subseteq {"agent", "canonical"} \cup Site

IsTheirs(thing) == thing \in Users \cup {UsersDir}

\* A launch never removes, replaces or writes through what the user put at a
\* path before the launch judged it, whichever of its steps it dies between.
LeavesTheUsers ==
    edits' = edits =>
      /\ IsTheirs(agent) /\ "agent" \notin touched => agent' = agent
      /\ \A s \in Site : IsTheirs(link[s]) /\ s \notin touched => link'[s] = link[s]
      /\ outside' # outside => touched \cap {"agent", "canonical"} # {}

UsersOwnStands == [][LeavesTheUsers]_stampVars

\* After a launch that stamped, and until the user edits them or the next one
\* starts, the runner finds the prompt the session was launched with, and the
\* skill, whatever an earlier launch left half done.
RunnerFindsItsPrompt ==
    ended.how = "stamped" =>
        /\ "agent" \notin touched => agent = Marked
        /\ "canonical" \notin touched => canonical = Marked
        /\ "discovery" \notin touched => link["discovery"] = <<"ours", ended.primary>>
        /\ "skill" \notin touched => link["skill"] = <<"ours", "skill directory">>

\* ErrUserOwnedAsset: a launch is refused over what the user put at a path, and
\* over nothing qrouton stamped itself but the agent's file of a launch that
\* died while it wrote it, which has no mark yet.
RefusesTheUsers ==
    ended' # ended =>
      /\ ended'.how = "agent refused" => IsTheirs(agent) \/ agent = Torn
      /\ ended'.how = "link refused" => \E s \in Site : IsTheirs(link[s])
=============================================================================
