------------------------------ MODULE Documents ------------------------------
(* One document tab over a file others write (desktop/documents.go,           *)
(* answers.go): the poll that keeps it current and the answers its page saves. *)
(* Every operation of the workbench holds the registry's mutex from its first  *)
(* step to its last; those who write the file obey nobody.  Each write has a   *)
(* time of its own.                                                            *)
EXTENDS Naturals

CONSTANTS
    Text,       \* what the file may hold
    SizeOf,     \* the length of each text
    Limit,      \* DocumentLimit: what is longer is no document
    NoPush,     \* no text
    MaxWrites,  \* bound: writes of the file
    MaxTurns    \* bound: times the file goes out of reach or comes back

SizeAssumption ==
    /\ SizeOf \in [Text -> Nat] /\ Limit \in Nat /\ NoPush \notin Text
    /\ MaxWrites \in Nat /\ MaxTurns \in Nat

VARIABLES
    file,       \* the file: what it holds and when it was written
    tabText,    \* opts.Content
    tabRead,    \* content.read: the stat the tab was last read at, 0 for unseen
    docLock,    \* the operation that holds the registry's mutex
    job,        \* where that operation is, and what it has read
    pageText,   \* the text whose hash the page saves with
    push,       \* what the poll read and has not sent, a text or NoPush
    lost,       \* writes of others that a save replaced unread
    reach,      \* whether the file can be read, only be looked at, or is gone or a directory
    turns       \* bound counter

docVars == <<file, tabText, tabRead, docLock, job, pageText, push, lost, reach, turns>>

Stat == [at |-> file.at, size |-> SizeOf[file.text]]
Unseen == [at |-> 0, size |-> 0]
NoJob == [text |-> file.text, at |-> file.at, stat |-> Unseen, new |-> file.text, hash |-> pageText]

Reaches == {"readable", "unreadable", "gone"}

\* A file that is written anew can be read, unless it keeps the mode it had.
Write(text) ==
    /\ file' = [text |-> text, at |-> file.at + 1]
    /\ reach' \in {"readable", reach} \ {"gone"}

Init ==
    /\ \E t \in Text :
        /\ SizeOf[t] <= Limit          \* a longer file opens in no tab
        /\ file = [text |-> t, at |-> 1]
        /\ tabText = t
        /\ pageText = t
        /\ job = [text |-> t, at |-> 1, stat |-> Unseen, new |-> t, hash |-> t]
    /\ tabRead = Unseen
    /\ docLock = "open"
    /\ push = NoPush
    /\ lost = {}
    /\ reach = "readable" /\ turns = 0

-----------------------------------------------------------------------------
(* An editor or an agent writes the file, at any point of any operation.       *)
Edit ==
    /\ file.at < MaxWrites
    /\ \E t \in Text \ {file.text} : Write(t)
    /\ UNCHANGED <<tabText, tabRead, docLock, job, pageText, push, lost, turns>>

(* The file is moved away, a directory takes its place or its mode forbids a    *)
(* read; or it is put back as it was.                                           *)
Turn ==
    /\ turns < MaxTurns /\ turns' = turns + 1
    /\ reach' \in Reaches \ {reach}
    /\ UNCHANGED <<file, tabText, tabRead, docLock, job, pageText, push, lost>>

(* Mutant: a stat is recorded whatever was read before it.                     *)
RecordedAlways(text) == Stat

(* A stat whose size matches a text read before it is taken as that text's.    *)
Recorded(text) == IF reach # "gone" /\ Stat.size = SizeOf[text] THEN Stat ELSE tabRead

(* The text came from a read before the tab was opened; the stat comes now     *)
(* (beginDocument).                                                            *)
BeginDocument ==
    /\ docLock = "open"
    /\ tabRead' = Recorded(tabText)
    /\ docLock' = "free"
    /\ UNCHANGED <<file, tabText, job, pageText, push, lost, reach, turns>>

(* Mutant: the length alone says whether the file changed.                     *)
RescanBySize ==
    /\ docLock = "free" /\ push = NoPush
    /\ reach # "gone" /\ Stat.size <= Limit
    /\ Stat.size # tabRead.size
    /\ docLock' = "rescan"
    /\ job' = [NoJob EXCEPT !.stat = Stat]
    /\ UNCHANGED <<file, tabText, tabRead, pageText, push, lost, reach, turns>>

(* rescan, once a second: a stat, and a read of a file the stat says changed.   *)
(* One that is gone, or a document no longer, leaves the tab as it is, ...      *)
RescanStat ==
    /\ docLock = "free" /\ push = NoPush
    /\ reach # "gone" /\ Stat.size <= Limit
    /\ Stat # tabRead
    /\ docLock' = "rescan"
    /\ job' = [NoJob EXCEPT !.stat = Stat]
    /\ UNCHANGED <<file, tabText, tabRead, pageText, push, lost, reach, turns>>

(* ... and so does one that cannot be read.                                     *)
RescanRead ==
    /\ docLock = "rescan"
    /\ docLock' = "free"
    /\ \/ /\ reach = "readable"
          /\ tabText' = file.text
          /\ tabRead' = job.stat
          /\ push' = file.text
       \/ reach # "readable" /\ UNCHANGED <<tabText, tabRead, push>>
    /\ UNCHANGED <<file, job, pageText, lost, reach, turns>>

(* The poll sends what it read once it has let the mutex go, whatever the page  *)
(* fetched or saved meanwhile.                                                  *)
Push ==
    /\ push # NoPush
    /\ pageText' = push
    /\ push' = NoPush
    /\ UNCHANGED <<file, tabText, tabRead, docLock, job, lost, reach, turns>>

-----------------------------------------------------------------------------
(* SaveAnswers: it reads the file ...                                          *)
SaveRead ==
    /\ docLock = "free"
    /\ reach = "readable"
    /\ \E t \in Text : job' = [NoJob EXCEPT !.new = t]
    /\ docLock' = "save"
    /\ UNCHANGED <<file, tabText, tabRead, pageText, push, lost, reach, turns>>

(* ... and refuses when that is not what the page saves over, keeping what it   *)
(* read for the page to fetch.                                                  *)
SaveRefused ==
    /\ docLock = "save"
    /\ reach # "gone"
    /\ job.text # job.hash
    /\ tabText' = job.text
    /\ tabRead' = Recorded(job.text)
    /\ docLock' = "free"
    /\ UNCHANGED <<file, job, pageText, push, lost, reach, turns>>

(* Mutant: the page's text is not compared with the file's.                     *)
SaveOverwrites ==
    /\ docLock = "save"
    /\ file.at <= MaxWrites
    /\ Write(job.new)
    /\ lost' = IF reach # "gone" /\ file.text # job.hash THEN lost \cup {file.at} ELSE lost
    /\ docLock' = "saved"
    /\ UNCHANGED <<tabText, tabRead, job, pageText, push, turns>>

(* Otherwise it replaces the file, whatever was written since the read, and     *)
(* makes one that has gone since, ...                                           *)
SaveReplaces ==
    /\ docLock = "save"
    /\ job.text = job.hash
    /\ file.at <= MaxWrites
    /\ Write(job.new)
    /\ lost' = IF reach # "gone" /\ file.text # job.hash THEN lost \cup {file.at} ELSE lost
    /\ docLock' = "saved"
    /\ UNCHANGED <<tabText, tabRead, job, pageText, push, turns>>

(* A file that cannot be looked at, or replaced, is left as it is.              *)
SaveFails ==
    /\ docLock = "save"
    /\ docLock' = "free"
    /\ UNCHANGED <<file, tabText, tabRead, job, pageText, push, lost, reach, turns>>

(* ... and takes the stat of what it wrote.                                     *)
SaveRecords ==
    /\ docLock = "saved"
    /\ tabText' = job.new
    /\ tabRead' = Recorded(job.new)
    /\ pageText' = job.new
    /\ docLock' = "free"
    /\ UNCHANGED <<file, job, push, lost, reach, turns>>

-----------------------------------------------------------------------------
(* content: a load of the page fetches what the tab holds.                      *)
Load ==
    /\ docLock = "free"
    /\ pageText # tabText
    /\ pageText' = tabText
    /\ UNCHANGED <<file, tabText, tabRead, docLock, job, push, lost, reach, turns>>

-----------------------------------------------------------------------------

Next ==
    \/ Edit \/ Turn \/ BeginDocument \/ RescanStat \/ RescanRead \/ Push \/ Load
    \/ SaveRead \/ SaveRefused \/ SaveFails \/ SaveReplaces \/ SaveRecords

SaveEnds == SaveFails \/ SaveRefused \/ SaveReplaces

(* The poll ticks on for as long as the workbench runs, an operation that has   *)
(* begun ends, and who waits for the mutex again and again gets it.             *)
FairPoll == /\ SF_docVars(RescanStat) /\ WF_docVars(RescanRead) /\ WF_docVars(Push)
            /\ WF_docVars(BeginDocument) /\ WF_docVars(SaveRecords)
            /\ WF_docVars(SaveEnds)

Spec == Init /\ [][Next]_docVars
FairSpec == Spec /\ FairPoll

-----------------------------------------------------------------------------
DocTypeOK ==
    /\ file \in [text : Text, at : 1..(MaxWrites + 1)]
    /\ tabText \in Text /\ pageText \in Text
    /\ tabRead \in [at : 0..(MaxWrites + 1), size : {SizeOf[t] : t \in Text} \cup {0}]
    /\ docLock \in {"open", "free", "rescan", "save", "saved"}
    /\ push \in Text \cup {NoPush} /\ lost \subseteq 1..MaxWrites
    /\ reach \in Reaches /\ turns \in 0..MaxTurns

(* A save replaces only what its page had in hand: a write it loses came       *)
(* between its own read of the file and the replacement.                       *)
LosesInTheWindow == \A at \in lost' \ lost : at > job.at

LossIsInTheWindow == [][LosesInTheWindow]_docVars

(* Once the file is left alone, a document that can be read comes to be shown  *)
(* in a text of its length, whoever wrote between a read and the stat recorded *)
(* for it; one that cannot, or that grew past the limit, leaves the tab on the *)
(* text it had.                                                                *)
Shown    == reach = "readable" /\ SizeOf[file.text] <= Limit
CaughtUp == Shown => SizeOf[tabText] = SizeOf[file.text]
TabCatchesUp == <>[]CaughtUp
=============================================================================
