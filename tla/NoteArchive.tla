----------------------------- MODULE NoteArchive ----------------------------
(***************************************************************************)
(* The archiving of notes into a cloud drive (note-archive.service.ts).    *)
(* A job copies each of its candidate notes, one file for each kind of     *)
(* text, into the folder of the note's owner, and writes a record for the  *)
(* pair of note and job.  One run of a job at a time, but the runs of      *)
(* different jobs overlap, and all share the caches of one service         *)
(* object.  Each awaited call that another run can come between is a step. *)
(*                                                                         *)
(* Every job groups by owner under one root folder (two jobs on one folder *)
(* is the case the content index was written for).  A text does not change.*)
(***************************************************************************)
EXTENDS Integers, Sequences, FiniteSets

CONSTANTS
    Jobs,
    NoteOrder,   \* the notes in the order of the snapshot table
    Cand,        \* the notes each job applies to: valid, and matched by its title
    Owner,       \* the owner of each note, normalised
    KindOrder,   \* job.kinds
    OwnOrder,    \* those of them whose text the snapshot has; the body has the rest
    Text,        \* the hash of the text of each note and kind, or Empty
    Empty,
    Nobody,
    MaxFolders,  \* bound on the folders made
    MaxEvents    \* bound on faults, crashes and records cleared

Notes   == {NoteOrder[i] : i \in DOMAIN NoteOrder}
Kinds   == {KindOrder[i] : i \in DOMAIN KindOrder}
OfBody  == Kinds \ {OwnOrder[i] : i \in DOMAIN OwnOrder}
Persons == {Owner[n] : n \in Notes}
Hashes  == {Text[n][k] : n \in Notes, k \in Kinds} \ {Empty}
Folders == 1..MaxFolders

(* A file name holds the id of the note and the kind: noteArchiveFileName.  *)
Files == Notes \X Kinds

(* A text in a folder, as the content index knows it.                       *)
Keys == Folders \X Kinds \X Hashes

ASSUME JobsFinite  == IsFiniteSet(Jobs) /\ Jobs # {}
ASSUME OrdersAreLists == NoteOrder \in Seq(Notes) /\ KindOrder \in Seq(Kinds)
ASSUME OwnAreKinds == OwnOrder \in Seq(Kinds)
ASSUME CandAreNotes == Cand \in [Jobs -> SUBSET Notes]
ASSUME NobodyOwns == Nobody \notin Persons
ASSUME BoundsAreNat == MaxFolders \in Nat \ {0} /\ MaxEvents \in Nat

VARIABLES
    owners,      \* drive: the person a folder is named after
    copies,      \* drive: how many files of that name the folder holds
    record,      \* the row of a note and a job
    folderCache, \* memory: the folder known for a person, or none
    nameCache,   \* memory: the names thought to be in a folder, once listed
    index,       \* memory: contentIndex, <<folder, kind, hash>>
    run,         \* memory: where each job's run stands
    unread,      \* memory: the runs that failed to read the body of their note
    partial,     \* the rows of success that were written without the body's text
    events,      \* faults, crashes and cleared records so far
    overlapped,  \* history: two runs were under way at once
    dropped,     \* history: the texts whose upload failed, or was cut off
    blind        \* history: a reading of folder or records was not complete

drive  == <<owners, copies>>
memory == <<folderCache, nameCache, index>>
gaps   == <<unread, partial, dropped>>
past   == <<events, overlapped, blind>>
vars   == <<drive, record, memory, run, gaps, past>>

NoFolder     == 0
NoRecord     == 0   \* in the place of the folder of a successful record
FailedRecord == -1
Unlisted     == {<<>>}  \* no set of names: the folder has not been listed

Idle == [step |-> "idle", todo |-> {}, folder |-> NoFolder, left |-> <<>>, seen |-> {}]

Steps == {"idle", "archived", "clear", "index", "note", "folders", "create",
          "kind", "names", "upload", "fail"}

TypeInv ==
    /\ owners \in [Folders -> Persons \cup {Nobody}]
    /\ copies \in [Folders -> [Files -> Nat]]
    /\ record \in [Notes -> [Jobs -> {NoRecord, FailedRecord} \cup Folders]]
    /\ folderCache \in [Persons -> {NoFolder} \cup Folders]
    /\ \A f \in Folders : nameCache[f] = Unlisted \/ nameCache[f] \subseteq Files
    /\ index \subseteq Keys
    /\ unread \subseteq Jobs /\ partial \subseteq Notes \X Jobs
    /\ \A j \in Jobs : run[j].step \in Steps /\ run[j].folder \in {NoFolder} \cup Folders
    /\ \A j \in Jobs : run[j].step \in {"kind", "names", "upload"} => run[j].folder # NoFolder

Init ==
    /\ owners = [f \in Folders |-> Nobody]
    /\ copies = [f \in Folders |-> [x \in Files |-> 0]]
    /\ record = [n \in Notes |-> [j \in Jobs |-> NoRecord]]
    /\ folderCache = [p \in Persons |-> NoFolder]
    /\ nameCache = [f \in Folders |-> Unlisted]
    /\ index = {}
    /\ run = [j \in Jobs |-> Idle]
    /\ unread = {} /\ partial = {} /\ dropped = {}
    /\ events = 0
    /\ overlapped = FALSE
    /\ blind = FALSE

-----------------------------------------------------------------------------
Succeeded(n, j) == record[n][j] \in Folders

(* The notes are taken in the order of the table.                           *)
Pos(n)   == CHOOSE i \in DOMAIN NoteOrder : NoteOrder[i] = n
First(S) == CHOOSE n \in S : \A m \in S : Pos(n) <= Pos(m)

Note(j)  == First(run[j].todo)
Kind(j)  == Head(run[j].left)
File(j)  == <<Note(j), Kind(j)>>
Key(j)   == <<run[j].folder, Kind(j), Text[Note(j)][Kind(j)]>>

At(j, step)   == run[j].step = step
Goto(j, step) == run' = [run EXCEPT ![j].step = step]

(* Something goes wrong; `dark` says that a reading lost something by it.   *)
Event(dark) ==
    /\ events < MaxEvents
    /\ events' = events + 1
    /\ blind' = (blind \/ dark)
    /\ UNCHANGED overlapped

(* start: a second call for a job that runs is ignored.                     *)
Start(j) ==
    /\ At(j, "idle")
    /\ Goto(j, "archived")
    /\ overlapped' = (overlapped \/ \E i \in Jobs : ~At(i, "idle"))
    /\ UNCHANGED <<drive, record, memory, events, blind, gaps>>

(* ensureTables, the user's token or the status table fails: the run is over.*)
GiveUp(j) ==
    /\ At(j, "archived")
    /\ run' = [run EXCEPT ![j] = Idle]
    /\ UNCHANGED <<drive, record, memory, past, gaps>>

(* Mutant: a note with any row counts as archived.                          *)
LoadArchived_AnyRow(j) ==
    /\ At(j, "archived")
    /\ run' = [run EXCEPT ![j].step = "clear", ![j].seen = {n \in Notes : record[n][j] # NoRecord}]
    /\ UNCHANGED <<drive, record, memory, past, gaps>>

(* loadArchivedSet: an error is read as the end of the table.               *)
LoadArchived(j) ==
    /\ At(j, "archived")
    /\ \/ /\ run' = [run EXCEPT ![j].step = "clear",
                                ![j].seen = {n \in Notes : Succeeded(n, j)}]
          /\ UNCHANGED past
       \/ /\ run' = [run EXCEPT ![j].step = "clear"]
          /\ Event(FALSE)
    /\ UNCHANGED <<drive, record, memory, gaps>>

(* Mutant: the names are remembered from one run to the next.               *)
ClearCaches_KeepsNames(j) ==
    /\ At(j, "clear")
    /\ folderCache' = [p \in Persons |-> NoFolder]
    /\ index' = {}
    /\ Goto(j, "index")
    /\ UNCHANGED <<drive, record, nameCache, past, gaps>>

(* The caches that every run shares are emptied.                            *)
ClearCaches(j) ==
    /\ At(j, "clear")
    /\ folderCache' = [p \in Persons |-> NoFolder]
    /\ nameCache' = [f \in Folders |-> Unlisted]
    /\ index' = {}
    /\ Goto(j, "index")
    /\ UNCHANGED <<drive, record, past, gaps>>

(* The kinds of text whose hash is in a row of success.                     *)
Hashed(n, j) == IF <<n, j>> \in partial THEN Kinds \ OfBody ELSE Kinds

(* The texts of a note in the folder that its record of success names.      *)
Recorded == {key \in Keys : \E n \in Notes, j \in Jobs :
                               /\ record[n][j] = key[1] /\ Text[n][key[2]] = key[3]
                               /\ key[2] \in Hashed(n, j)}

(* Mutant: the index is built from the records of this job alone.           *)
Indexed_OwnRecords(j) ==
    {key \in Keys : \E n \in Notes : /\ record[n][j] = key[1] /\ Text[n][key[2]] = key[3]
                                     /\ key[2] \in Hashed(n, j)}

(* loadContentIndex: the successful records of every job.                   *)
Indexed(j) == Recorded

Fresh(j) == Cand[j] \ run[j].seen

(* The index is rebuilt and the candidates are listed; a run by hand may be *)
(* limited to the first few of them.                                        *)
LoadIndex(j) ==
    /\ At(j, "index")
    /\ \/ index' = index \cup Indexed(j) /\ UNCHANGED past
       \/ UNCHANGED index /\ Event(TRUE)
    /\ \E todo \in {Fresh(j)} \cup {{m \in Fresh(j) : Pos(m) <= Pos(n)} : n \in Fresh(j)} :
           run' = [run EXCEPT ![j].step = "note", ![j].seen = {}, ![j].todo = todo]
    /\ UNCHANGED <<drive, record, folderCache, nameCache, gaps>>

-----------------------------------------------------------------------------
(* The run has been through its notes: writeRunResult, and an alert.        *)
Finish(j) ==
    /\ At(j, "note") /\ run[j].todo = {}
    /\ run' = [run EXCEPT ![j] = Idle]
    /\ UNCHANGED <<drive, record, memory, past, gaps>>

Begin(j, f, kinds) == run' = [run EXCEPT ![j].step = "kind", ![j].folder = f,
                                         ![j].left = kinds, ![j].seen = {}]

(* The folder is known, and the body of the note is read: an error is taken *)
(* for an empty body, or none is stored yet, and its text is left out.      *)
BeginNote(j, f) ==
    /\ \/ Begin(j, f, KindOrder) /\ unread' = unread \ {j} /\ UNCHANGED past
       \/ Begin(j, f, OwnOrder) /\ unread' = unread \cup {j} /\ Event(FALSE)
    /\ UNCHANGED <<partial, dropped>>

(* ensureOwnerFolder, the folder is known.                                  *)
FolderKnown(j) ==
    /\ At(j, "note") /\ run[j].todo # {}
    /\ folderCache[Owner[Note(j)]] # NoFolder
    /\ BeginNote(j, folderCache[Owner[Note(j)]])
    /\ UNCHANGED <<drive, record, memory>>

(* The listing has been asked for: what the drive answers, at most 100      *)
(* entries, or an error, which fails the note.                              *)
ListFolders(j) ==
    /\ At(j, "note") /\ run[j].todo # {}
    /\ folderCache[Owner[Note(j)]] = NoFolder
    /\ \/ /\ run' = [run EXCEPT ![j].step = "folders",
                                ![j].seen = {f \in Folders : owners[f] # Nobody}]
          /\ UNCHANGED past
       \/ /\ run' = [run EXCEPT ![j].step = "folders"]
          /\ Event(TRUE)
       \/ Goto(j, "fail") /\ Event(FALSE)
    /\ UNCHANGED <<drive, record, memory, gaps>>

(* Mutant: a person without a folder is not given one.                      *)
UseFolders_NoCreate(j) ==
    /\ At(j, "folders")
    /\ \E f \in {f \in run[j].seen : owners[f] = Owner[Note(j)]} \cup {NoFolder} :
           /\ folderCache' = [folderCache EXCEPT ![Owner[Note(j)]] = f]
           /\ BeginNote(j, f)
    /\ UNCHANGED <<drive, record, nameCache, index>>

(* The answer fills in the persons that are not known yet.                  *)
UseFolders(j) ==
    /\ At(j, "folders")
    /\ folderCache' \in [Persons -> {NoFolder} \cup Folders]
    /\ \A p \in Persons :
           LET theirs == {f \in run[j].seen : owners[f] = p}
           IN  IF folderCache[p] # NoFolder \/ theirs = {}
               THEN folderCache'[p] = folderCache[p]
               ELSE folderCache'[p] \in theirs
    /\ LET f == folderCache'[Owner[Note(j)]]
       IN  IF f # NoFolder THEN BeginNote(j, f)
           ELSE /\ run' = [run EXCEPT ![j].step = "create", ![j].seen = {}]
                /\ UNCHANGED <<gaps, past>>
    /\ UNCHANGED <<drive, record, nameCache, index>>

CreateFolder(j) ==
    /\ At(j, "create")
    /\ LET p == Owner[Note(j)] IN
       \/ \E f \in Folders :
              /\ owners[f] = Nobody
              /\ \A g \in Folders : g < f => owners[g] # Nobody
              /\ owners' = [owners EXCEPT ![f] = p]
              /\ folderCache' = [folderCache EXCEPT ![p] = f]
              /\ BeginNote(j, f)
       \/ Goto(j, "fail") /\ Event(FALSE) /\ UNCHANGED <<owners, folderCache, gaps>>
    /\ UNCHANGED <<copies, record, nameCache, index>>

-----------------------------------------------------------------------------
Done(j) == run' = [run EXCEPT ![j].step = "kind", ![j].left = Tail(@), ![j].seen = {}]

ToDo(j) == At(j, "kind") /\ run[j].left # <<>>

(* Nothing to write, or the content is known to be in the folder.           *)
SkipKind(j) ==
    /\ ToDo(j)
    /\ Text[Note(j)][Kind(j)] = Empty \/ Key(j) \in index
    /\ Done(j)
    /\ UNCHANGED <<drive, record, memory, past, gaps>>

Wanted(j) == ToDo(j) /\ Text[Note(j)][Kind(j)] # Empty /\ Key(j) \notin index

(* Mutant: the names are never looked at.                                   *)
CheckName_Always(j, names) ==
    /\ nameCache' = [nameCache EXCEPT ![run[j].folder] = names]
    /\ UNCHANGED index
    /\ run' = [run EXCEPT ![j].step = "upload", ![j].seen = {}]

(* fileExists, once the names are known.  A name that is new is remembered  *)
(* at once, before the file is uploaded.                                    *)
CheckName(j, names) ==
    LET f == run[j].folder IN
    IF File(j) \in names
    THEN /\ nameCache' = [nameCache EXCEPT ![f] = names]
         /\ index' = index \cup {Key(j)}
         /\ Done(j)
    ELSE /\ nameCache' = [nameCache EXCEPT ![f] = names \cup {File(j)}]
         /\ UNCHANGED index
         /\ run' = [run EXCEPT ![j].step = "upload", ![j].seen = {}]

NameKnown(j) ==
    /\ Wanted(j)
    /\ nameCache[run[j].folder] # Unlisted
    /\ CheckName(j, nameCache[run[j].folder])
    /\ UNCHANGED <<drive, record, folderCache, past, gaps>>

(* The listing of the folder has been asked for: 100 names at most, and an  *)
(* error is read as an empty folder.                                        *)
ListNames(j) ==
    /\ Wanted(j)
    /\ nameCache[run[j].folder] = Unlisted
    /\ \/ /\ run' = [run EXCEPT ![j].step = "names",
                                ![j].seen = {x \in Files : copies[run[j].folder][x] > 0}]
          /\ UNCHANGED past
       \/ /\ run' = [run EXCEPT ![j].step = "names"]
          /\ Event(TRUE)
    /\ UNCHANGED <<drive, record, memory, gaps>>

(* Mutant: the names are looked for in the wrong field of the answer.       *)
UseNames_Nothing(j) ==
    /\ At(j, "names")
    /\ CheckName(j, {})
    /\ UNCHANGED <<drive, record, folderCache, past, gaps>>

(* The answer replaces what was known of the folder.                        *)
UseNames(j) ==
    /\ At(j, "names")
    /\ CheckName(j, run[j].seen)
    /\ UNCHANGED <<drive, record, folderCache, past, gaps>>

(* An upload that fails may have reached the drive all the same.            *)
Upload(j) ==
    /\ At(j, "upload")
    /\ LET stored == [copies EXCEPT ![run[j].folder][File(j)] = @ + 1] IN
       \/ /\ copies' = stored
          /\ index' = index \cup {Key(j)}
          /\ Done(j)
          /\ UNCHANGED <<dropped, past>>
       \/ /\ copies' \in {copies, stored}
          /\ Goto(j, "fail")
          /\ dropped' = dropped \cup {Key(j)}
          /\ Event(FALSE)
          /\ UNCHANGED index
    /\ UNCHANGED <<owners, record, folderCache, nameCache, unread, partial>>

-----------------------------------------------------------------------------
EndNote(j) == run' = [run EXCEPT ![j].step = "note", ![j].todo = @ \ {Note(j)},
                                 ![j].folder = NoFolder, ![j].left = <<>>]

(* saveArchiveRecord after every kind is done.                              *)
SaveRecord(j) ==
    /\ At(j, "kind") /\ run[j].left = <<>>
    /\ \/ /\ record' = [record EXCEPT ![Note(j)][j] = run[j].folder]
          /\ partial' = IF j \in unread THEN partial \cup {<<Note(j), j>>}
                        ELSE partial \ {<<Note(j), j>>}
          /\ EndNote(j)
          /\ UNCHANGED past
       \/ Goto(j, "fail") /\ Event(FALSE) /\ UNCHANGED <<record, partial>>
    /\ UNCHANGED <<drive, memory, unread, dropped>>

(* The handler of the note's failure, whose own write may fail in silence.  *)
SaveFailure(j) ==
    /\ At(j, "fail")
    /\ \/ record' = [record EXCEPT ![Note(j)][j] = FailedRecord] /\ UNCHANGED past
       \/ UNCHANGED record /\ Event(FALSE)
    /\ EndNote(j)
    /\ UNCHANGED <<drive, memory, gaps>>

(* clearRecords: the rows of a job go one by one, whether it runs or not.   *)
ClearRecord(j, n) ==
    /\ record[n][j] # NoRecord
    /\ record' = [record EXCEPT ![n][j] = NoRecord]
    /\ Event(FALSE)
    /\ UNCHANGED <<drive, memory, run, gaps>>

(* A deployment or a crash: what is in memory is lost.                      *)
Crash ==
    /\ Event(FALSE)
    /\ folderCache' = [p \in Persons |-> NoFolder]
    /\ nameCache' = [f \in Folders |-> Unlisted]
    /\ index' = {}
    /\ run' = [j \in Jobs |-> Idle]
    /\ unread' = {}
    /\ dropped' = dropped \cup {Key(j) : j \in {i \in Jobs : At(i, "upload")}}
    /\ UNCHANGED <<drive, record, partial>>

Progress(j) ==
    \/ LoadArchived(j) \/ ClearCaches(j) \/ LoadIndex(j) \/ Finish(j)
    \/ FolderKnown(j) \/ ListFolders(j) \/ UseFolders(j) \/ CreateFolder(j)
    \/ SkipKind(j) \/ NameKnown(j) \/ ListNames(j) \/ UseNames(j) \/ Upload(j)
    \/ SaveRecord(j) \/ SaveFailure(j)

Next ==
    \/ \E j \in Jobs : Start(j) \/ GiveUp(j) \/ Progress(j)
    \/ \E j \in Jobs, n \in Notes : ClearRecord(j, n)
    \/ Crash

Spec == Init /\ [][Next]_vars

(* The scheduler starts every job again, a run goes on, and one that keeps  *)
(* being able to begin its work does not give up for ever.                  *)
Fairness ==
    \A j \in Jobs : WF_vars(Start(j)) /\ WF_vars(Progress(j)) /\ SF_vars(LoadArchived(j))

FairSpec == Spec /\ Fairness

-----------------------------------------------------------------------------
Present(f, k, h) == \E n \in Notes : Text[n][k] = h /\ copies[f][<<n, k>>] > 0

(* Every text that a successful record vouches for is in the folder, or on  *)
(* its way: "only successful records are trusted, the file of a failed one  *)
(* may not have been uploaded" (loadContentIndex).                          *)
RecordsAreTrue ==
    \A key \in Recorded :
        \/ Present(key[1], key[2], key[3])
        \/ \E j \in Jobs : At(j, "upload") /\ Key(j) = key

(* As long as runs did not overlap, crashes, faults and cleared records do  *)
(* not make a record of success untrue.                                     *)
AloneIsTrue == overlapped \/ RecordsAreTrue

(* The name check: an interrupted run leaves no second copy of a file, and  *)
(* no second folder of a person, unless the drive told too little.          *)
AloneIsOnce ==
    overlapped \/ blind \/
        /\ \A f \in Folders, x \in Files : copies[f][x] <= 1
        /\ \A f, g \in Folders : owners[f] = owners[g] /\ owners[f] # Nobody => f = g

(* The content index: when nothing goes wrong, a text is in a folder once,  *)
(* whatever the names of the notes and the job it came by.                  *)
ContentOnce ==
    overlapped \/ events > 0 \/
        \A f \in Folders, x, y \in Files :
            /\ copies[f][x] > 0 /\ copies[f][y] > 0
            /\ x[2] = y[2] /\ Text[x[1]][x[2]] = Text[y[1]][y[2]]
            => x = y

(* Runs that overlap put at most one copy each.                             *)
CopiesBounded == blind \/ \A f \in Folders, x \in Files : copies[f][x] <= Cardinality(Jobs)

(* Every candidate is recorded as archived in the end, whatever failed      *)
(* before, and its texts are in the folder that the record names.  A record *)
(* of success is final, so two texts may stay away for ever: that of a body *)
(* that could not be read, and, where runs overlapped, one that another run *)
(* took for uploaded before its upload failed.                              *)
Archived(n, j, k) ==
    \/ Text[n][k] = Empty
    \/ Present(record[n][j], k, Text[n][k])
    \/ <<n, j>> \in partial /\ k \in OfBody
    \/ overlapped /\ <<record[n][j], k, Text[n][k]>> \in dropped
EveryNoteArchived ==
    <>[](\A j \in Jobs : \A n \in Cand[j] :
           Succeeded(n, j) /\ \A k \in Kinds : Archived(n, j, k))

(* What the drive and the records are worth after runs that overlap, fail,  *)
(* crash or have their records cleared: the four statements above.          *)
ArchiveSafe == TypeInv /\ AloneIsTrue /\ AloneIsOnce /\ ContentOnce /\ CopiesBounded
=============================================================================
