------------------------------ MODULE NoteBody ------------------------------
(***************************************************************************)
(* The bodies and recordings of notes (getnote.service.ts): opening a note *)
(* stores the body that was fetched for it, and jobs (a button, a nightly  *)
(* task) fetch the recordings of the notes stored so far.  Both store the  *)
(* body by replacing the whole row, after reading the recording's fields   *)
(* of the old row so as to keep them (mergeNoteBodyPayload); the recording *)
(* itself is then merged into the row by an update.                        *)
(*                                                                         *)
(* The notes' service is external: a note has a revision, and may have     *)
(* attachments, of which one may be a recording.                           *)
(***************************************************************************)
EXTENDS Naturals, FiniteSets

CONSTANTS
  Notes,       \* the notes
  Viewers,     \* people who open notes (a refetch of bodies opens one by one)
  Jobs,        \* jobs that fetch recordings: one per administrator,
  Nightly,     \* and the nightly one
  MaxRev,      \* bound: revisions of a note upstream
  MaxOpens,    \* bound: notes opened, jobs started by hand, sources changed
  MaxFailures  \* bound: calls that fail, and crashes

BodyAssumption ==
  /\ IsFiniteSet(Notes) /\ Viewers \cap Jobs = {} /\ Nightly \in Jobs
  /\ {MaxRev, MaxOpens, MaxFailures} \subseteq Nat /\ MaxRev > 0

VARIABLES
  up,        \* the notes upstream
  row,       \* the table of bodies
  task,      \* what each viewer and job is doing
  opens, failures,
  keyless,   \* the notes for which no credential is found (their source is not
             \* named in the row, or not enabled)
  always     \* history: the notes that have had a recording from the start

bodyVars == <<up, row, task, opens, failures, keyless, always>>

Tasks == Viewers \cup Jobs
Attached == {"nothing", "files", "recording"}
NoRow == [rev |-> 0, hint |-> FALSE, file |-> FALSE, state |-> ""]
\* The recording's fields, which a body does not have.
Audio(r) == [file |-> r.file, state |-> r.state]

\* late (history): a recording was saved in the row since it was read;
\* passed (history): another body was stored since this one was fetched.
Rest == [at |-> "rest", n |-> {}, todo |-> {}, got |-> [rev |-> 0, has |-> "nothing"],
         kept |-> Audio(NoRow), blind |-> FALSE, late |-> FALSE, passed |-> FALSE]

Init ==
  /\ up \in [Notes -> [rev: {1}, has: Attached]]
  /\ row = [n \in Notes |-> NoRow]
  /\ task = [t \in Tasks |-> Rest]
  /\ opens = 0 /\ failures = 0 /\ keyless \in SUBSET Notes
  /\ always = {n \in Notes : up[n].has = "recording"}

Set(t, r) == task' = [task EXCEPT ![t] = r]
\* A job goes on with the next note of its list, a viewer is done.
Onward(t) == IF t \in Jobs /\ task[t].todo # {}
             THEN [Rest EXCEPT !.at = "next", !.todo = task[t].todo] ELSE Rest
Fail == failures < MaxFailures /\ failures' = failures + 1

(***************************************************************************)
(* Fetching a body.                                                        *)
(***************************************************************************)
\* detail: fetchNoteDetail, and persistNoteBody which nobody waits for.
Open(t, n) ==
  /\ t \in Viewers /\ task[t] = Rest /\ opens < MaxOpens
  /\ opens' = opens + 1
  /\ Set(t, [Rest EXCEPT !.at = "prev", !.n = {n}, !.got = up[n]])
  /\ UNCHANGED <<up, row, failures, keyless, always>>

\* Mutant: a recording that failed is not tried again.
Wanted_OnlyNew(n) == row[n].hint /\ row[n].state = ""

\* runRefetchAudio: the notes with attachments whose recording is neither
\* saved nor known not to exist.  A note without a credential is skipped,
\* unless the administrator who runs the job has one, which is tried instead.
Wanted(n) == row[n].hint /\ row[n].state \notin {"saved", "none"}
Run(t) ==
  /\ t \in Jobs /\ task[t] = Rest
  /\ \E skipped \in {keyless} \cup (IF t = Nightly THEN {} ELSE {{}}) :
       LET todo == {n \in Notes : Wanted(n)} \ skipped IN
         todo # {} /\ Set(t, [Rest EXCEPT !.at = "next", !.todo = todo])
  /\ t # Nightly => opens < MaxOpens
  /\ opens' = IF t = Nightly THEN opens ELSE opens + 1
  /\ UNCHANGED <<up, row, failures, keyless, always>>

FetchNote(t, n) ==
  /\ task[t].at = "next" /\ n \in task[t].todo
  /\ Set(t, [Rest EXCEPT !.at = "prev", !.n = {n}, !.got = up[n], !.todo = task[t].todo \ {n}])
  /\ UNCHANGED <<up, row, opens, failures, keyless, always>>

FetchFails(t, n) ==
  /\ task[t].at = "next" /\ n \in task[t].todo /\ Fail
  /\ Set(t, [Rest EXCEPT !.at = "failed", !.n = {n}, !.todo = task[t].todo \ {n}])
  /\ UNCHANGED <<up, row, opens, keyless, always>>

\* The administrator's own credential is refused for the note of another.
FetchRefused(t, n) ==
  /\ t # Nightly /\ task[t].at = "next" /\ n \in task[t].todo \cap keyless
  /\ Set(t, [Rest EXCEPT !.at = "failed", !.n = {n}, !.todo = task[t].todo \ {n}])
  /\ UNCHANGED <<up, row, opens, failures, keyless, always>>

(***************************************************************************)
(* persistNoteBody: the old row is read for the recording's fields, and    *)
(* replaced.  A reading that fails is taken for a row that is not there; a *)
(* write that fails is only logged.                                        *)
(***************************************************************************)
\* Mutant: the state is kept and the file is not.
ReadPrev_NoStatus(t, n) ==
  /\ task[t].at = "prev" /\ n \in task[t].n
  /\ Set(t, [task[t] EXCEPT !.at = "body", !.kept = [file |-> FALSE, state |-> row[n].state]])
  /\ UNCHANGED <<up, row, opens, failures, keyless, always>>

ReadPrev(t, n) ==
  /\ task[t].at = "prev" /\ n \in task[t].n
  /\ Set(t, [task[t] EXCEPT !.at = "body", !.kept = Audio(row[n])])
  /\ UNCHANGED <<up, row, opens, failures, keyless, always>>

ReadPrevFails(t) ==
  /\ task[t].at = "prev" /\ Fail
  /\ Set(t, [task[t] EXCEPT !.at = "body", !.blind = TRUE])
  /\ UNCHANGED <<up, row, opens, keyless, always>>

Stored(t) == IF t \in Jobs THEN [Rest EXCEPT !.at = "audio", !.n = task[t].n,
                                             !.todo = task[t].todo, !.got = task[t].got]
             ELSE Rest

\* t goes on as next; the others that have fetched the note have been passed,
\* and those that have read a row without the recording t puts back are late
\* (history).
Passing(t, n, next) ==
  task' = [s \in Tasks |->
             IF s = t THEN next
             ELSE IF n \notin task[s].n THEN task[s]
             ELSE [task[s] EXCEPT !.passed = @ \/ task[s].at \in {"prev", "body"},
                                  !.late = @ \/ (task[t].kept.file /\ task[s].at = "body")]]

\* Mutant: the fields of the recording are not kept.
WriteBody_Plain(t, n) ==
  /\ task[t].at = "body" /\ n \in task[t].n
  /\ row' = [row EXCEPT ![n] = [rev |-> task[t].got.rev, hint |-> task[t].got.has # "nothing",
                                file |-> FALSE, state |-> ""]]
  /\ Passing(t, n, Stored(t))
  /\ UNCHANGED <<up, opens, failures, keyless, always>>

WriteBody(t, n) ==
  /\ task[t].at = "body" /\ n \in task[t].n
  /\ row' = [row EXCEPT ![n] = [rev |-> task[t].got.rev, hint |-> task[t].got.has # "nothing",
                                file |-> task[t].kept.file, state |-> task[t].kept.state]]
  /\ Passing(t, n, Stored(t))
  /\ UNCHANGED <<up, opens, failures, keyless, always>>

WriteBodyFails(t) ==
  /\ task[t].at = "body" /\ Fail
  /\ Set(t, Stored(t))
  /\ UNCHANGED <<up, row, opens, keyless, always>>

(***************************************************************************)
(* grabNoteAudio, after the body: an update merges into the row, and does  *)
(* nothing where there is none.                                            *)
(***************************************************************************)
Exists(n) == row[n].rev > 0

MarkNone(t, n) ==
  /\ task[t].at = "audio" /\ n \in task[t].n /\ task[t].got.has # "recording"
  /\ row' = IF Exists(n) THEN [row EXCEPT ![n].state = "none"] ELSE row
  /\ Set(t, Onward(t))
  /\ UNCHANGED <<up, opens, failures, keyless, always>>

\* The update, after which t goes on as next; the others that have read the row
\* are late (history).
Saved(t, n, next) ==
  /\ row' = IF Exists(n) THEN [row EXCEPT ![n].state = "saved", ![n].file = TRUE] ELSE row
  /\ task' = [s \in Tasks |->
                IF s = t THEN next
                ELSE [task[s] EXCEPT !.late = @ \/ (task[s].at = "body" /\ n \in task[s].n)]]
Save(t, n) ==
  /\ task[t].at = "audio" /\ n \in task[t].n /\ task[t].got.has = "recording"
  /\ Saved(t, n, Onward(t))
  /\ UNCHANGED <<up, opens, failures, keyless, always>>

\* The update is done but its answer lost.
SaveUnanswered(t, n) ==
  /\ task[t].at = "audio" /\ n \in task[t].n /\ task[t].got.has = "recording" /\ Fail
  /\ Saved(t, n, [task[t] EXCEPT !.at = "failed"])
  /\ UNCHANGED <<up, opens, keyless, always>>

\* The download, the upload or an update fails.
AudioFails(t) ==
  /\ task[t].at = "audio" /\ Fail
  /\ Set(t, [task[t] EXCEPT !.at = "failed"])
  /\ UNCHANGED <<up, row, opens, keyless, always>>

\* Mutant: a failure is taken for a note without a recording.
MarkFailed_AsNone(t, n) ==
  /\ task[t].at = "failed" /\ n \in task[t].n
  /\ row' = IF Exists(n) THEN [row EXCEPT ![n].state = "none"] ELSE row
  /\ Set(t, Onward(t))
  /\ UNCHANGED <<up, opens, failures, keyless, always>>

MarkFailed(t, n) ==
  /\ task[t].at = "failed" /\ n \in task[t].n
  /\ row' = IF Exists(n) THEN [row EXCEPT ![n].state = "failed"] ELSE row
  /\ Set(t, Onward(t))
  /\ UNCHANGED <<up, opens, failures, keyless, always>>

MarkFailedFails(t) ==
  /\ task[t].at = "failed" /\ Fail
  /\ Set(t, Onward(t))
  /\ UNCHANGED <<up, row, opens, keyless, always>>

(***************************************************************************)
(* The program stops and starts; the note is changed upstream; a source is *)
(* enabled or disabled, or a body stored anew names another one or none.   *)
(***************************************************************************)
Crash ==
  /\ Fail /\ task' = [t \in Tasks |-> Rest]
  /\ UNCHANGED <<up, row, opens, keyless, always>>

Revise(n) ==
  /\ up[n].rev < MaxRev
  /\ \E has \in Attached :
       /\ up' = [up EXCEPT ![n] = [rev |-> @.rev + 1, has |-> has]]
       /\ always' = IF has = "recording" THEN always ELSE always \ {n}
  /\ UNCHANGED <<row, task, opens, failures, keyless>>

Rekey(n) ==
  /\ opens < MaxOpens /\ opens' = opens + 1
  /\ keyless' = IF n \in keyless THEN keyless \ {n} ELSE keyless \cup {n}
  /\ UNCHANGED <<up, row, task, failures, always>>

Works(t) ==
  \/ \E n \in Notes : \/ FetchNote(t, n) \/ ReadPrev(t, n) \/ WriteBody(t, n)
                      \/ MarkNone(t, n) \/ Save(t, n) \/ MarkFailed(t, n)

Next ==
  \/ \E t \in Tasks :
       \/ Run(t) \/ Works(t) \/ ReadPrevFails(t) \/ WriteBodyFails(t)
       \/ AudioFails(t) \/ MarkFailedFails(t)
       \/ \E n \in Notes : Open(t, n) \/ FetchFails(t, n) \/ SaveUnanswered(t, n)
                              \/ FetchRefused(t, n)
  \/ Crash
  \/ \E n \in Notes : Revise(n) \/ Rekey(n)

\* A job that is under way goes on, and the nightly one is started again.
Fairness == (\A t \in Tasks : WF_bodyVars(Works(t))) /\ WF_bodyVars(Run(Nightly))
Spec == Init /\ [][Next]_bodyVars /\ Fairness

TypeInv ==
  /\ up \in [Notes -> [rev: 1..MaxRev, has: Attached]]
  /\ row \in [Notes -> [rev: 0..MaxRev, hint: BOOLEAN, file: BOOLEAN,
                        state: {"", "saved", "none", "failed"}]]
  /\ keyless \subseteq Notes /\ \A t \in Tasks : task[t].todo \subseteq Notes

(***************************************************************************)
(* Properties.                                                             *)
(***************************************************************************)
\* The list shows a recording only where its file is stored.
SavedHasFile == \A n \in Notes : row[n].state = "saved" => row[n].file

Writer(t, n) == task[t].at = "body" /\ n \in task[t].n /\ task'[t] # task[t]

\* "Only grows" (note-body-merge.ts): a stored recording is dropped only by a
\* body whose reading of the old row failed, or came before the recording.
FileKept ==
  [][\A n \in Notes : row[n].file /\ ~row'[n].file =>
       \E t \in Tasks : Writer(t, n) /\ (task[t].blind \/ task[t].late)]_bodyVars

\* A body is replaced by an older revision only when it was fetched before the
\* newer one was stored.
BodyForward ==
  [][\A n \in Notes : row'[n].rev < row[n].rev =>
       \E t \in Tasks : Writer(t, n) /\ task[t].passed]_bodyVars

\* Once notes are left alone and calls succeed, no recording is outstanding
\* for which there is a credential, and one that was upstream all the time is
\* saved, whatever was lost between.  A note without a credential is skipped
\* every night, for as long as it has none.
AllFetched ==
  <>[](\A n \in Notes \ keyless :
         /\ ~Wanted(n)
         /\ n \in always /\ Exists(n) => row[n].state = "saved" /\ row[n].file)

\* What the table of bodies keeps.
BodyKept == [](TypeInv /\ SavedHasFile) /\ FileKept /\ BodyForward

=============================================================================
