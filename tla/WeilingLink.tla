---------------------------- MODULE WeilingLink -----------------------------
(***************************************************************************)
(* The links from Weiling contacts to student records, and the recruiting  *)
(* teacher a new link brings to the student.  The upstream sync merges     *)
(* contacts into the table and starts a matching run without awaiting it;  *)
(* staff start runs as well, so runs overlap.  A run reads a page of       *)
(* contacts, then writes one after the other, then fills blank teachers.   *)
(* Staff unlink, relink, hand back to the matching, enrol a contact and    *)
(* edit the teacher at any moment.  What bestMatch would answer for a      *)
(* contact is its hint; the student index does not change.                 *)
(***************************************************************************)
EXTENDS Integers, FiniteSets

CONSTANTS Contacts, Students, Runs

NoStudent == "none"

NoneApart == NoStudent \notin Students

VARIABLES
    contact,    \* the record of each contact, as far as links go
    recruiter,  \* does the student have a recruiting teacher
    syncing,    \* the guard of syncAll
    run,        \* where each matching run stands
    enrol,      \* the enrolments under way: none or one
    cleared     \* students whose teacher staff have cleared, with nothing under way

vars == <<contact, recruiter, syncing, run, enrol, cleared>>

Sources == {"auto", "manual", "ignored"}  \* linkSourceOf
Links   == Students \cup {NoStudent}

(* hint: the student bestMatch finds at 70 points or more. *)
ContactType == [link : Links, source : Sources, hint : Links]

(* todo: the links still to write, and whether the page had them (old);     *)
(* teachers: the students to fill; seen: the one being filled; touched:     *)
(* contacts in todo that staff have changed since the page was read.        *)
LinkType == [contact : Contacts, student : Students, old : BOOLEAN]
IdleRun  == [step |-> "idle", always |-> FALSE, todo |-> {}, teachers |-> {},
             seen |-> NoStudent, touched |-> {}]

TypeInv ==
    /\ contact \in [Contacts -> ContactType]
    /\ recruiter \in [Students -> BOOLEAN]
    /\ syncing \in BOOLEAN
    /\ \A r \in Runs :
          /\ run[r].step \in {"idle", "read", "match", "fill", "put"}
          /\ run[r].always \in BOOLEAN
          /\ run[r].todo \subseteq LinkType
          /\ run[r].teachers \subseteq Students
          /\ run[r].seen \in Links
          /\ run[r].touched \subseteq Contacts
    /\ enrol \subseteq [step : {"link", "fill"}, contact : Contacts, student : Students, fill : BOOLEAN]
    /\ Cardinality(enrol) <= 1
    /\ cleared \subseteq Students

Init ==
    /\ contact \in [Contacts -> [link : {NoStudent}, source : {"auto"}, hint : Links]]
    /\ recruiter = [s \in Students |-> FALSE]
    /\ syncing = FALSE
    /\ run = [r \in Runs |-> IdleRun]
    /\ enrol = {}
    /\ cleared = {}

Quiet == enrol = {} /\ \A r \in Runs : run[r].step = "idle"

(* A contact newly linked to a student may bring a teacher again.           *)
Relinks(c, s) == cleared' = IF contact[c].link = s THEN cleared ELSE cleared \ {s}

-----------------------------------------------------------------------------
(* syncAll: refused while another one runs. *)
SyncStart ==
    /\ ~syncing
    /\ syncing' = TRUE
    /\ UNCHANGED <<contact, recruiter, run, enrol, cleared>>

(* Mutant: the row is replaced (createWithId), so local fields are lost. *)
SyncRow_Replaces(c) ==
    /\ syncing
    /\ \E h \in Links :
          contact' = [contact EXCEPT ![c] = [link |-> NoStudent, source |-> "auto", hint |-> h]]
    /\ UNCHANGED <<recruiter, syncing, run, enrol, cleared>>

(* upsertMergeWithId: the upstream fields of one contact. *)
SyncRow(c) ==
    /\ syncing
    /\ \E h \in Links : contact' = [contact EXCEPT ![c].hint = h]
    /\ UNCHANGED <<recruiter, syncing, run, enrol, cleared>>

Starts(r, always) == run' = [run EXCEPT ![r] = [IdleRun EXCEPT !.step = "read", !.always = always]]

(* The sync ends by starting a run that it does not await. *)
SyncEnd(r) ==
    /\ syncing
    /\ syncing' = FALSE
    /\ run[r].step = "idle"
    /\ Starts(r, FALSE)
    /\ UNCHANGED <<contact, recruiter, enrol, cleared>>

(* syncAll catches a failure: the guard is released, no run is started. *)
SyncFails ==
    /\ syncing
    /\ syncing' = FALSE
    /\ UNCHANGED <<contact, recruiter, run, enrol, cleared>>

(* POST match, and POST fill-recruiter, which fills for all links.          *)
StartRun(r) ==
    /\ run[r].step = "idle"
    /\ \E always \in BOOLEAN :
          /\ Starts(r, always)
          /\ cleared' = IF always THEN {} ELSE cleared
    /\ UNCHANGED <<contact, recruiter, syncing, enrol>>

(* Mutant: a contact for which nobody was found is written all the same. *)
Todo_Unmatched(sources) ==
    {[contact |-> c, student |-> contact[c].hint, old |-> FALSE] :
        c \in {d \in Contacts : contact[d].source \in sources}}

Todo(sources) ==
    {[contact |-> c, student |-> contact[c].hint, old |-> contact[c].link = contact[c].hint] :
        c \in {d \in Contacts : contact[d].source \in sources /\ contact[d].hint # NoStudent}}

(* Mutant: the source of the link is not looked at. *)
ReadPage_AnySource(r) ==
    /\ run[r].step = "read"
    /\ run' = [run EXCEPT ![r].step = "match", ![r].todo = Todo(Sources)]
    /\ UNCHANGED <<contact, recruiter, syncing, enrol, cleared>>

(* One page of contacts; those with another source than "auto", and those   *)
(* without a match that is good enough, are passed over.                    *)
ReadPage(r) ==
    /\ run[r].step = "read"
    /\ run' = [run EXCEPT ![r].step = "match", ![r].todo = Todo({"auto"})]
    /\ UNCHANGED <<contact, recruiter, syncing, enrol, cleared>>

(* The links that are written replace what the contact has by now; some     *)
(* bring the teacher, if the owner of the contact is a known user.          *)
Writes(r, brings(_)) ==
    /\ run[r].step = "match"
    /\ \E l \in run[r].todo, known \in BOOLEAN :
          /\ contact' = [contact EXCEPT ![l.contact].link = l.student, ![l.contact].source = "auto"]
          /\ run' = [run EXCEPT ![r].todo = @ \ {l}, ![r].touched = @ \ {l.contact},
                                ![r].teachers = IF known /\ brings(l) THEN @ \cup {l.student} ELSE @]
          /\ Relinks(l.contact, l.student)
    /\ UNCHANGED <<recruiter, syncing, enrol>>

(* Mutant: every link brings its teacher, not only a new one. *)
Match_EveryLink(r) == Writes(r, LAMBDA l : TRUE)

(* A link that the page did not have brings its teacher. *)
Match(r) == Writes(r, LAMBDA l : ~l.old \/ run[r].always)

(* fillRecruiter: the student's record is read; one with a teacher is left. *)
ReadTeacher(r) ==
    /\ run[r].step \in {"match", "fill"} /\ run[r].todo = {}
    /\ IF run[r].teachers = {}
       THEN run' = [run EXCEPT ![r] = IdleRun]
       ELSE \E s \in run[r].teachers :
               run' = [run EXCEPT ![r].step = IF recruiter[s] THEN "fill" ELSE "put",
                                  ![r].teachers = @ \ {s},
                                  ![r].seen = IF recruiter[s] THEN NoStudent ELSE s]
    /\ UNCHANGED <<contact, recruiter, syncing, enrol, cleared>>

PutTeacher(r) ==
    /\ run[r].step = "put"
    /\ recruiter' = [recruiter EXCEPT ![run[r].seen] = TRUE]
    /\ run' = [run EXCEPT ![r].step = "fill", ![r].seen = NoStudent]
    /\ UNCHANGED <<contact, syncing, enrol, cleared>>

-----------------------------------------------------------------------------
ByHand(c, record) ==
    /\ contact' = [contact EXCEPT ![c] = record]
    /\ run' = [r \in Runs |-> [run[r] EXCEPT !.touched = @ \cup ({c} \cap {l.contact : l \in run[r].todo})]]

(* unlinkContact: done again, it changes nothing but the reason. *)
Unlink(c) ==
    /\ ByHand(c, [contact[c] EXCEPT !.link = NoStudent, !.source = "ignored"])
    /\ UNCHANGED <<recruiter, syncing, enrol, cleared>>

Relink(c, s) ==
    /\ ByHand(c, [contact[c] EXCEPT !.link = s, !.source = "manual"])
    /\ Relinks(c, s)
    /\ UNCHANGED <<recruiter, syncing, enrol>>

(* restoreAutoLink: only the source. *)
Restore(c) ==
    /\ ByHand(c, [contact[c] EXCEPT !.source = "auto"])
    /\ UNCHANGED <<recruiter, syncing, enrol, cleared>>

(* enroll with an existing student: its record is read, ... *)
EnrolRead(c, s) ==
    /\ enrol = {}
    /\ \E known \in BOOLEAN :
          enrol' = {[step |-> "link", contact |-> c, student |-> s, fill |-> known /\ ~recruiter[s]]}
    /\ cleared' = cleared \ {s}
    /\ UNCHANGED <<contact, recruiter, syncing, run>>

(* ... the contact linked (its source stays what it was), ... *)
EnrolLink ==
    \E e \in enrol :
        /\ e.step = "link"
        /\ ByHand(e.contact, [contact[e.contact] EXCEPT !.link = e.student])
        /\ Relinks(e.contact, e.student)
        /\ enrol' = IF e.fill THEN {[e EXCEPT !.step = "fill"]} ELSE {}
        /\ UNCHANGED <<recruiter, syncing>>

(* ... and a teacher that was blank is filled. *)
EnrolFill ==
    \E e \in enrol :
        /\ e.step = "fill"
        /\ recruiter' = [recruiter EXCEPT ![e.student] = TRUE]
        /\ enrol' = {}
        /\ UNCHANGED <<contact, syncing, run, cleared>>

(* The student's form: a teacher is chosen or cleared. *)
SetTeacher(s) ==
    /\ recruiter' = [recruiter EXCEPT ![s] = TRUE]
    /\ cleared' = cleared \ {s}
    /\ UNCHANGED <<contact, syncing, run, enrol>>

ClearTeacher(s) ==
    /\ recruiter[s]
    /\ recruiter' = [recruiter EXCEPT ![s] = FALSE]
    /\ cleared' = IF Quiet THEN cleared \cup {s} ELSE cleared
    /\ UNCHANGED <<contact, syncing, run, enrol>>

-----------------------------------------------------------------------------
Next ==
    \/ SyncStart \/ SyncFails
    \/ \E c \in Contacts : SyncRow(c) \/ Unlink(c) \/ Restore(c)
    \/ \E c \in Contacts, s \in Students : Relink(c, s) \/ EnrolRead(c, s)
    \/ EnrolLink \/ EnrolFill
    \/ \E s \in Students : SetTeacher(s) \/ ClearTeacher(s)
    \/ \E r \in Runs :
          SyncEnd(r) \/ StartRun(r) \/ ReadPage(r) \/ Match(r) \/ ReadTeacher(r) \/ PutTeacher(r)

Spec == Init /\ [][Next]_vars

Matches(r, c) == \E l \in run[r].todo \ run'[r].todo : l.contact = c

(* A run writes a contact that staff have unlinked or linked by hand only   *)
(* if they did so after the run had read its page                           *)
(* (weiling.service.ts:885): with no overlap an unlinked contact stays so.  *)
StaffWin ==
    [][\A r \in Runs, c \in Contacts :
          Matches(r, c) /\ contact[c].source # "auto" => c \in run[r].touched]_vars

(* A link is never lost but by unlinking: neither the upstream sync         *)
(* (weiling.service.ts:416) nor a run without a match clears it.            *)
LinksSurvive ==
    [][\A c \in Contacts :
          contact[c].link # NoStudent /\ contact'[c].link = NoStudent
             => contact'[c].source = "ignored"]_vars

(* A teacher cleared by hand while nothing was under way does not come back *)
(* by itself: only a contact newly linked to the student, or the explicit   *)
(* maintenance action, brings one (weiling.service.ts:1820).                *)
ClearedStays == \A s \in cleared : ~recruiter[s]
=============================================================================
