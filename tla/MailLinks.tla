----------------------------- MODULE MailLinks -----------------------------
(***************************************************************************)
(* The students and contacts linked to one archived mail                   *)
(* (mail-archive.service.ts): staff set either list, or both, and the      *)
(* service then adds what follows from the contacts' own students; an      *)
(* administrator may have all mails gone through.  The index of contacts   *)
(* is cached for a minute, and what is added is computed from one reading  *)
(* of the mail.                                                            *)
(***************************************************************************)
EXTENDS Naturals, FiniteSets

CONSTANTS
  Students, Contacts,
  Users,         \* callers that may be under way at one time
  NoStudent,     \* of a contact without a sufficiently certain match
  MaxEdits,      \* bound: links set by staff
  MaxAlls,       \* bound: runs over all mails
  MaxMatches     \* bound: changes of a contact's student

LinksAssumption ==
  NoStudent \notin Students /\ {MaxEdits, MaxAlls, MaxMatches} \subseteq Nat

VARIABLES
  mail,          \* the two lists of the mail
  studentOf,     \* the student of each contact, where the match is certain
  index,         \* contactIdxCache: {} or the one index cached
  user,          \* what each caller is doing
  edits, alls, matches

vars == <<mail, studentOf, index, user, edits, alls, matches>>
counts == <<edits, alls, matches>>

Empty == [students |-> {}, contacts |-> {}]
Nobody == [c \in Contacts |-> NoStudent]
\* late (history): somebody has written the lists since the caller read them.
Idle == [at |-> "idle", all |-> FALSE, read |-> Empty, idx |-> Nobody, late |-> FALSE]

Init ==
  /\ mail = Empty
  /\ studentOf \in [Contacts -> Students \cup {NoStudent}]
  /\ index = {} /\ user = [u \in Users |-> Idle]
  /\ edits = 0 /\ alls = 0 /\ matches = 0

(***************************************************************************)
(* reconcileFields: what follows from the lists by an index, in at most    *)
(* three rounds over the contacts and then the students.                   *)
(***************************************************************************)
Matched(cs, idx) == {idx[c] : c \in cs} \ {NoStudent}
Grow(m, idx) ==
  LET ss == m.students \cup Matched(m.contacts, idx) IN
  [students |-> ss, contacts |-> m.contacts \cup {c \in Contacts : idx[c] \in ss}]
\* Mutant: contacts do not follow from students.
reconcileFields_OneWay(m, idx) ==
  [m EXCEPT !.students = @ \cup Matched(m.contacts, idx)]

reconcileFields(m, idx) == Grow(Grow(Grow(m, idx), idx), idx)

(***************************************************************************)
(* link: the update of staff, then reconcileRecord: get, index, update.    *)
(***************************************************************************)
Written(u, next) ==
  user' = [v \in Users |->
             IF v = u THEN next
             ELSE [user[v] EXCEPT !.late = @ \/ user[v].at \in {"index", "update"}]]

Link(u) ==
  /\ user[u] = Idle /\ edits < MaxEdits /\ edits' = edits + 1
  /\ \E ss \in {mail.students} \cup SUBSET Students,
        cs \in {mail.contacts} \cup SUBSET Contacts :
       mail' = [students |-> ss, contacts |-> cs]
  /\ Written(u, [Idle EXCEPT !.at = "get"])
  /\ UNCHANGED <<studentOf, index, alls, matches>>

Get(u) ==
  /\ user[u].at = "get"
  /\ user' = [user EXCEPT ![u].at = IF user[u].all THEN "update" ELSE "index", ![u].read = mail]
  /\ UNCHANGED <<mail, studentOf, index, counts>>

\* The cached index, or all contacts.  reconcileAll takes it before it reads.
ContactIndex(u) ==
  /\ user[u].at \in {"index", "first"}
  /\ \E idx \in IF index = {} THEN {studentOf} ELSE index :
       /\ index' = {idx}
       /\ user' = [user EXCEPT ![u].idx = idx,
                               ![u].at = IF user[u].at = "first" THEN "get" ELSE "update"]
  /\ UNCHANGED <<mail, studentOf, counts>>

\* Only a list that has grown is written.
Grown(u) == reconcileFields(user[u].read, user[u].idx)
\* Mutant: the lists are replaced by what follows.
Update_Replaces(u) ==
  /\ user[u].at = "update"
  /\ mail' = [students |-> Matched(user[u].read.contacts, user[u].idx),
              contacts |-> Grown(u).contacts]
  /\ user' = [user EXCEPT ![u] = Idle]
  /\ UNCHANGED <<studentOf, index, counts>>

Update(u) ==
  /\ user[u].at = "update"
  /\ mail' = [students |-> IF Grown(u).students # user[u].read.students
                           THEN Grown(u).students ELSE mail.students,
              contacts |-> IF Grown(u).contacts # user[u].read.contacts
                           THEN Grown(u).contacts ELSE mail.contacts]
  /\ Written(u, Idle)
  /\ UNCHANGED <<studentOf, index, counts>>

ReconcileAll(u) ==
  /\ user[u] = Idle /\ alls < MaxAlls /\ alls' = alls + 1
  /\ user' = [user EXCEPT ![u] = [Idle EXCEPT !.at = "first", !.all = TRUE]]
  /\ UNCHANGED <<mail, studentOf, index, edits, matches>>

\* An update that fails: link answers with an error, reconcileAll goes on.
UpdateFails(u) ==
  /\ user[u].at = "update"
  /\ user' = [user EXCEPT ![u] = Idle]
  /\ UNCHANGED <<mail, studentOf, index, counts>>

\* A matching run, or staff, change a contact's student; the cache runs out.
Match(c) ==
  /\ matches < MaxMatches /\ matches' = matches + 1
  /\ \E s \in Students \cup {NoStudent} : studentOf' = [studentOf EXCEPT ![c] = s]
  /\ UNCHANGED <<mail, index, user, edits, alls>>

Expire ==
  /\ index # {} /\ index' = {}
  /\ UNCHANGED <<mail, studentOf, user, counts>>

Next ==
  \/ \E u \in Users : Link(u) \/ Get(u) \/ ContactIndex(u) \/ Update(u)
                      \/ ReconcileAll(u) \/ UpdateFails(u)
  \/ \E c \in Contacts : Match(c)
  \/ Expire

Spec == Init /\ [][Next]_vars

TypeInv ==
  /\ mail.students \subseteq Students /\ mail.contacts \subseteq Contacts
  /\ Cardinality(index) <= 1
  /\ \A u \in Users : user[u].at = "idle" => user[u] = Idle

(***************************************************************************)
(* Properties.                                                             *)
(***************************************************************************)
Adds(u) == user[u].at = "update" /\ user'[u] = Idle /\ mail' # mail
Late(u) == Adds(u) /\ user[u].late
Staff == edits' # edits

\* "Only adds": a link goes away by staff only, or by a completion whose
\* reading they overtook.
OnlyAdds ==
  [][\/ mail.students \subseteq mail'.students /\ mail.contacts \subseteq mail'.contacts
     \/ Staff
     \/ \E u \in Users : Late(u)]_vars

\* A mail from which staff have taken all students and contacts stays without,
\* until they link again, except by a completion that was overtaken.
EmptiedStays ==
  [][mail = Empty /\ mail' # Empty => Staff \/ \E u \in Users : Late(u)]_vars

\* After a completion the lists follow from each other by the index it used: a
\* second one with that index adds nothing ("idempotent").
Completes ==
  [][\A u \in Users : Adds(u) /\ ~user[u].late =>
       /\ \A c \in mail'.contacts : user[u].idx[c] \in mail'.students \cup {NoStudent}
       /\ \A c \in Contacts : user[u].idx[c] \in mail'.students => c \in mail'.contacts]_vars

=============================================================================
