------------------------------- MODULE SignIn -------------------------------
(***************************************************************************)
(* A student signs in and out with the mini-program, which calls sign      *)
(* (attendance/sign.service.ts) whenever it is opened: the service looks   *)
(* for the student's rows of the day, decides by them whether this is an   *)
(* arrival or a departure, checks where the student is, and writes a row.  *)
(* One student, one day.                                                   *)
(*                                                                         *)
(* The rows are asked for by the student they are linked to.  The link is  *)
(* stored as a list of ids: PostgreSQL compares the text of the list with  *)
(* the id and finds nothing (SqlStore.buildCondition), the table of Feishu *)
(* (external) finds them.                                                  *)
(***************************************************************************)
EXTENDS Naturals, Sequences

CONSTANTS
  Phones,        \* calls of sign that may be under way at one time
  MaxRows,       \* bound: rows written
  MaxDeleted     \* bound: rows that staff delete

SignAssumption == MaxRows \in Nat /\ MaxDeleted \in Nat

VARIABLES
  sql,           \* the store is PostgreSQL
  row,           \* the rows of the day, in the order they were written
  phone,         \* what each call is doing
  deleted,
  met            \* history: a row was written by a call that another overtook

vars == <<sql, row, phone, deleted, met>>

Directions == {"arrival", "departure"}
\* late (history): rows came or went since the call read them.
Idle == [at |-> "idle"]

Rows == {i \in DOMAIN row : row[i] # "deleted"}

Init ==
  /\ sql \in BOOLEAN
  /\ row = <<>>
  /\ phone = [p \in Phones |-> Idle]
  /\ deleted = 0 /\ met = FALSE

\* existingByDirection
Existing == IF sql THEN {} ELSE {row[i] : i \in Rows}

\* Mutant: the direction is decided, but not whether it is there already.
Look_Always(p) ==
  /\ phone[p] = Idle
  /\ phone' = [phone EXCEPT ![p] =
       [at |-> "create", late |-> FALSE,
        dir |-> IF "arrival" \in Existing THEN "departure" ELSE "arrival"]]
  /\ UNCHANGED <<sql, row, deleted, met>>

\* The search; a row of the direction to be written is the answer.
Look(p) ==
  LET dir == IF "arrival" \in Existing THEN "departure" ELSE "arrival" IN
  /\ phone[p] = Idle
  /\ phone' = IF dir \in Existing THEN phone
              ELSE [phone EXCEPT ![p] = [at |-> "create", late |-> FALSE, dir |-> dir]]
  /\ UNCHANGED <<sql, row, deleted, met>>

Changed(p) == [q \in Phones |-> IF q = p \/ phone[q] = Idle
                                THEN Idle ELSE [phone[q] EXCEPT !.late = TRUE]]

\* The zones are read and the row is written, normal or not by where the
\* student is; either call may fail.
Create(p) ==
  /\ phone[p].at = "create" /\ Len(row) < MaxRows
  /\ row' = Append(row, phone[p].dir)
  /\ met' = (met \/ phone[p].late)
  /\ phone' = Changed(p)
  /\ UNCHANGED <<sql, deleted>>

Fails(p) ==
  /\ phone[p].at = "create"
  /\ phone' = [phone EXCEPT ![p] = Idle]
  /\ UNCHANGED <<sql, row, deleted, met>>

\* Staff delete a row on the page of attendances.
Delete(i) ==
  /\ i \in Rows /\ deleted < MaxDeleted
  /\ deleted' = deleted + 1
  /\ row' = [row EXCEPT ![i] = "deleted"]
  /\ phone' = [q \in Phones |-> IF phone[q] = Idle THEN Idle ELSE [phone[q] EXCEPT !.late = TRUE]]
  /\ UNCHANGED <<sql, met>>

Next == (\E p \in Phones : Look(p) \/ Create(p) \/ Fails(p)) \/ (\E i \in DOMAIN row : Delete(i))

Spec == Init /\ [][Next]_vars

-----------------------------------------------------------------------------
TypeInv ==
  /\ Len(row) <= MaxRows
  /\ \A i \in DOMAIN row : row[i] \in Directions \cup {"deleted"}
  /\ deleted \in 0..MaxDeleted

(* docs/student-portal-plan.md:87: a direction is recorded once for a       *)
(* student and day; here as far as no two calls overlap.                    *)
RecordedOnce ==
  met \/ \A i, j \in Rows : i # j => row[i] # row[j]

(* With a store that finds linked rows that is so, and who has left had     *)
(* arrived before, unless staff delete the row.                             *)
RecordedOnceIfFound == ~sql => RecordedOnce
DepartureAfterArrival ==
  met \/ deleted > 0 \/
    \A i \in Rows : row[i] = "departure" => \E j \in Rows : j < i /\ row[j] = "arrival"
=============================================================================
