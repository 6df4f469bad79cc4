---------------------------- MODULE SupportCase ----------------------------
(***************************************************************************)
(* The support cases of one student (student-support.service.ts): save     *)
(* updates the student's open row or creates one, resolve is a save with a *)
(* status, dismiss marks a row so that the student is hidden from the      *)
(* board, or takes the mark off again.  Each reads the table, decides, and *)
(* writes.                                                                 *)
(*                                                                         *)
(* A row made by dismiss alone has no status, which counts as not open.    *)
(***************************************************************************)
EXTENDS Naturals, Sequences, FiniteSets

CONSTANTS
  Staff,       \* callers that may be under way at one time
  MaxCalls     \* bound: calls begun

SupportAssumption == MaxCalls \in Nat

VARIABLES
  cases,       \* the student's rows, oldest first
  doing,       \* what each caller has decided to do
  begun,
  doubled      \* history: the rows opened by a call that had been overtaken

vars == <<cases, doing, begun, doubled>>

Statuses == {"blank", "open", "ended"}
Nothing == 0
\* row is the row to write, Nothing for a new one; late (history) says that
\* somebody else has written since the caller read.
Free == [what |-> "free", row |-> Nothing, status |-> "", late |-> FALSE]

Init == cases = <<>> /\ doing = [s \in Staff |-> Free] /\ begun = 0 /\ doubled = {}

Rows == 1..Len(cases)
supportIsOpen(r) == cases[r].status = "open"
OpenRows == {r \in Rows : supportIsOpen(r)}
dismissedOf == \E r \in Rows : cases[r].gone

\* The row among rs that was written last; none of none.
Latest(rs) == IF rs = {} THEN Nothing
              ELSE CHOOSE r \in rs : \A o \in rs : cases[o].touched <= cases[r].touched
Newest(rs) == IF rs = {} THEN Nothing ELSE CHOOSE r \in rs : \A o \in rs : o <= r

\* The time of a write: the number of writes so far.
Now == begun - Cardinality({s \in Staff : doing[s] # Free})

Decide(s, what, row, status) ==
  /\ doing[s] = Free /\ begun < MaxCalls /\ begun' = begun + 1
  /\ doing' = [doing EXCEPT ![s] = [what |-> what, row |-> row, status |-> status,
                                    late |-> FALSE]]
  /\ UNCHANGED <<cases, doubled>>

\* Mutant: a save goes on with a row that has ended.
SaveTarget_AnyRow == Latest(Rows)

\* save; a status that is not given leaves the row's own, and makes a new row open.
SaveTarget == Latest(OpenRows)
Save(s, status) == Decide(s, "save", SaveTarget, status)

\* Mutant: a student without an open row gets a row of its own.
DismissTarget_OpenOnly == Newest(OpenRows)

\* dismiss: the open row (the newest, as the table is read newest first), else
\* the newest row, else a row of its own.
DismissTarget == IF OpenRows # {} THEN Newest(OpenRows) ELSE Newest(Rows)
Dismiss(s, on) ==
  Decide(s, IF on THEN "dismiss" ELSE "restore", DismissTarget, "")

\* The writing of a caller: everybody else under way is overtaken.
Done(s) == doing' = [d \in Staff |-> IF d = s \/ doing[d] = Free THEN Free
                                     ELSE [doing[d] EXCEPT !.late = TRUE]]

\* Mutant: a save without a status opens the row.
WriteSave_Reopens(s) ==
  LET r == doing[s].row  st == doing[s].status IN
  /\ doing[s].what = "save" /\ Done(s)
  /\ cases' = IF r # Nothing
              THEN [cases EXCEPT ![r].status = IF st = "" THEN "open" ELSE st]
              ELSE Append(cases, [status |-> IF st = "" THEN "open" ELSE st,
                                  gone |-> FALSE, touched |-> Now])
  /\ UNCHANGED <<begun, doubled>>

WriteSave(s) ==
  LET r == doing[s].row  st == doing[s].status IN
  /\ doing[s].what = "save" /\ Done(s)
  /\ IF r # Nothing
     THEN cases' = [cases EXCEPT ![r].status = IF st = "" THEN @ ELSE st, ![r].touched = Now]
     ELSE cases' = Append(cases, [status |-> IF st = "" THEN "open" ELSE st,
                                  gone |-> FALSE, touched |-> Now])
  /\ doubled' = IF ~doing[s].late THEN doubled
                ELSE doubled \cup {IF r # Nothing THEN r ELSE Len(cases) + 1}
  /\ UNCHANGED begun

\* The row of dismiss has a fixed name: where it is there already it is replaced.
Own == {r \in Rows : cases[r].status = "blank"}
WriteDismiss(s) ==
  LET r == doing[s].row  on == doing[s].what = "dismiss" IN
  /\ doing[s].what \in {"dismiss", "restore"} /\ Done(s)
  /\ cases' = IF r # Nothing
              THEN [cases EXCEPT ![r].gone = on, ![r].touched = Now]
              ELSE IF Own # {}
              THEN [cases EXCEPT ![Newest(Own)].gone = on, ![Newest(Own)].touched = Now]
              ELSE Append(cases, [status |-> "blank", gone |-> on, touched |-> Now])
  /\ UNCHANGED <<begun, doubled>>

Next == \E s \in Staff :
  \/ \E status \in {"", "open", "ended"} : Save(s, status)
  \/ \E on \in BOOLEAN : Dismiss(s, on)
  \/ WriteSave(s) \/ WriteDismiss(s)

Spec == Init /\ [][Next]_vars

TypeInv ==
  /\ \A r \in Rows : cases[r].status \in Statuses /\ cases[r].touched <= begun
  /\ \A s \in Staff : doing[s].row \in Rows \cup {Nothing}
  /\ doubled \subseteq Rows

(***************************************************************************)
(* Properties.                                                             *)
(***************************************************************************)
\* "A student has one open row at a time" (save): a second one comes only from
\* calls that overlapped, and each of those was made by an overtaken call.
OneOpenRow == \A r, o \in OpenRows : r # o => doubled \cap {r, o} # {}

Writes(s) == doing[s] # Free /\ doing'[s] = Free

\* A case that has ended is not opened again, except by a save that had read it
\* open; nor does a save touch the mark of a dismissal.
EndedStays ==
  [][\A r \in Rows :
       /\ cases[r].status = "ended" /\ cases'[r].status = "open" =>
            \E s \in Staff : Writes(s) /\ doing[s].row = r /\ doing[s].late
       /\ cases[r].gone # cases'[r].gone =>
            \E s \in Staff : Writes(s) /\ doing[s].what # "save"]_vars

\* A dismissal hides the student at once, whatever rows there are.
DismissHides ==
  [][\A s \in Staff : Writes(s) /\ doing[s].what = "dismiss" => dismissedOf']_vars

\* A student with a single row comes back when the dismissal is taken off.
RestoreOfOne ==
  [][\A s \in Staff : Writes(s) /\ doing[s].what = "restore" /\ ~doing[s].late
       /\ Len(cases) = 1 => ~dismissedOf']_vars

\* "Not deleted: on = false brings the student back" (dismiss).  The code does
\* not keep it: the mark may be on another row than the one restored.
RestoreRestores ==
  [][\A s \in Staff : Writes(s) /\ doing[s].what = "restore" /\ ~doing[s].late
       => ~dismissedOf']_vars

=============================================================================
