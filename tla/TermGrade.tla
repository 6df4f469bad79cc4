----------------------------- MODULE TermGrade -----------------------------
(***************************************************************************)
(* The term grades of exam-grade.service.ts, for one batch, class and      *)
(* subject: a roll computes every pupil's total from the mark book and     *)
(* stores what differs; a grade is confirmed, reopened, adjusted by hand,  *)
(* restored and commented.  Every call reads first and writes later, and   *)
(* none holds anything in between.                                         *)
(*                                                                         *)
(* roll stores with bulkInsert, which replaces the row where it exists     *)
(* (sql-store.ts, ON CONFLICT ... data = EXCLUDED.data); the other calls   *)
(* use update, which merges the fields it is given.  What is computed from *)
(* the marks (level, rank, average) travels with the total and is left     *)
(* out.                                                                    *)
(***************************************************************************)
EXTENDS Naturals, FiniteSets

CONSTANTS
  Pupils,       \* the pupils of the class
  Calls,        \* callers that may be under way at one time
  Totals,       \* totals a pupil can have
  MaxCalls,     \* bound: calls begun
  MaxMarks      \* bound: changes of the mark book

NoTotal == 0

GradeAssumption ==
  /\ IsFiniteSet(Pupils) /\ Totals \subseteq Nat \ {NoTotal}
  /\ MaxCalls \in Nat /\ MaxMarks \in Nat

VARIABLES
  mark,      \* what the mark book makes of each pupil now, NoTotal without a mark
  row,       \* the stored grades
  call,      \* what each caller is doing
  calls, marks,
  rolled,    \* history: the total the last roll wrote for a pupil
  muddled    \* history: pupils written by an overtaken call or adjusted twice

vars == <<mark, row, call, calls, marks, rolled, muddled>>
\* A field that the stored row lacks: "absent".  Its state reads as a draft.
Row == [total: Totals, state: {"draft", "confirmed", "absent"},
        source: {"auto", "manual", "absent"}, comment: BOOLEAN,
        before: Totals \cup {NoTotal}]
NoRow == [total |-> NoTotal]

\* plan is what the call is to write, for the pupils of todo; late are those
\* whose row has been written by somebody else since the call read it.
Idle == [kind |-> "idle", todo |-> {}, plan |-> <<>>, late |-> {}]

Init ==
  /\ mark = [p \in Pupils |-> NoTotal]
  /\ row = [p \in Pupils |-> NoRow]
  /\ call = [c \in Calls |-> Idle]
  /\ calls = 0 /\ marks = 0
  /\ rolled = [p \in Pupils |-> NoTotal]
  /\ muddled = {}

Has(p) == row[p] # NoRow
IsConfirmed(p) == Has(p) /\ row[p].state = "confirmed"

(***************************************************************************)
(* Beginning a call: what it reads decides what it will write.             *)
(***************************************************************************)
Begin(c, kind, todo, plan) ==
  /\ call[c] = Idle /\ calls < MaxCalls
  /\ calls' = calls + 1
  /\ call' = IF todo = {} THEN call
             ELSE [call EXCEPT ![c] = [kind |-> kind, todo |-> todo,
                                       plan |-> plan, late |-> {}]]
  /\ UNCHANGED <<mark, row, marks, rolled, muddled>>

\* Mutant: the confirmed grades are rolled too.
ToRoll_Confirmed == {p \in Pupils : mark[p] # NoTotal /\ row[p].total # mark[p]}

\* compute marks the confirmed rows and those whose total is the same; roll
\* leaves them out, and the pupils without a total.
ToRoll == {p \in Pupils : /\ mark[p] # NoTotal
                          /\ ~IsConfirmed(p)
                          /\ ~(Has(p) /\ row[p].total = mark[p])}
RollRead(c) == Begin(c, "roll", ToRoll, [p \in Pupils |->
                       [total |-> mark[p], isNew |-> ~Has(p)]])

ConfirmAllRead(c) ==
  Begin(c, "confirm", {p \in Pupils : Has(p) /\ ~IsConfirmed(p) /\ mark[p] # NoTotal}, <<>>)

\* Mutant: a confirmed grade can be adjusted.
AdjustRead_Unlocked(c, p, t) ==
  Has(p) /\ Begin(c, "adjust", {p}, [total |-> t, before |-> row[p].total])

AdjustRead(c, p, t) ==
  Has(p) /\ ~IsConfirmed(p) /\ Begin(c, "adjust", {p}, [total |-> t, before |-> row[p].total])

RestoreRead(c, p) ==
  /\ Has(p) /\ ~IsConfirmed(p) /\ row[p].before # NoTotal
  /\ Begin(c, "restore", {p}, [total |-> row[p].before])

CommentsRead(c, ps, text) ==
  Begin(c, "comment", {p \in ps : Has(p) /\ ~IsConfirmed(p)}, text)

(***************************************************************************)
(* Writing.  Others that have read these pupils' rows are overtaken.       *)
(***************************************************************************)
Overtake(c, ps, rest) ==
  call' = [d \in Calls |->
             IF d = c THEN rest
             ELSE [call[d] EXCEPT !.late = @ \cup (ps \cap call[d].todo)]]

\* An update of the rows of a call with todo, one at a time.
Step(c, p, new) ==
  /\ row' = [row EXCEPT ![p] = new]
  /\ Overtake(c, {p}, IF call[c].todo = {p} THEN Idle ELSE [call[c] EXCEPT !.todo = @ \ {p},
                                                   !.late = @ \ {p}])
  /\ UNCHANGED <<mark, calls, marks, rolled>>

Muddle(c, p, twice) ==
  muddled' = IF p \in call[c].late \/ twice THEN muddled \cup {p} ELSE muddled

\* One transaction for all rows; only new ones get the defaults.
Rolled(n) == [total |-> n.total,
              state |-> IF n.isNew THEN "draft" ELSE "absent",
              source |-> IF n.isNew THEN "auto" ELSE "absent",
              comment |-> FALSE, before |-> NoTotal]
RollWrite(c) ==
  LET ps == call[c].todo  late == call[c].late IN
  /\ call[c].kind = "roll"
  /\ row' = [p \in Pupils |-> IF p \in ps THEN Rolled(call[c].plan[p]) ELSE row[p]]
  /\ rolled' = [p \in Pupils |-> IF p \in ps THEN call[c].plan[p].total ELSE rolled[p]]
  /\ muddled' = (muddled \ ps) \cup (ps \cap late)
  /\ Overtake(c, ps, Idle)
  /\ UNCHANGED <<mark, calls, marks>>

ConfirmAllStep(c, p) ==
  /\ call[c].kind = "confirm" /\ p \in call[c].todo
  /\ Step(c, p, [row[p] EXCEPT !.state = "confirmed"])
  /\ Muddle(c, p, FALSE)

AdjustWrite(c, p) ==
  /\ call[c].kind = "adjust" /\ p \in call[c].todo
  /\ Step(c, p, [row[p] EXCEPT !.total = call[c].plan.total, !.source = "manual",
                               !.before = call[c].plan.before])
  /\ Muddle(c, p, row[p].source = "manual")

\* Mutant: only the mark of the adjustment goes.
RestoreWrite_KeepsValue(c, p) ==
  /\ call[c].kind = "restore" /\ p \in call[c].todo
  /\ Step(c, p, [row[p] EXCEPT !.source = "auto", !.before = NoTotal])
  /\ Muddle(c, p, FALSE)

RestoreWrite(c, p) ==
  /\ call[c].kind = "restore" /\ p \in call[c].todo
  /\ Step(c, p, [row[p] EXCEPT !.total = call[c].plan.total, !.source = "auto",
                               !.before = NoTotal])
  /\ Muddle(c, p, FALSE)

CommentsStep(c, p) ==
  /\ call[c].kind = "comment" /\ p \in call[c].todo
  /\ Step(c, p, [row[p] EXCEPT !.comment = call[c].plan])
  /\ Muddle(c, p, FALSE)

(***************************************************************************)
(* One update without a reading: confirm and undo.                         *)
(***************************************************************************)
SetState(p, s) ==
  /\ Has(p) /\ row[p].state # s /\ calls < MaxCalls
  /\ row' = [row EXCEPT ![p].state = s]
  /\ calls' = calls + 1
  /\ call' = [d \in Calls |-> [call[d] EXCEPT !.late = @ \cup ({p} \cap call[d].todo)]]
  /\ UNCHANGED <<mark, marks, rolled, muddled>>
Confirm(p) == SetState(p, "confirmed")
Undo(p) == IsConfirmed(p) /\ SetState(p, "draft")

\* A teacher enters scores.
ChangeMark(p) ==
  /\ marks < MaxMarks /\ marks' = marks + 1
  /\ \E t \in Totals \ {mark[p]} : mark' = [mark EXCEPT ![p] = t]
  /\ UNCHANGED <<row, call, calls, rolled, muddled>>

Next ==
  \/ \E c \in Calls :
       \/ RollRead(c) \/ ConfirmAllRead(c) \/ RollWrite(c)
       \/ \E ps \in SUBSET Pupils, text \in BOOLEAN : CommentsRead(c, ps, text)
       \/ \E p \in Pupils :
            \/ \E t \in Totals : AdjustRead(c, p, t)
            \/ RestoreRead(c, p)
            \/ ConfirmAllStep(c, p) \/ AdjustWrite(c, p)
            \/ RestoreWrite(c, p) \/ CommentsStep(c, p)
  \/ \E p \in Pupils : Confirm(p) \/ Undo(p) \/ ChangeMark(p)

Spec == Init /\ [][Next]_vars

TypeInv ==
  /\ mark \in [Pupils -> Totals \cup {NoTotal}]
  /\ \A p \in Pupils : Has(p) => row[p] \in Row
  /\ \A c \in Calls : call[c].late \subseteq call[c].todo

(***************************************************************************)
(* Properties.                                                             *)
(***************************************************************************)
\* The call that wrote p was overtaken: somebody wrote the row after it read.
WasLate(p) == \E c \in Calls : p \in call[c].late /\ p \notin call'[c].todo
Wrote(kind, p) == \E c \in Calls : /\ call[c].kind = kind /\ p \in call[c].todo
                                   /\ p \notin call'[c].todo

\* A confirmed grade (roll: "an already confirmed one is not overwritten";
\* adjust, saveComments: undo it first) changes in nothing but being reopened,
\* except by a call that had read it before it was confirmed.
ConfirmedKept ==
  [][\A p \in Pupils : IsConfirmed(p) /\ row'[p] # row[p] =>
       row'[p] = [row[p] EXCEPT !.state = "draft"] \/ WasLate(p)]_vars

\* A grade that does not count as adjusted by hand carries the total last
\* rolled: rolls, adjustments and restorations lead back to it, unless calls
\* overtook each other or an adjusted grade was adjusted again (adjust then
\* keeps the adjusted value as the automatic one).
AutoIsRolled ==
  \A p \in Pupils : Has(p) /\ row[p].source # "manual" /\ p \notin muddled
                      => row[p].total = rolled[p]

\* A comment changes by saveComments, or is lost to a roll that finds the
\* pupil's total changed.
CommentLostByRollOnly ==
  [][\A p \in Pupils : Has(p) /\ row[p].comment # row'[p].comment =>
       \/ Wrote("comment", p)
       \/ Wrote("roll", p) /\ (row'[p].total # row[p].total \/ WasLate(p))]_vars

\* What roll promises: "teachers' comments are not washed away: of an existing
\* record only the computed fields are updated".  The code does not keep it.
CommentsKept ==
  [][\A p \in Pupils : Has(p) /\ row[p].comment /\ ~row'[p].comment => Wrote("comment", p)]_vars

=============================================================================
