--------------------------- MODULE SessionBooking ---------------------------
(***************************************************************************)
(* The booking of lessons (schedule/session.service.ts, with the rules of  *)
(* packages/domain/src/conflict.ts): a lesson has a status, a date, a span *)
(* of minutes, and uses a teacher, a place and a class.  Confirming one    *)
(* first looks for lessons it clashes with, and writes the status in a     *)
(* call of its own; creating and editing look for nothing.                 *)
(***************************************************************************)
EXTENDS Integers, FiniteSets

CONSTANTS
  Lessons,       \* a set of numbers: a later one is created later
  Slots,         \* of a lesson: [date, span, uses]; a span is <<from, to>>
  Staff,         \* callers that may be under way at one time
  PageSize,      \* lessons the search for clashes looks at (200)
  MaxEdits,      \* bound: lessons created, edited or removed
  MaxMoves       \* bound: calls of transition

NoDate == "none"
BookingAssumption ==
  /\ Lessons \subseteq Nat /\ IsFiniteSet(Lessons) /\ PageSize \in Nat
  /\ \A s \in Slots : s.span \in (0..1439) \X (0..1439)
  /\ MaxEdits \in Nat /\ MaxMoves \in Nat

VARIABLES
  lesson,        \* the rows of the table
  move,          \* what each caller of transition is doing
  unsure,        \* history: lessons confirmed without a full view of the others
  edits, moves

vars == <<lesson, move, unsure, edits, moves>>

\* Mutant: a cancelled lesson may be taken up again.
SESSION_TRANSITIONS_Reopens ==
  [pending   |-> {"confirmed", "cancelled", "moved"},
   confirmed |-> {"done", "cancelled", "moved"},
   done      |-> {},
   cancelled |-> {"pending"},
   moved     |-> {"pending"}]

SESSION_TRANSITIONS ==
  [pending   |-> {"confirmed", "cancelled", "moved"},
   confirmed |-> {"done", "cancelled", "moved"},
   done      |-> {},
   cancelled |-> {},
   moved     |-> {"pending"}]
Statuses == DOMAIN SESSION_TRANSITIONS

NoLesson == [status |-> "absent"]
Present == {l \in Lessons : lesson[l] # NoLesson}
\* Of a call, as history: late, a lesson was created, edited or removed since
\* its read; blind, its search did not see all; stale, its lesson was written.
Idle == [at |-> "idle"]

Init ==
  /\ lesson \in [Lessons -> {NoLesson} \cup {[status |-> "pending", slot |-> s] : s \in Slots}]
  /\ move = [c \in Staff |-> Idle]
  /\ unsure = {} /\ edits = 0 /\ moves = 0

(***************************************************************************)
(* preflightSessionConflicts.  A span that cannot be read, or ends before  *)
(* it begins, overlaps with every other.                                   *)
(***************************************************************************)
Valid(span) == span[1] < span[2]
\* Mutant: a lesson that lies within another does not overlap with it.
Overlap_StartsWithin(s, e) ==
  \/ ~Valid(s) \/ ~Valid(e)
  \/ e[1] <= s[1] /\ s[1] < e[2]
\* Mutant: a span that cannot be read overlaps with nothing.
Overlap_FailsOpen(s, e) ==
  Valid(s) /\ Valid(e) /\ s[1] < e[2] /\ e[1] < s[2]

Overlap(s, e) ==
  \/ ~Valid(s) \/ ~Valid(e)
  \/ s[1] < e[2] /\ e[1] < s[2]

Hard(draft, id, others) ==
  IF draft.date = NoDate THEN {}
  ELSE {l \in others : /\ l # id
                       /\ lesson[l].slot.date = draft.date
                       /\ lesson[l].slot.uses \cap draft.uses # {}
                       /\ Overlap(draft.span, lesson[l].slot.span)}

(***************************************************************************)
(* precheckConflicts reads one page of the lessons that are not cancelled, *)
(* the latest created first, and no other.                                 *)
(***************************************************************************)
NotCancelled == {l \in Present : lesson[l].status # "cancelled"}
FirstPage(ls) == {l \in ls : Cardinality({k \in ls : k > l}) < PageSize}
\* Mutant: only confirmed lessons stand in the way of one.
Searched_Confirmed == FirstPage({l \in Present : lesson[l].status = "confirmed"})

Searched == FirstPage(NotCancelled)

-----------------------------------------------------------------------------
(* transition: the read with the check of the table, the search if the     *)
(* lesson is to be confirmed, the write.                                   *)

Read(c, l, to) ==
  /\ move[c] = Idle /\ moves < MaxMoves
  /\ l \in Present
  /\ moves' = moves + 1
  /\ move' = IF to \in SESSION_TRANSITIONS[lesson[l].status]
             THEN [move EXCEPT ![c] =
                     [at |-> IF to = "confirmed" THEN "search" ELSE "write",
                      id |-> l, to |-> to, draft |-> lesson[l].slot,
                      late |-> FALSE, blind |-> FALSE, stale |-> FALSE]]
             ELSE move
  /\ UNCHANGED <<lesson, unsure, edits>>

\* The search; a clash is an error.
Search(c) ==
  /\ move[c].at = "search"
  /\ move' = [move EXCEPT ![c] =
                IF Hard(move[c].draft, move[c].id, Searched) = {}
                THEN [@ EXCEPT !.at = "write", !.blind = Cardinality(NotCancelled) > PageSize]
                ELSE Idle]
  /\ UNCHANGED <<lesson, unsure, edits, moves>>

\* An update of a row that is gone changes nothing.
Write(c) ==
  LET m == move[c]
      exists == lesson[m.id] # NoLesson
  IN
  /\ m.at = "write"
  /\ lesson' = IF exists THEN [lesson EXCEPT ![m.id].status = m.to] ELSE lesson
  /\ move' = [d \in Staff |->
                IF d = c THEN Idle
                ELSE IF move[d] # Idle /\ move[d].id = m.id
                THEN [move[d] EXCEPT !.stale = TRUE] ELSE move[d]]
  /\ unsure' = IF m.to = "confirmed" /\ (m.late \/ m.blind \/ m.stale)
               THEN unsure \cup {m.id}
               ELSE IF m.to = "confirmed" THEN unsure \ {m.id} ELSE unsure
  /\ UNCHANGED <<edits, moves>>

Edited(ls) ==
  /\ edits < MaxEdits /\ edits' = edits + 1
  /\ move' = [c \in Staff |-> IF move[c] = Idle THEN Idle
                              ELSE [move[c] EXCEPT !.late = TRUE,
                                                   !.stale = @ \/ move[c].id \in ls]]
  /\ unsure' = unsure \cup ls
  /\ UNCHANGED moves

\* create: a lesson that is given no status is pending.
Create ==
  \E l \in Lessons \ Present, s \in Slots, st \in Statuses :
    /\ \A k \in Present : k < l
    /\ lesson' = [lesson EXCEPT ![l] = [status |-> st, slot |-> s]]
    /\ Edited({l})

\* update: any field of the form, the status among them.
Update(l) ==
  \E s \in Slots, st \in Statuses :
    /\ l \in Present /\ lesson[l] # [status |-> st, slot |-> s]
    /\ lesson' = [lesson EXCEPT ![l] = [status |-> st, slot |-> s]]
    /\ Edited({l})

Archive(l) ==
  /\ l \in Present
  /\ lesson' = [lesson EXCEPT ![l] = NoLesson]
  /\ Edited({l})

Next ==
  \/ \E c \in Staff : \/ \E l \in Lessons, to \in Statuses : Read(c, l, to)
                      \/ Search(c)
                      \/ Write(c)
  \/ Create
  \/ \E l \in Lessons : Update(l) \/ Archive(l)

Spec == Init /\ [][Next]_vars

-----------------------------------------------------------------------------
TypeInv ==
  /\ \A l \in Present : lesson[l].status \in Statuses /\ lesson[l].slot \in Slots
  /\ \A c \in Staff : move[c].at \in {"idle", "search", "write"}
  /\ unsure \subseteq Lessons
  /\ edits \in 0..MaxEdits /\ moves \in 0..MaxMoves

(* What it means that two lessons cannot both take place: on one day they   *)
(* use the same teacher, place or class, and share a minute, as far as one  *)
(* can tell from their times.                                               *)
Minutes(span) == IF Valid(span) THEN span[1]..(span[2] - 1) ELSE 0..1439
Clash(k, l) ==
  /\ lesson[k].slot.date = lesson[l].slot.date /\ lesson[k].slot.date # NoDate
  /\ lesson[k].slot.uses \cap lesson[l].slot.uses # {}
  /\ Minutes(lesson[k].slot.span) \cap Minutes(lesson[l].slot.span) # {}

(* Two confirmed lessons clash only if one of them was written by the form, *)
(* or confirmed while the form wrote a lesson, or while there were more     *)
(* than a page of them, or by a call that had read the lesson before        *)
(* another call wrote it (two calls that cancel may let two through).       *)
(* Confirmations that only overlap with each other are no danger, since a   *)
(* pending lesson stands in the way like a confirmed one.                   *)
NoDoubleBooking ==
  \A k, l \in Present :
    (k # l /\ lesson[k].status = "confirmed" /\ lesson[l].status = "confirmed" /\ Clash(k, l))
      => {k, l} \cap unsure # {}

(* A lesson that is over or cancelled changes its status by the form only,  *)
(* or by a transition that had read it before it ended.                     *)
EndedStays ==
  [][\A l \in Present :
       (lesson[l].status \in {"done", "cancelled"} /\ lesson'[l] # NoLesson
          /\ lesson'[l].status # lesson[l].status) =>
         \/ edits' # edits
         \/ \E c \in Staff : move[c].at = "write" /\ move[c].id = l /\ move[c].stale]_vars
=============================================================================
