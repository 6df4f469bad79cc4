------------------------------ MODULE Teaching ------------------------------
(***************************************************************************)
(* What runs along the timetable: the tasks that start at their times      *)
(* (ScheduledTasks), the booking of lessons (SessionBooking), the records  *)
(* that go along a table of statuses (Workflow), the way from a lesson     *)
(* that was held to a settlement (Billing), and the students who sign in   *)
(* (SignIn).  They share no record, so a behaviour exercises one of them,  *)
(* chosen at the start, and the states are the sum of the five.            *)
(***************************************************************************)
EXTENDS Integers, TLC

CONSTANTS
    Callers,    \* that run at the same time, in any of the services
    JobSet, FirstMinute, Horizon, MaxStops,
    Lessons, Slots, LessonPage, MaxEdits, MaxMoves,
    Users, Nobody, MaxWrites,
    Rates, MaxBills, BillPage, MaxCalls,
    MaxRows, MaxDeleted

VARIABLES
    active,
    job, now, up, since, tick, ran, slotDay, stops, steady, edited, started, lastRun,
    lesson, move, unsure, edits, moves,
    kind, status, initiator, reviewer, call, writes, byForm,
    att, rate, bill, settle, clerk, calls, regressed,
    sql, row, phone, deleted, met

Tasks   == INSTANCE ScheduledTasks
Booking == INSTANCE SessionBooking WITH Staff <- Callers, PageSize <- LessonPage
Flow    == INSTANCE Workflow
Bills   == INSTANCE Billing WITH Users <- Callers, PageSize <- BillPage, call <- clerk
Sign    == INSTANCE SignIn WITH Phones <- Callers

ASSUME TaskAssumption    == Tasks!JobsAreJobs /\ Tasks!TimesAreNat
ASSUME BookingAssumption == Booking!BookingAssumption
ASSUME FlowAssumption    == Flow!WorkflowAssumption
ASSUME BillsAssumption   == Bills!BillingAssumption
ASSUME SignAssumption    == Sign!SignAssumption

taskVars == <<job, now, up, since, tick, ran, slotDay, stops, steady, edited, started, lastRun>>
bookVars == <<lesson, move, unsure, edits, moves>>
flowVars == <<kind, status, initiator, reviewer, call, writes, byForm>>
billVars == <<att, rate, bill, settle, clerk, calls, regressed>>
signVars == <<sql, row, phone, deleted, met>>
allVars  == <<active, taskVars, bookVars, flowVars, billVars, signVars>>

TeachingInit ==
    /\ active \in {"tasks", "booking", "flow", "bills", "sign"}
    /\ Tasks!Init   /\ (active = "tasks" \/ job = CHOOSE j \in JobSet : TRUE)
    /\ Booking!Init /\ (active = "booking" \/ Booking!Present = {})
    /\ Flow!Init    /\ (active = "flow" \/ kind = "receipt")
    /\ Bills!Init
    /\ active # "bills" =>
         att = "toSubmit" /\ rate = 0 /\ Bills!There = {} /\ settle = Bills!NoSettlement
    /\ Sign!Init    /\ (active = "sign" \/ sql)

TaskStep ==
    /\ active = "tasks" /\ Tasks!Next
    /\ UNCHANGED <<active, bookVars, flowVars, billVars, signVars>>
BookStep ==
    /\ active = "booking" /\ Booking!Next
    /\ UNCHANGED <<active, taskVars, flowVars, billVars, signVars>>
FlowStep ==
    /\ active = "flow" /\ Flow!Next
    /\ UNCHANGED <<active, taskVars, bookVars, billVars, signVars>>
BillStep ==
    /\ active = "bills" /\ Bills!Next
    /\ UNCHANGED <<active, taskVars, bookVars, flowVars, signVars>>
SignStep ==
    /\ active = "sign" /\ Sign!Next
    /\ UNCHANGED <<active, taskVars, bookVars, flowVars, billVars>>

TeachingNext == TaskStep \/ BookStep \/ FlowStep \/ BillStep \/ SignStep

TeachingSpec == TeachingInit /\ [][TeachingNext]_allVars

-----------------------------------------------------------------------------
(* Each keeps what its module promises, stated there in parts.             *)

(* Tasks: a job whose windows do not meet runs at each of its times, inside *)
(* the window and once while the process lives, on any day but that of an  *)
(* edit of its times.                                                      *)
TasksKept ==
    /\ [](active = "tasks" => Tasks!NoTimeMissed)
    /\ Tasks!StartsAreDue

(* Lessons: two confirmed ones clash only if the form wrote one of them or *)
(* the search was blind; confirmations may overlap.  What is over stays so.*)
BookingsKept ==
    /\ [](active = "booking" => Booking!TypeInv /\ Booking!NoDoubleBooking)
    /\ Booking!EndedStays

(* Records and money: a status goes along its table and duties stay apart, *)
(* what is billed was reviewed, a submitted total is frozen, an approval   *)
(* keeps its name, and a student's day is recorded once, all unless calls  *)
(* overtook each other.                                                    *)
LedgersKept ==
    /\ [](active = "flow" => Flow!TypeInv)
    /\ Flow!FollowsTable
    /\ Flow!SeparateDuties
    /\ [](active = "bills" => Bills!TypeInv /\ Bills!BilledWhenReviewed)
    /\ Bills!TotalsFrozen
    /\ Bills!ClosedStays
    /\ Bills!ApproverStays
    /\ [](active = "sign" => Sign!TypeInv /\ Sign!RecordedOnceIfFound /\ Sign!DepartureAfterArrival)

-----------------------------------------------------------------------------
(* For TLC: the jobs and the slots of the instance; callers are alike, and  *)
(* only invariants and action properties are checked.                      *)
Job(freq, at, times, days, catchUp) ==
    [enabled |-> TRUE, freq |-> freq, at |-> at, times |-> times, days |-> days,
     catchUp |-> catchUp]

\* Jobs around midnight, one of each kind and boundary.
MCJobs == {
    Job("quarter", 0, <<>>, {}, 6),
    Job("hourly", 1395, <<>>, {}, 6),            \* from 23:15
    Job("hourly", 0, <<>>, {1}, 6),              \* the second day only
    Job("daily", 1400, <<>>, {}, 6),             \* window cut off by midnight
    Job("daily", 1410, <<>>, {0}, 0),            \* a window of one minute
    Job("several", 1300, <<1300, 1430>>, {}, 2),
    Job("several", 1420, <<>>, {}, 1),           \* no list of times
    Job("several", 1400, <<1410, 1425>>, {}, 6)} \* windows that meet

Slot(from, to, uses) == [date |-> "today", span |-> <<from, to>>, uses |-> uses]

\* The second lies within the first, the third has no times that can be read.
MCSlots == {Slot(540, 660, {"teacher"}), Slot(570, 600, {"teacher", "place"}),
            Slot(0, 0, {"place"})}

CallerSymmetry == Permutations(Callers)
=============================================================================
