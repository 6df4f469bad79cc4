------------------------------ MODULE Services ------------------------------
(***************************************************************************)
(* Five services in which callers overlap: the file of AI automations      *)
(* (Automations), the term grades of a class (TermGrade), the support      *)
(* cases of a student (SupportCase), free meeting rooms (RoomBusy) and the *)
(* links of archived mails (MailLinks).  They share no record, so a        *)
(* behaviour exercises one of them, chosen at the start, and the states    *)
(* are the sum of the five.                                                *)
(***************************************************************************)
EXTENDS TLC

CONSTANTS
    Requests,   \* that run at the same time, in any of the services
    None,
    Autos, First, IdleOnly, Runs, Admins, Heal, Torn, MaxEdits, MaxStops,
    Students, Totals, MaxGradeCalls, MaxMarks,
    MaxSupportCalls,
    Rooms, Opens, TTL, Retry, MaxTime, MaxAsks, MaxSyncs, MaxFaults,
    Contacts, MaxLinkEdits, MaxAlls, MaxMatches

VARIABLES
    active,
    file, call, admin, run, cron, pending, swept, toHeal, boot, night, old, edits, stops, clash,
    mark, row, grading, calls, marks, rolled, muddled,
    cases, doing, begun, doubled,
    time, local, sync, permitted, checkedAt, cache, fetch, visitor, asks, syncs, faults, tried, unsettled,
    mail, studentOf, contactIdx, user, linkEdits, alls, matches

Autom == INSTANCE Automations
Grade == INSTANCE TermGrade
           WITH Pupils <- Students, Calls <- Requests, MaxCalls <- MaxGradeCalls, call <- grading
Help  == INSTANCE SupportCase WITH Staff <- Requests, MaxCalls <- MaxSupportCalls
Room  == INSTANCE RoomBusy WITH Visitors <- Requests
Links == INSTANCE MailLinks
           WITH Users <- Requests, NoStudent <- None, MaxEdits <- MaxLinkEdits,
                index <- contactIdx, edits <- linkEdits

ASSUME AutomAssumption == Autom!SetsOfAutos /\ Autom!BoundsAreNat /\ Autom!NamesAreApart
ASSUME GradeAssumption == Grade!GradeAssumption
ASSUME HelpAssumption  == Help!SupportAssumption
ASSUME RoomAssumption  == Room!RoomAssumption
ASSUME LinksAssumption == Links!LinksAssumption

automVars == <<file, call, admin, run, cron, pending, swept, toHeal, boot, night, old,
               edits, stops, clash>>
gradeVars == <<mark, row, grading, calls, marks, rolled, muddled>>
helpVars  == <<cases, doing, begun, doubled>>
roomVars  == <<time, local, sync, permitted, checkedAt, cache, fetch, visitor, asks, syncs,
               faults, tried, unsettled>>
linkVars  == <<mail, studentOf, contactIdx, user, linkEdits, alls, matches>>
allVars   == <<active, automVars, gradeVars, helpVars, roomVars, linkVars>>

ServicesInit ==
    /\ active \in {"automations", "grades", "support", "rooms", "links"}
    /\ Autom!Init /\ Grade!Init /\ Help!Init
    /\ Room!Init  /\ (active = "rooms" \/ permitted)
    /\ Links!Init /\ (active = "links" \/ \A c \in Contacts : studentOf[c] = None)

AutomStep ==
    /\ active = "automations" /\ Autom!Next
    /\ UNCHANGED <<active, gradeVars, helpVars, roomVars, linkVars>>
GradeStep ==
    /\ active = "grades" /\ Grade!Next
    /\ UNCHANGED <<active, automVars, helpVars, roomVars, linkVars>>
HelpStep ==
    /\ active = "support" /\ Help!Next
    /\ UNCHANGED <<active, automVars, gradeVars, roomVars, linkVars>>
RoomStep ==
    /\ active = "rooms" /\ Room!Next
    /\ UNCHANGED <<active, automVars, gradeVars, helpVars, linkVars>>
LinkStep ==
    /\ active = "links" /\ Links!Next
    /\ UNCHANGED <<active, automVars, gradeVars, helpVars, roomVars>>

ServicesNext == AutomStep \/ GradeStep \/ HelpStep \/ RoomStep \/ LinkStep

ServicesSpec == ServicesInit /\ [][ServicesNext]_allVars

-----------------------------------------------------------------------------
(* Each service keeps what its module promises, stated there in parts.     *)

(* Automations: the page, the timers and the file agree from a start until *)
(* two calls meet on the file, failed saves included; the file changes by  *)
(* whole edits, whatever meets, unless a call is overtaken or cut off.     *)
AutomationsKept ==
    /\ [](active = "automations" => Autom!AutomationsSafe)
    /\ Autom!WholeEditsOnly

(* Term grades: what is confirmed, adjusted or commented is only lost to a *)
(* call that was overtaken, or to the roll's replacing of the row.         *)
GradesKept ==
    /\ [](active = "grades" => Grade!TypeInv /\ Grade!AutoIsRolled)
    /\ Grade!ConfirmedKept
    /\ Grade!CommentLostByRollOnly

(* Support cases: one open row unless calls overlapped, ended cases stay   *)
(* ended, a dismissal hides, and can be taken back where there is one row. *)
SupportKept ==
    /\ [](active = "support" => Help!TypeInv /\ Help!OneOpenRow)
    /\ Help!EndedStays
    /\ Help!DismissHides
    /\ Help!RestoreOfOne

(* Meeting rooms: a room that was not read is told free only on a grey     *)
(* page, or if the source itself had no answer for it; a room not asked    *)
(* about only around a sync; and no answer is too old.                     *)
RoomsKept ==
    /\ [](active = "rooms" => Room!TypeInv /\ Room!FreeWasRead /\ Room!NewRoomsAsked)
    /\ Room!ToldInTime

(* Mail links: the service only adds, completes in one go, and leaves a    *)
(* mail that staff have emptied alone.                                     *)
MailLinksKept ==
    /\ [](active = "links" => Links!TypeInv)
    /\ Links!OnlyAdds
    /\ Links!EmptiedStays
    /\ Links!Completes

-----------------------------------------------------------------------------
(* For TLC: requests are interchangeable, and so are students; only        *)
(* invariants and action properties are checked.                           *)
NameSymmetry == Permutations(Requests) \cup Permutations(Students)
=============================================================================
