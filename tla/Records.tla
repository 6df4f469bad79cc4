------------------------------- MODULE Records ------------------------------
(***************************************************************************)
(* Five places where requests read shared records, work on what they read  *)
(* and write it back with no transaction around it: the student numbers    *)
(* (StudentNo), the options of a field (FieldOptions), a scan of a table   *)
(* page by page (TableScan), the links of contacts to students             *)
(* (WeilingLink) and the roles (RoleConfig).  They share no record, so a   *)
(* behaviour exercises one of them, chosen at the start, and the others    *)
(* stay empty: the states are the sum of the five.                         *)
(***************************************************************************)
EXTENDS TLC

CONSTANTS
    Requests,   \* that run at the same time, in any of the places below
    MaxStudents, MaxNo, Retry, Coded,
    Options,
    PageSize, MaxPages, MaxScanned,
    Contacts, Students,
    BuiltIn, Custom, MaxConfigs, MaxRoleEdits, MaxBlanks, MaxRoleStops

VARIABLES
    active,
    rule, no, made, account, op, raced,
    options, cache, assigned, task, sticky,
    rows, written, scan, kept, inserted, deleted, moved,
    contact, recruiter, syncing, match, enrol, cleared,
    configs, engine, server, job, drift, roleEdits, blanks, roleStops

Numbers == INSTANCE StudentNo WITH Staff <- Requests
Field   == INSTANCE FieldOptions WITH Tasks <- Requests
Table   == INSTANCE TableScan WITH MaxRows <- MaxScanned
Links   == INSTANCE WeilingLink WITH Runs <- Requests, run <- match
Roles   == INSTANCE RoleConfig
             WITH Editors <- Requests,
                  MaxRows <- MaxConfigs, MaxEdits <- MaxRoleEdits, MaxStops <- MaxRoleStops,
                  rows <- configs, boot <- server, edits <- roleEdits, stops <- roleStops

ASSUME NumbersAssumption == Numbers!NosAreFinite
ASSUME TableAssumption   == Table!ScanBounds
ASSUME LinksAssumption   == Links!NoneApart
ASSUME RolesAssumption   == Roles!RoleBounds /\ Roles!NamesApart

numberVars == <<rule, no, made, account, op, raced>>
fieldVars  == <<options, cache, assigned, task, sticky>>
tableVars  == <<rows, written, scan, kept, inserted, deleted, moved>>
linkVars   == <<contact, recruiter, syncing, match, enrol, cleared>>
roleVars   == <<configs, engine, server, job, drift, roleEdits, blanks, roleStops>>
allVars    == <<active, numberVars, fieldVars, tableVars, linkVars, roleVars>>

RecordsInit ==
    /\ active \in {"numbers", "field", "table", "links", "roles"}
    /\ Numbers!Init /\ (active = "numbers" \/ rule = [collects |-> TRUE, conflict |-> "error"])
    /\ Field!Init   /\ (active = "field" \/ options = {})
    /\ Table!Init   /\ (active = "table" \/ rows = {})
    /\ Links!Init   /\ (active = "links" \/ \A c \in Contacts : contact[c].hint = Links!NoStudent)
    /\ Roles!Init   /\ (active = "roles" \/ configs = <<>>)

NumberStep ==
    /\ active = "numbers" /\ Numbers!Next
    /\ UNCHANGED <<active, fieldVars, tableVars, linkVars, roleVars>>
FieldStep ==
    /\ active = "field" /\ Field!Next
    /\ UNCHANGED <<active, numberVars, tableVars, linkVars, roleVars>>
TableStep ==
    /\ active = "table" /\ Table!Next
    /\ UNCHANGED <<active, numberVars, fieldVars, linkVars, roleVars>>
LinkStep ==
    /\ active = "links" /\ Links!Next
    /\ UNCHANGED <<active, numberVars, fieldVars, tableVars, roleVars>>
RoleStep ==
    /\ active = "roles" /\ Roles!Next
    /\ UNCHANGED <<active, numberVars, fieldVars, tableVars, linkVars>>

RecordsNext == NumberStep \/ FieldStep \/ TableStep \/ LinkStep \/ RoleStep

RecordsSpec == RecordsInit /\ [][RecordsNext]_allVars

-----------------------------------------------------------------------------
(* Each place keeps what its module promises, stated there in parts.       *)

(* Numbers of students: unique, kept by the batch, and an account given by *)
(* name only to who has its number and not taken from who has it, as long  *)
(* as requests do not overtake each other.                                 *)
NumbersKept ==
    /\ [](active = "numbers" => Numbers!TypeInv /\ Numbers!NumbersUnique)
    /\ Numbers!FillKeepsNumbers
    /\ Numbers!AccountsFollowNumbers

(* Options of a field: no stale cache without a cause, no option lost by   *)
(* requests that do not overlap.                                           *)
OptionsKept ==
    /\ [](active = "field" => Field!TypeInv /\ Field!StaleHasCause)
    /\ Field!NothingLost

(* A scan by offsets misses and repeats no more of the rows that stayed    *)
(* than came, went and moved meanwhile.                                    *)
ScanBounded ==
    active = "table" => Table!TypeInv /\ Table!MissedBounded /\ Table!RepeatedBounded

(* Links of contacts: staff win over runs, links survive the sync, and a   *)
(* cleared teacher stays cleared.                                          *)
LinksKept ==
    /\ [](active = "links" => Links!TypeInv /\ Links!ClearedStays)
    /\ Links!StaffWin
    /\ Links!LinksSurvive

(* Roles: the administrator can do everything, the engine has what is      *)
(* stored, and a role changes by edits of that role.                       *)
RolesKept ==
    /\ [](active = "roles" => Roles!TypeInv /\ Roles!AdminIsFull /\ Roles!EngineFollows)
    /\ Roles!RolesChangeByEdit

-----------------------------------------------------------------------------
(* For TLC: requests are interchangeable, and so are students; only        *)
(* invariants and action properties are checked.                           *)
NameSymmetry == Permutations(Requests) \cup Permutations(Students)
=============================================================================
