----------------------------- MODULE TableScan ------------------------------
(***************************************************************************)
(* Reading a whole table page by page, as the lists, the number rule and   *)
(* the Weiling matching do: each page counts the rows, then takes PageSize *)
(* of them from an offset, in the order of the listing, and the loop ends  *)
(* when the count says there is no more, or after MaxPages pages.  Rows    *)
(* come and go between any two queries, and move: lists are sorted by a    *)
(* field that edits change (the time of the last one), and rows created at *)
(* one time have no order of their own.                                    *)
(***************************************************************************)
EXTENDS Integers, Sequences, FiniteSets

CONSTANTS
    PageSize,
    MaxPages,   \* the loop's guard
    MaxRows     \* bound on the places of the order, and on the rows made and moved

ScanBounds == PageSize \in Nat \ {0} /\ MaxPages \in Nat \ {0} /\ MaxRows \in Nat

VARIABLES
    rows,       \* the table: where its rows are in the order, the first highest
    written,    \* rows made and moves so far
    scan,       \* the scan: its step, the offset, the count, what it returned
    kept,       \* rows that have been in their places since the scan began
    inserted, deleted, moved  \* how many came, went and changed place since

vars == <<rows, written, scan, kept, inserted, deleted, moved>>

Rows  == 1..MaxRows
Steps == {"idle", "count", "select", "done"}

TypeInv ==
    /\ rows \subseteq Rows
    /\ written \in 0..MaxRows
    /\ scan.step \in Steps
    /\ scan.offset \in 0..(PageSize * MaxPages)
    /\ scan.total \in 0..MaxRows
    /\ scan.got \in Seq(Rows)
    /\ scan.pages \in 0..MaxPages
    /\ kept \subseteq rows
    /\ inserted \in 0..MaxRows /\ deleted \in 0..MaxRows /\ moved \in 0..MaxRows

Init ==
    /\ rows \in SUBSET Rows
    /\ written = Cardinality(rows)
    /\ scan = [step |-> "idle", offset |-> 0, total |-> 0, got |-> <<>>, pages |-> 0]
    /\ kept = {} /\ inserted = 0 /\ deleted = 0 /\ moved = 0

-----------------------------------------------------------------------------
Begin ==
    /\ scan.step \in {"idle", "done"}
    /\ scan' = [step |-> "count", offset |-> 0, total |-> 0, got |-> <<>>, pages |-> 0]
    /\ kept' = rows /\ inserted' = 0 /\ deleted' = 0 /\ moved' = 0
    /\ UNCHANGED <<rows, written>>

(* search: SELECT count( * ). *)
Count ==
    /\ scan.step = "count"
    /\ scan' = [scan EXCEPT !.step = "select", !.total = Cardinality(rows)]
    /\ UNCHANGED <<rows, written, kept, inserted, deleted, moved>>

(* The rows at places offset + 1 up to offset + PageSize, in order. *)
Place(r) == Cardinality({s \in rows : s >= r})
Page(offset) ==
    LET on == {r \in rows : Place(r) \in (offset + 1)..(offset + PageSize)}
    IN  [i \in 1..Cardinality(on) |-> CHOOSE r \in on : Place(r) = offset + i]

(* Mutant: the next page starts one row before where this one ended. *)
Select_OffByOne ==
    /\ scan.step = "select"
    /\ LET page == Page(scan.offset)
           next == scan.offset + Len(page)
           more == next < scan.total /\ scan.pages + 1 < MaxPages
       IN  scan' = [scan EXCEPT !.step = IF more THEN "count" ELSE "done",
                                !.offset = IF more /\ next > 0 THEN next - 1 ELSE next,
                                !.got = @ \o page, !.pages = @ + 1]
    /\ UNCHANGED <<rows, written, kept, inserted, deleted, moved>>

(* Mutant: a page that is not the first starts a page too late. *)
Select_FullPages ==
    /\ scan.step = "select"
    /\ LET page == Page(scan.offset)
           next == scan.offset + PageSize + 1
           more == next < scan.total /\ scan.pages + 1 < MaxPages
       IN  scan' = [scan EXCEPT !.step = IF more THEN "count" ELSE "done",
                                !.offset = IF more THEN next ELSE 0,
                                !.got = @ \o page, !.pages = @ + 1]
    /\ UNCHANGED <<rows, written, kept, inserted, deleted, moved>>

(* search: the page, and whether the count says that there is more. *)
Select ==
    /\ scan.step = "select"
    /\ LET page == Page(scan.offset)
           next == scan.offset + Len(page)
           more == next < scan.total /\ scan.pages + 1 < MaxPages
       IN  scan' = [scan EXCEPT !.step = IF more THEN "count" ELSE "done",
                                !.offset = next,
                                !.got = @ \o page, !.pages = @ + 1]
    /\ UNCHANGED <<rows, written, kept, inserted, deleted, moved>>

(* A record is created: newest, or somewhere else in a list sorted by       *)
(* another field.                                                           *)
Insert(x) ==
    /\ written < MaxRows
    /\ x \notin rows
    /\ rows' = rows \cup {x}
    /\ written' = written + 1
    /\ inserted' = inserted + 1
    /\ UNCHANGED <<scan, kept, deleted, moved>>

Delete(r) ==
    /\ r \in rows
    /\ rows' = rows \ {r}
    /\ kept' = kept \ {r}
    /\ deleted' = deleted + 1
    /\ UNCHANGED <<written, scan, inserted, moved>>

(* The field that a list is sorted by is edited, or the database puts a row *)
(* after others of the same time that it was before.                        *)
Move(r, x) ==
    /\ written < MaxRows
    /\ r \in rows /\ x \notin rows
    /\ rows' = (rows \ {r}) \cup {x}
    /\ kept' = kept \ {r}
    /\ written' = written + 1
    /\ moved' = moved + 1
    /\ UNCHANGED <<scan, inserted, deleted>>

Next ==
    \/ Begin \/ Count \/ Select
    \/ \E r \in Rows : Insert(r) \/ Delete(r)
    \/ \E r, x \in Rows : Move(r, x)

Spec == Init /\ [][Next]_vars

-----------------------------------------------------------------------------
Returned == {scan.got[i] : i \in DOMAIN scan.got}
Missed   == kept \ Returned
Repeated == Len(scan.got) - Cardinality(Returned)

(* Of the rows that stayed in their places, a finished scan misses no more  *)
(* than rows came, went and moved while it ran: one deleted or moved out of *)
(* the pages already read lets one unread row slip into them, one inserted  *)
(* after the last count hides one behind it.  A scan that nothing disturbs  *)
(* returns the table (when its guard did not end it).  (A row that moves    *)
(* may be missed itself: count it with the moves.)  sql-store.ts:224-251    *)
MissedBounded ==
    scan.step = "done" /\ scan.pages < MaxPages => Cardinality(Missed) <= inserted + deleted + moved

(* It returns no place twice unless rows came or moved, and no more such    *)
(* repetitions than that (but for the rows that moved themselves).          *)
RepeatedBounded == Repeated <= inserted + moved
=============================================================================
