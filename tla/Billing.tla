------------------------------ MODULE Billing -------------------------------
(***************************************************************************)
(* From a teacher's attendance to the settlement of a month                *)
(* (attendance, billing and settlement services): an attendance that the   *)
(* office has reviewed is billed at the rate of the teacher's partnership, *)
(* the confirmed bills of a month are summed up in a settlement, and the   *)
(* settlement is approved and closed.  Every service reads a record,       *)
(* checks it, and writes in a call of its own.                             *)
(* One attendance, one settlement at a time; every lesson has one hour.    *)
(***************************************************************************)
EXTENDS Integers, FiniteSets, FiniteSetsExt

CONSTANTS
  Users,         \* callers, one call each at one time
  Rates,         \* what an hour may cost
  MaxBills,      \* bound: bills at one time
  PageSize,      \* bills that aggregate looks at (100)
  MaxCalls,      \* bound: calls of every kind
  Nobody

BillingAssumption ==
  /\ Rates \subseteq Nat \ {0} /\ Rates # {} /\ IsFiniteSet(Rates)
  /\ MaxBills \in Nat /\ PageSize \in Nat /\ MaxCalls \in Nat
  /\ Nobody \notin Users

VARIABLES
  att,           \* status of the attendance
  rate,          \* of the partnership in force, 0 without one
  bill,          \* the bills; a higher number was created later
  settle,        \* the settlement
  call,          \* what each user's call is doing
  calls,
  regressed      \* history: the form, or a move that another overtook, took the
                 \* attendance back

vars == <<att, rate, bill, settle, call, calls, regressed>>

(* The three tables of statuses, in the order they are gone through.        *)
ATTENDANCE == <<"toSubmit", "submitted", "teacherConfirmed", "reviewed", "billable">>
BILL       == <<"toGenerate", "toConfirm", "confirmed", "settled">>
SETTLEMENT == <<"draft", "submitted", "inApproval", "approved", "closed">>
Statuses(table) == {table[i] : i \in DOMAIN table}

Allowed(table, from, to) ==
  \E i \in DOMAIN table : i + 1 \in DOMAIN table /\ table[i] = from /\ table[i + 1] = to

Billable == {"reviewed", "billable"}

Bills == 1..MaxBills
NoBill == [status |-> "absent"]
There == {b \in Bills : bill[b] # NoBill}
NoSettlement == [status |-> "absent"]

Idle == [op |-> "idle"]

SumOf(bs) == FoldSet(LAMBDA b, sum : bill[b].amount + sum, 0, bs)

FirstRate == CHOOSE r \in Rates : TRUE

\* Whatever state earlier calls may have left; bills by hand, confirmed, and a
\* settlement of all of them.
Init ==
  /\ att \in Statuses(ATTENDANCE) /\ rate \in {0, FirstRate}
  /\ bill \in [Bills -> {NoBill} \cup
                 [status : {"confirmed"}, amount : {FirstRate}, generated : {FALSE}]]
  /\ \A b, k \in Bills : b < k /\ bill[k] # NoBill => bill[b] # NoBill
  /\ \/ settle = NoSettlement
     \/ \E st \in Statuses(SETTLEMENT), u \in Users \cup {Nobody} :
          settle = [status |-> st, total |-> SumOf(There),
                    approver |-> u]
  /\ call = [u \in Users |-> Idle]
  /\ calls = 0 /\ regressed = FALSE

-----------------------------------------------------------------------------
\* A call begins with a read that passes the checks.
Start(u, c) ==
  /\ call[u] = Idle /\ calls < MaxCalls /\ calls' = calls + 1
  /\ call' = [call EXCEPT ![u] = c]

\* A call of u ends; those that have read what it wrote are late.
Ends(u, readers) ==
  call' = [v \in Users |->
             CASE v = u -> Idle
               [] v # u /\ call[v].op \in readers -> [call[v] EXCEPT !.late = TRUE]
               [] OTHER -> call[v]]

(***************************************************************************)
(* transition of the attendance.                                           *)
(***************************************************************************)
AskAttendance(u, to) ==
  /\ Allowed(ATTENDANCE, att, to)
  /\ Start(u, [op |-> "attendance", to |-> to, late |-> FALSE])
  /\ UNCHANGED <<att, rate, bill, settle, regressed>>

MoveAttendance(u) ==
  /\ call[u].op = "attendance"
  /\ att' = call[u].to
  /\ regressed' = (regressed \/ call[u].late)
  /\ Ends(u, {"attendance"})
  /\ UNCHANGED <<rate, bill, settle, calls>>

\* update of the form, which has the status among its fields.  A bill that was
\* made is for a lesson that may not be billed any more, if it takes one back.
FormAttendance ==
  /\ calls < MaxCalls /\ calls' = calls + 1
  /\ att' \in Statuses(ATTENDANCE) \ {att}
  /\ regressed' = (regressed \/ (att \in Billable /\ att' \notin Billable))
  /\ call' = [u \in Users |-> IF call[u].op = "attendance"
                              THEN [call[u] EXCEPT !.late = TRUE] ELSE call[u]]
  /\ UNCHANGED <<rate, bill, settle>>

(***************************************************************************)
(* generate: the attendance, then the partnership, then the new bill.      *)
(***************************************************************************)
\* Mutant: a lesson the teacher has confirmed may be billed.
Generate_Confirmed(u) ==
  /\ att \in Billable \cup {"teacherConfirmed"}
  /\ Start(u, [op |-> "generate", amount |-> 0, late |-> FALSE])
  /\ UNCHANGED <<att, rate, bill, settle, regressed>>

Generate(u) ==
  /\ att \in Billable
  /\ Start(u, [op |-> "generate", amount |-> 0, late |-> FALSE])
  /\ UNCHANGED <<att, rate, bill, settle, regressed>>

FindRate(u) ==
  /\ call[u].op = "generate" /\ call[u].amount = 0
  /\ call' = [call EXCEPT ![u] = IF rate = 0 THEN Idle ELSE [@ EXCEPT !.amount = rate]]
  /\ UNCHANGED <<att, rate, bill, settle, calls, regressed>>

NewBill(b, u) ==
  /\ call[u].op = "generate" /\ call[u].amount # 0
  /\ b \notin There /\ \A k \in There : k < b
  /\ bill' = [bill EXCEPT ![b] = [status |-> "toConfirm", amount |-> call[u].amount,
                                  generated |-> TRUE]]
  /\ Ends(u, {})
  /\ UNCHANGED <<att, rate, settle, calls, regressed>>

\* A partnership begins, ends or is edited.
EditPartnership ==
  /\ calls < MaxCalls /\ calls' = calls + 1
  /\ rate' \in (Rates \cup {0}) \ {rate}
  /\ UNCHANGED <<att, bill, settle, call, regressed>>

(***************************************************************************)
(* Bills: by hand, their transition, update and archive.                   *)
(***************************************************************************)
CreateBill(b) ==
  /\ calls < MaxCalls /\ calls' = calls + 1
  /\ b \notin There /\ \A k \in There : k < b
  /\ \E st \in Statuses(BILL), r \in Rates :
       bill' = [bill EXCEPT ![b] = [status |-> st, amount |-> r, generated |-> FALSE]]
  /\ UNCHANGED <<att, rate, settle, call, regressed>>

AskBill(u, b, to) ==
  /\ b \in There /\ Allowed(BILL, bill[b].status, to)
  /\ Start(u, [op |-> "bill", id |-> b, to |-> to, late |-> FALSE])
  /\ UNCHANGED <<att, rate, bill, settle, regressed>>

MoveBill(u) ==
  /\ call[u].op = "bill"
  /\ bill' = IF call[u].id \in There THEN [bill EXCEPT ![call[u].id].status = call[u].to]
             ELSE bill
  /\ Ends(u, {})
  /\ UNCHANGED <<att, rate, settle, calls, regressed>>

\* update looks at no status; the form has the status and the amount.
UpdateBill(b) ==
  /\ calls < MaxCalls /\ calls' = calls + 1
  /\ b \in There
  /\ \E st \in Statuses(BILL), r \in Rates :
       bill' = [bill EXCEPT ![b].status = st, ![b].amount = r]
  /\ UNCHANGED <<att, rate, settle, call, regressed>>

ArchiveBill(b) ==
  /\ calls < MaxCalls /\ calls' = calls + 1
  /\ b \in There /\ bill' = [bill EXCEPT ![b] = NoBill]
  /\ UNCHANGED <<att, rate, settle, call, regressed>>

(***************************************************************************)
(* aggregate: the first page of the confirmed bills, the latest first,     *)
(* then the new settlement.                                                *)
(***************************************************************************)
Confirmed == {b \in There : bill[b].status = "confirmed"}
FirstPage == {b \in Confirmed : Cardinality({k \in Confirmed : k > b}) < PageSize}

Aggregate(u) ==
  /\ Start(u, [op |-> "aggregate", total |-> SumOf(FirstPage)])
  /\ UNCHANGED <<att, rate, bill, settle, regressed>>

NewSettlement(u) ==
  /\ call[u].op = "aggregate" /\ settle = NoSettlement
  /\ settle' = [status |-> "draft", total |-> call[u].total, approver |-> Nobody]
  /\ Ends(u, {})
  /\ UNCHANGED <<att, rate, bill, calls, regressed>>

(***************************************************************************)
(* update of the settlement: amounts in a draft only, nothing once closed. *)
(***************************************************************************)
\* Mutant: only a closed settlement is protected.
MayUpdate_Open(fields) == settle.status # "closed"

MayUpdate(fields) ==
  settle.status # "closed" /\ ("total" \in fields => settle.status = "draft")

\* The fields of the form that matter here; whoever approves is one of them.
FormFields == {"total", "approver", "status"}

AskUpdate(u, fields) ==
  /\ settle # NoSettlement /\ MayUpdate(fields)
  /\ Start(u, [op |-> "update", fields |-> fields, late |-> FALSE])
  /\ UNCHANGED <<att, rate, bill, settle, regressed>>

\* Of other updates only one that moves the status makes an update late.
WriteUpdate(u) ==
  /\ call[u].op = "update"
  /\ settle' \in IF settle = NoSettlement THEN {NoSettlement}
        ELSE LET fields == call[u].fields IN
             [status   : IF "status" \in fields THEN Statuses(SETTLEMENT) ELSE {settle.status},
              total    : IF "total" \in fields THEN Rates ELSE {settle.total},
              approver : IF "approver" \in fields THEN Users \cup {Nobody} ELSE {settle.approver}]
  /\ Ends(u, {"settlement"} \cup (IF "status" \in call[u].fields THEN {"update"} ELSE {}))
  /\ UNCHANGED <<att, rate, bill, calls, regressed>>

(***************************************************************************)
(* transition of the settlement: whoever approves it is written down,      *)
(* unless somebody was.                                                    *)
(***************************************************************************)
\* Mutant: whoever closes it is written down as having approved it.
Approver_Last(u, to) == IF to \in {"approved", "closed"} THEN u ELSE Nobody

Approver(u, to) ==
  IF to \in {"approved", "closed"} /\ settle.approver = Nobody THEN u ELSE settle.approver

AskSettlement(u, to) ==
  /\ settle # NoSettlement /\ Allowed(SETTLEMENT, settle.status, to)
  /\ Start(u, [op |-> "settlement", to |-> to, by |-> Approver(u, to), late |-> FALSE])
  /\ UNCHANGED <<att, rate, bill, settle, regressed>>

\* The approver is written by a call that approves or closes, and only then.
MoveSettlement(u) ==
  /\ call[u].op = "settlement"
  /\ settle' = IF settle = NoSettlement THEN settle
               ELSE [settle EXCEPT !.status = call[u].to,
                       !.approver = IF call[u].to \in {"approved", "closed"} THEN call[u].by ELSE @]
  /\ Ends(u, {"settlement", "update"})
  /\ UNCHANGED <<att, rate, bill, calls, regressed>>

ArchiveSettlement ==
  /\ calls < MaxCalls /\ calls' = calls + 1
  /\ settle # NoSettlement /\ settle' = NoSettlement
  /\ call' = [u \in Users |-> IF call[u].op \in {"update", "settlement"}
                              THEN [call[u] EXCEPT !.late = TRUE] ELSE call[u]]
  /\ UNCHANGED <<att, rate, bill, regressed>>

Next ==
  \/ \E u \in Users :
       \/ \E to \in Statuses(ATTENDANCE) : AskAttendance(u, to)
       \/ MoveAttendance(u)
       \/ Generate(u) \/ FindRate(u) \/ (\E b \in Bills : NewBill(b, u))
       \/ \E b \in Bills, to \in Statuses(BILL) : AskBill(u, b, to)
       \/ MoveBill(u)
       \/ Aggregate(u) \/ NewSettlement(u)
       \/ \E fields \in SUBSET FormFields \ {{}} : AskUpdate(u, fields)
       \/ WriteUpdate(u)
       \/ \E to \in Statuses(SETTLEMENT) : AskSettlement(u, to)
       \/ MoveSettlement(u)
  \/ \E b \in Bills : CreateBill(b) \/ UpdateBill(b) \/ ArchiveBill(b)
  \/ FormAttendance \/ EditPartnership \/ ArchiveSettlement

Spec == Init /\ [][Next]_vars

-----------------------------------------------------------------------------
TypeInv ==
  /\ att \in Statuses(ATTENDANCE) /\ rate \in Rates \cup {0}
  /\ \A b \in There : bill[b].status \in Statuses(BILL) /\ bill[b].amount \in Rates
  /\ settle # NoSettlement =>
       settle.status \in Statuses(SETTLEMENT) /\ settle.approver \in Users \cup {Nobody}
  /\ calls \in 0..MaxCalls

(* A bill is made from an attendance only where it may be billed, and it    *)
(* may still be, unless the form or a move that was overtaken took it back. *)
BilledWhenReviewed ==
  (\E b \in There : bill[b].generated) => att \in Billable \/ regressed

(* The total of a settlement changes in a draft only, or by an update that  *)
(* had read it as a draft; a closed one stays closed, unless a transition   *)
(* or an update that had read it before is written over it.                 *)
Late(op) == \E u \in Users : call[u].op = op /\ call[u].late /\ call'[u] = Idle
Kept == settle # NoSettlement /\ settle' # NoSettlement
TotalsFrozen ==
  [][Kept /\ settle'.total # settle.total => settle.status = "draft" \/ Late("update")]_vars
ClosedStays ==
  [][Kept /\ settle.status = "closed" /\ settle'.status # "closed" =>
       Late("settlement") \/ Late("update")]_vars

(* Who approved a settlement is replaced through the form, or by approvals  *)
(* that overlapped with it or each other, and never by closing it.          *)
ApproverStays ==
  [][Kept /\ settle.approver # Nobody /\ settle'.approver # settle.approver =>
       \/ Late("settlement")
       \/ \E u \in Users : /\ call[u].op = "update" /\ "approver" \in call[u].fields
                           /\ call'[u] = Idle]_vars
=============================================================================
