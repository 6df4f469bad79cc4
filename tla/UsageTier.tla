----------------------------- MODULE UsageTier ------------------------------
(***************************************************************************)
(* How one period's spending is counted: a counter and a mark that says    *)
(* which period it is of, in the record of a group (addUsageToKey: day,    *)
(* week, month) or of an account (addAccountUsage: day, month).  A call    *)
(* reads the clock, then the record; when the mark is the call's period it *)
(* adds its cost with one SQL expression, else it writes counter and mark. *)
(* The admission check (assertGroupQuota) read the same two fields when    *)
(* the request arrived.  Every request costs 1.                            *)
(***************************************************************************)
EXTENDS Integers, FiniteSets

CONSTANTS
    Requests,
    Limit,       \* the period's quota
    LastPeriod,  \* bound on the clock: periods 0..LastPeriod
    MaxAdmitted  \* bound on the requests let in

RequestsFinite == IsFiniteSet(Requests)
QuotaPositive  == Limit \in Nat \ {0}
BoundsAreNat   == LastPeriod \in Nat /\ MaxAdmitted \in Nat

VARIABLES
    used, mark,  \* the two fields
    period,      \* the current period
    req,         \* where each request stands, its period and the mark it read
    admitted,    \* requests let in so far
    spent        \* cost recorded so far, by the period of the recording call

vars == <<used, mark, period, req, admitted, spent>>

Periods == 0..LastPeriod
Steps   == {"idle", "forward", "read", "bump"}
Idle    == [step |-> "idle", period |-> 0, seen |-> 0]

TypeInv ==
    /\ used \in 0..MaxAdmitted
    /\ mark \in Periods
    /\ period \in Periods
    /\ req \in [Requests -> [step : Steps, period : Periods, seen : Periods]]
    /\ admitted \in 0..MaxAdmitted
    /\ spent \in [Periods -> 0..MaxAdmitted]

Init ==
    /\ used = 0
    /\ mark = 0
    /\ period = 0
    /\ req = [r \in Requests |-> Idle]
    /\ admitted = 0
    /\ spent = [p \in Periods |-> 0]

(* Mutant: the quota is compared with "more than". *)
Admit_MoreThan(r) ==
    /\ req[r].step = "idle"
    /\ admitted < MaxAdmitted
    /\ ~(mark = period /\ used > Limit)
    /\ req' = [req EXCEPT ![r].step = "forward"]
    /\ admitted' = admitted + 1
    /\ UNCHANGED <<used, mark, period, spent>>

(* assertGroupQuota: a counter of another period counts as 0. *)
Admit(r) ==
    /\ req[r].step = "idle"
    /\ admitted < MaxAdmitted
    /\ ~(mark = period /\ used >= Limit)
    /\ req' = [req EXCEPT ![r].step = "forward"]
    /\ admitted' = admitted + 1
    /\ UNCHANGED <<used, mark, period, spent>>

(* The answer is there: the period of the call is that of this moment. *)
ReadClock(r) ==
    /\ req[r].step = "forward"
    /\ req' = [req EXCEPT ![r] = [step |-> "read", period |-> period, seen |-> 0]]
    /\ UNCHANGED <<used, mark, period, admitted, spent>>

ReadMark(r) ==
    /\ req[r].step = "read"
    /\ req' = [req EXCEPT ![r].step = "bump", ![r].seen = mark]
    /\ UNCHANGED <<used, mark, period, admitted, spent>>

(* Mutant: the counter is added to, but never reset, and so is the mark. *)
Bump_NoReset(r) ==
    /\ req[r].step = "bump"
    /\ used' = used + 1
    /\ mark' = req[r].period
    /\ spent' = [spent EXCEPT ![req[r].period] = @ + 1]
    /\ req' = [req EXCEPT ![r] = Idle]
    /\ UNCHANGED <<period, admitted>>

(* Mutant: the counter is reset by every call. *)
Bump_AlwaysResets(r) ==
    /\ req[r].step = "bump"
    /\ used' = 1
    /\ mark' = req[r].period
    /\ spent' = [spent EXCEPT ![req[r].period] = @ + 1]
    /\ req' = [req EXCEPT ![r] = Idle]
    /\ UNCHANGED <<period, admitted>>

(* Mutant: the cost is in the update and in the increment as well. *)
Bump_CountsTwice(r) ==
    /\ req[r].step = "bump"
    /\ IF req[r].seen = req[r].period
       THEN used' = used + 2 /\ UNCHANGED mark
       ELSE used' = 2 /\ mark' = req[r].period
    /\ spent' = [spent EXCEPT ![req[r].period] = @ + 1]
    /\ req' = [req EXCEPT ![r] = Idle]
    /\ UNCHANGED <<period, admitted>>

(* addNumber, or the update that starts a new period. *)
Bump(r) ==
    /\ req[r].step = "bump"
    /\ IF req[r].seen = req[r].period
       THEN used' = used + 1 /\ UNCHANGED mark
       ELSE used' = 1 /\ mark' = req[r].period
    /\ spent' = [spent EXCEPT ![req[r].period] = @ + 1]
    /\ req' = [req EXCEPT ![r] = Idle]
    /\ UNCHANGED <<period, admitted>>

NextPeriod ==
    /\ period < LastPeriod
    /\ period' = period + 1
    /\ UNCHANGED <<used, mark, req, admitted, spent>>

Next ==
    \/ \E r \in Requests : Admit(r) \/ ReadClock(r) \/ ReadMark(r) \/ Bump(r)
    \/ NextPeriod

Spec == Init /\ [][Next]_vars

-----------------------------------------------------------------------------
At(step) == {r \in Requests : req[r].step = step}

(* Every call that has read the clock is of the period of the counter, and  *)
(* every call that has read the mark has read the one that stands.          *)
Settled ==
    /\ \A r \in At("read") \cup At("bump") : req[r].period = mark
    /\ \A r \in At("bump") : req[r].seen = mark

(* A turn of the period loses or misplaces cost only in calls that overlap  *)
(* with it: once it has settled, the counter follows what is recorded.      *)
ExactWhenSettled ==
    [][Settled /\ mark' = mark => spent'[mark] - used' = spent[mark] - used]_vars

(* The quota is checked long before the cost is added, so it is overshot,   *)
(* but by no more than the requests that run at the same time.              *)
OvershootBounded == used <= Limit - 1 + Cardinality(Requests)

(* The counter exceeds what was recorded for its period by the cost of      *)
(* calls that straddle its turn, and by no more.                            *)
OverstatementBounded == used <= spent[mark] + Cardinality(Requests)

(* What may go wrong around a quota is bounded by the calls in flight: the  *)
(* quota is overshot, and its counter overstated, by no more.               *)
TierSafe == TypeInv /\ OvershootBounded /\ OverstatementBounded
=============================================================================
