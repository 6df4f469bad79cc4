--------------------------- MODULE ScheduleState ----------------------------
(***************************************************************************)
(* May the gateway use an upstream account now, and what does the account  *)
(* list show?  The two answers are computed by two functions:              *)
(* schedulableReason (ai-route.service.ts), which the gateway obeys, and   *)
(* scheduleStateOf (schedule-state.ts), which is stored and listed.        *)
(*                                                                         *)
(* An account is a record; a time of 0 means "not set", a limit of 0 "no   *)
(* limit".  Time is counted in ticks, DayLength and MonthLength of them    *)
(* make a day and a month.                                                 *)
(***************************************************************************)
EXTENDS Integers

CONSTANTS DayLength, MonthLength

ASSUME LengthsPositive == DayLength \in Nat \ {0} /\ MonthLength \in Nat \ {0}

utcDay(t)   == t \div DayLength
utcMonth(t) == t \div MonthLength

States == {"schedulable", "rateLimited", "overloaded", "removed", "expired",
           "manual", "disabled", "abnormal", "quotaUsedUp"}

Healths == {"normal", "degraded", "abnormal"}

AccountType ==
    [enabled : BOOLEAN,      \* the status field is "enabled"
     manual : BOOLEAN,       \* scheduling was stopped by hand
     expiresAt : Nat, autoPause : BOOLEAN,
     rateUntil : Nat, overUntil : Nat, tempUntil : Nat,
     dayLimit : Nat, dayUsed : Nat, dayMark : Nat,
     monthLimit : Nat, monthUsed : Nat, monthMark : Nat,
     health : Healths, fails : Nat,
     stored : States]        \* the state the list shows

(* What a period's counter is worth: its mark must be the current period. *)
Used(used, mark, period) == IF mark = period THEN used ELSE 0

accountQuotaReason(f, t) ==
    \/ f.dayLimit > 0 /\ Used(f.dayUsed, f.dayMark, utcDay(t)) >= f.dayLimit
    \/ f.monthLimit > 0 /\ Used(f.monthUsed, f.monthMark, utcMonth(t)) >= f.monthLimit

Expired(f, t) == f.expiresAt # 0 /\ t > f.expiresAt /\ f.autoPause

(* The gateway's verdict: "ok", or the first reason not to use the account. *)
schedulableReason(f, t) ==
    IF ~f.enabled THEN "disabled"
    ELSE IF f.manual THEN "manual"
    ELSE IF Expired(f, t) THEN "expired"
    ELSE IF f.rateUntil # 0 /\ t < f.rateUntil THEN "rateLimited"
    ELSE IF f.overUntil # 0 /\ t < f.overUntil THEN "overloaded"
    ELSE IF f.tempUntil # 0 /\ t < f.tempUntil THEN "removed"
    ELSE IF accountQuotaReason(f, t) THEN "quotaUsedUp"
    ELSE IF f.health = "abnormal" THEN "abnormal"
    ELSE "ok"

(* Mutant: the quota is left out of the listed state. *)
scheduleStateOf_NoQuota(f, t) ==
    IF ~f.enabled THEN "disabled"
    ELSE IF f.manual THEN "manual"
    ELSE IF Expired(f, t) THEN "expired"
    ELSE IF f.rateUntil > t THEN "rateLimited"
    ELSE IF f.overUntil > t THEN "overloaded"
    ELSE IF f.tempUntil > t THEN "removed"
    ELSE IF f.health = "abnormal" THEN "abnormal"
    ELSE "schedulable"

(* The state that is listed. *)
scheduleStateOf(f, t) ==
    IF ~f.enabled THEN "disabled"
    ELSE IF f.manual THEN "manual"
    ELSE IF Expired(f, t) THEN "expired"
    ELSE IF f.rateUntil > t THEN "rateLimited"
    ELSE IF f.overUntil > t THEN "overloaded"
    ELSE IF f.tempUntil > t THEN "removed"
    ELSE IF accountQuotaReason(f, t) THEN "quotaUsedUp"
    ELSE IF f.health = "abnormal" THEN "abnormal"
    ELSE "schedulable"
=============================================================================
