----------------------------- MODULE AiAccount ------------------------------
(***************************************************************************)
(* The record of one upstream account and everybody who writes it: the     *)
(* gateway (a result, a cool-down, the daily usage), the health check, an  *)
(* administrator and the refresh of the listed state.  A read and the      *)
(* write that follows are two calls to the database, and any other writer  *)
(* may come between.  An update merges the fields it names (sql-store.ts). *)
(***************************************************************************)
EXTENDS ScheduleState

CONSTANTS
    Workers,        \* gateway requests and administrators
    Prober,         \* healthCheckAll, every ten minutes
    Refresher,      \* refreshScheduleStates, every minute
    UnhealthyAfter, \* UNHEALTHY_AFTER
    Cooldowns,      \* the cool-down fields errors write
    MaxCool,        \* a cool-down lasts 1..MaxCool ticks
    NewAccount,     \* the record as it was created
    Horizon,        \* bound on the clock
    MaxEvents       \* bound on what is done to the account from outside

ASSUME ThresholdPositive == UnhealthyAfter \in Nat \ {0} /\ MaxCool \in Nat \ {0}
ASSUME CooldownFields    == Cooldowns \subseteq {"rateUntil", "overUntil", "tempUntil"}
ASSUME NewIsAccount      == NewAccount \in AccountType /\ NewAccount.fails = 0
ASSUME BoundsAreNat      == Horizon \in Nat /\ MaxEvents \in Nat

VARIABLES
    acc,    \* the record in the database
    now,    \* the clock
    job,    \* what each actor is doing, and what it has read
    up,     \* whether the upstream answers
    events  \* events so far

vars == <<acc, now, job, up, events>>

Actors == Workers \cup {Prober, Refresher}

Steps == {"idle", "put", "reread", "putState", "clear"}

(* seen: the record as read; ok: the result to write; next: the state to    *)
(* store.                                                                   *)
Idle == [step |-> "idle", seen |-> NewAccount, ok |-> TRUE, next |-> NewAccount.stored]

JobType == [step : Steps, seen : AccountType, ok : BOOLEAN, next : States]

TypeInv ==
    /\ acc \in AccountType /\ acc.fails <= UnhealthyAfter
    /\ now \in 0..Horizon
    /\ job \in [Actors -> JobType]
    /\ \A a \in Actors : job[a].seen.fails <= UnhealthyAfter
    /\ up \in BOOLEAN
    /\ events \in 0..MaxEvents

Init ==
    /\ acc = NewAccount
    /\ now = 0
    /\ job = [a \in Actors |-> Idle]
    /\ up = TRUE
    /\ events = 0

Event == events < MaxEvents /\ events' = events + 1

Do(a, j) == job' = [job EXCEPT ![a] = j]

Bump(n) == IF n < UnhealthyAfter THEN n + 1 ELSE n

-----------------------------------------------------------------------------
(* markUpstreamResult: read the failure count, write the new one with the   *)
(* health it means, read again, store the state.                            *)
ReadResult(a) ==
    /\ job[a].step = "idle"
    /\ Do(a, [Idle EXCEPT !.step = "put", !.seen = acc, !.ok = up])
    /\ UNCHANGED <<acc, now, up>>

WorkerResult(w) == ReadResult(w) /\ Event

(* The health check lists the accounts that are enabled. *)
Probe == acc.enabled /\ ReadResult(Prober) /\ UNCHANGED events

Fails(j)  == IF j.ok THEN 0 ELSE Bump(j.seen.fails)
Health(j) == IF j.ok THEN "normal"
             ELSE IF Fails(j) >= UnhealthyAfter THEN "abnormal" ELSE "degraded"

(* Mutant: the whole record is written back, not the fields that changed. *)
PutResult_WholeRecord(a) ==
    /\ job[a].step = "put"
    /\ acc' = [job[a].seen EXCEPT !.fails = Fails(job[a]), !.health = Health(job[a])]
    /\ Do(a, [Idle EXCEPT !.step = "reread"])
    /\ UNCHANGED <<now, up, events>>

(* Mutant: a success resets the count but leaves the health alone. *)
PutResult_StickyHealth(a) ==
    /\ job[a].step = "put"
    /\ acc' = [acc EXCEPT !.fails = Fails(job[a]),
                          !.health = IF job[a].ok THEN @ ELSE Health(job[a])]
    /\ Do(a, [Idle EXCEPT !.step = "reread"])
    /\ UNCHANGED <<now, up, events>>

PutResult(a) ==
    /\ job[a].step = "put"
    /\ acc' = [acc EXCEPT !.fails = Fails(job[a]), !.health = Health(job[a])]
    /\ Do(a, [Idle EXCEPT !.step = "reread"])
    /\ UNCHANGED <<now, up, events>>

(* markRateLimited, markOverloaded, markTempUnschedulable: the new time     *)
(* replaces the one that is there, later or not.                            *)
PutCooldown(w) ==
    /\ job[w].step = "idle"
    /\ Event
    /\ \E k \in Cooldowns, d \in 1..MaxCool : acc' = [acc EXCEPT ![k] = now + d]
    /\ Do(w, [Idle EXCEPT !.step = "reread"])
    /\ UNCHANGED <<now, up>>

(* Mutant: the gateway's verdict is stored in the place of the state. *)
Reread_StoresReason(a) ==
    /\ job[a].step = "reread"
    /\ Do(a, [Idle EXCEPT !.step = "putState", !.next = schedulableReason(acc, now)])
    /\ UNCHANGED <<acc, now, up, events>>

(* Both end alike: read the record again, compute the state, store it. *)
Reread(a) ==
    /\ job[a].step = "reread"
    /\ Do(a, [Idle EXCEPT !.step = "putState", !.next = scheduleStateOf(acc, now)])
    /\ UNCHANGED <<acc, now, up, events>>

PutState(a) ==
    /\ job[a].step = "putState"
    /\ acc' = [acc EXCEPT !.stored = job[a].next]
    /\ Do(a, Idle)
    /\ UNCHANGED <<now, up, events>>

(* resetAccountState: the state is computed from the record as it was read  *)
(* before the patch.                                                        *)
ReadReset(w) ==
    /\ job[w].step = "idle"
    /\ Event
    /\ Do(w, [Idle EXCEPT !.step = "clear", !.seen = acc])
    /\ UNCHANGED <<acc, now, up>>

Patched(f) == [f EXCEPT !.rateUntil = 0, !.overUntil = 0, !.tempUntil = 0,
                        !.fails = 0, !.health = "normal"]

Clear(w) ==
    /\ job[w].step = "clear"
    /\ acc' = Patched(acc)
    /\ Do(w, [Idle EXCEPT !.step = "putState",
                          !.next = scheduleStateOf(Patched(job[w].seen), now)])
    /\ UNCHANGED <<now, up, events>>

-----------------------------------------------------------------------------
(* Mutant: the refresh writes only when the account has become schedulable. *)
Refresh_OnlyRecoveries ==
    /\ job[Refresher].step = "idle"
    /\ LET next == scheduleStateOf(acc, now) IN
          /\ next # acc.stored /\ next = "schedulable"
          /\ Do(Refresher, [Idle EXCEPT !.step = "putState", !.next = next])
    /\ UNCHANGED <<acc, now, up, events>>

(* refreshScheduleStates: the record is read, and written when it differs. *)
Refresh ==
    /\ job[Refresher].step = "idle"
    /\ LET next == scheduleStateOf(acc, now) IN
          /\ next # acc.stored
          /\ Do(Refresher, [Idle EXCEPT !.step = "putState", !.next = next])
    /\ UNCHANGED <<acc, now, up, events>>

(* addAccountUsage, one unit of cost: the day is reset when its mark is not *)
(* today.  (UsageTier looks at the calls this is made of.)                  *)
Spend ==
    /\ Event
    /\ acc.dayLimit > 0
    /\ acc' = [acc EXCEPT !.dayUsed = Used(@, acc.dayMark, utcDay(now)) + 1,
                          !.dayMark = utcDay(now)]
    /\ UNCHANGED <<now, job, up>>

(* The edit form: the stored state is left alone. *)
Edit ==
    /\ Event
    /\ \/ acc' = [acc EXCEPT !.enabled = ~@]
       \/ acc' = [acc EXCEPT !.manual = ~@]
    /\ UNCHANGED <<now, job, up>>

(* bulkAction: the state is written with the switch, whatever else holds.   *)
BulkSchedule ==
    /\ Event
    /\ \/ acc' = [acc EXCEPT !.manual = FALSE, !.stored = "schedulable"]
       \/ acc' = [acc EXCEPT !.manual = TRUE, !.stored = "manual"]
    /\ UNCHANGED <<now, job, up>>

Upstream ==
    /\ Event
    /\ up' = ~up
    /\ UNCHANGED <<acc, now, job>>

Tick ==
    /\ now < Horizon
    /\ now' = now + 1
    /\ UNCHANGED <<acc, job, up, events>>

Step(a) == PutResult(a) \/ Reread(a) \/ PutState(a)

Next ==
    \/ \E w \in Workers : WorkerResult(w) \/ PutCooldown(w) \/ ReadReset(w) \/ Clear(w)
    \/ \E a \in Actors : Step(a)
    \/ Probe \/ Refresh \/ Spend \/ Edit \/ BulkSchedule \/ Upstream \/ Tick

Spec == Init /\ [][Next]_vars

(* Database calls are answered, the two cron jobs run again and again, and  *)
(* time passes.                                                             *)
FairSpec ==
    /\ Spec
    /\ \A a \in Actors : WF_vars(Step(a))
    /\ \A w \in Workers : WF_vars(Clear(w))
    /\ WF_vars(Probe) /\ WF_vars(Refresh) /\ WF_vars(Tick)

-----------------------------------------------------------------------------
(* The list and the gateway use the same criterion: an account is listed as *)
(* schedulable when the gateway would use it, and with the gateway's reason *)
(* otherwise (schedule-state.ts:5-6).                                       *)
ListAgreesWithGateway ==
    LET why == schedulableReason(acc, now) IN
    scheduleStateOf(acc, now) = IF why = "ok" THEN "schedulable" ELSE why

Clearing == \E w \in Workers : job[w].step = "clear" /\ job'[w].step # "clear"

(* A cool-down that is still running ends neither early nor at all but by   *)
(* its time, by a reset, or by another cool-down of its kind, which takes   *)
(* its place even when it is the shorter one (the three marks write their   *)
(* time without looking at what is there).  No result, edit, refresh or     *)
(* bulk action that races with it brings the account back early.            *)
NoCooldownLost ==
    [][\A k \in Cooldowns :
          acc[k] > now /\ acc'[k] < acc[k] =>
             \/ Clearing
             \/ acc'[k] > now /\ \E w \in Workers : PutCooldown(w)]_vars

(* Once nothing more is done to the account, the list shows its true state. *)
ListConverges == <>[](acc.stored = scheduleStateOf(acc, now))

(* An upstream that answers again is not left out for ever: the health      *)
(* check clears the abnormal mark, though the gateway no longer calls it.   *)
HealthRecovers == <>[](up /\ acc.enabled => acc.health # "abnormal")

(* Whatever writes have raced, an account is neither shown wrongly for ever *)
(* nor left out for ever.                                                   *)
AccountsRecover == ListConverges /\ HealthRecovers
=============================================================================
