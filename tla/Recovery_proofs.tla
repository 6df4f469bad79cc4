-------------------------- MODULE Recovery_proofs ---------------------------
(***************************************************************************)
(* Theorems about AiAccount: the record and the jobs of its writers keep   *)
(* their types, and the state that is listed is computed by the criterion  *)
(* the gateway uses, for every account, every clock and any number of      *)
(* writers.  Then theorems about what Recovery composes with it, NoteBody  *)
(* and MailArchive: what their stores keep, for any number of notes,       *)
(* viewers, jobs, mails, failures and crashes.                             *)
(***************************************************************************)
EXTENDS Recovery, FiniteSetTheorems, TLAPS

(* schedulableReason and scheduleStateOf agree on every record at every     *)
(* time: the first tests whether a cool-down is set, the second does not.   *)
LEMMA SameCriterion ==
    ASSUME NEW f \in AccountType, NEW t \in Nat
    PROVE  scheduleStateOf(f, t) =
              IF schedulableReason(f, t) = "ok" THEN "schedulable"
              ELSE schedulableReason(f, t)
  BY DEF schedulableReason, scheduleStateOf, AccountType

(* scheduleStateOf returns a state, for a record of any shape. *)
LEMMA StateOfIsState ==
    ASSUME NEW f, NEW t
    PROVE  scheduleStateOf(f, t) \in States
  BY DEF scheduleStateOf, States

(* A record that fits, with the bound on its count of failures. *)
Fits(f) == f \in AccountType /\ f.fails <= UnhealthyAfter

LEMMA BumpFits ==
    ASSUME NEW n \in Nat, n <= UnhealthyAfter
    PROVE  Bump(n) \in 0..UnhealthyAfter
  <1>1. UnhealthyAfter \in Nat \ {0} BY ThresholdPositive
  <1> QED BY <1>1 DEF Bump

LEMMA IdleIsJob == Idle \in JobType /\ Idle.seen.fails <= UnhealthyAfter /\ Idle.seen = NewAccount
  <1>1. UnhealthyAfter \in Nat \ {0} BY ThresholdPositive
  <1>2. NewAccount \in AccountType /\ NewAccount.fails = 0 BY NewIsAccount
  <1>3. NewAccount.stored \in States BY <1>2 DEF AccountType
  <1> QED BY <1>1, <1>2, <1>3 DEF Idle, JobType, Steps

(* An actor that takes on a job that fits leaves the jobs well typed. *)
LEMMA DoFits ==
    ASSUME TypeInv, NEW a \in Actors, NEW j \in JobType,
           j.seen.fails <= UnhealthyAfter, Do(a, j)
    PROVE  job' \in [Actors -> JobType] /\ \A b \in Actors : job'[b].seen.fails <= UnhealthyAfter
  BY DEF Do, TypeInv

(* Updates of a record keep its type. *)
LEMMA SetFails ==
    ASSUME NEW f \in AccountType, NEW n \in Nat, NEW h \in Healths
    PROVE  /\ [f EXCEPT !.fails = n, !.health = h] \in AccountType
           /\ [f EXCEPT !.fails = n, !.health = h].fails = n
  BY DEF AccountType

LEMMA SetCooldowns ==
    ASSUME NEW f \in AccountType, NEW r \in Nat, NEW o \in Nat, NEW u \in Nat
    PROVE  [f EXCEPT !.rateUntil = r, !.overUntil = o, !.tempUntil = u] \in AccountType
  BY DEF AccountType

LEMMA SetManual ==
    ASSUME NEW f \in AccountType, NEW m \in BOOLEAN, NEW s \in States
    PROVE  /\ [f EXCEPT !.manual = m, !.stored = s] \in AccountType
           /\ [f EXCEPT !.manual = m, !.stored = s].fails = f.fails
  BY DEF AccountType

LEMMA PatchedFits ==
    ASSUME NEW f \in AccountType
    PROVE  Patched(f) \in AccountType /\ Patched(f).fails = 0
  <1> DEFINE g == [f EXCEPT !.rateUntil = 0, !.overUntil = 0, !.tempUntil = 0]
  <1>1. g \in AccountType BY SetCooldowns
  <1>2. Patched(f) = [g EXCEPT !.fails = 0, !.health = "normal"]
    BY DEF Patched
  <1>3. 0 \in Nat /\ "normal" \in Healths
    BY DEF Healths
  <1> HIDE DEF g
  <1>4. /\ [g EXCEPT !.fails = 0, !.health = "normal"] \in AccountType
        /\ [g EXCEPT !.fails = 0, !.health = "normal"].fails = 0
    BY <1>1, <1>3, SetFails, Zenon
  <1> QED BY <1>2, <1>4, Zenon

THEOREM InitTyped == Init => TypeInv
  <1> SUFFICES ASSUME Init PROVE TypeInv OBVIOUS
  <1>1. UnhealthyAfter \in Nat \ {0} /\ Horizon \in Nat /\ MaxEvents \in Nat
    BY ThresholdPositive, BoundsAreNat
  <1>2. acc \in AccountType /\ acc.fails <= UnhealthyAfter
    BY <1>1, NewIsAccount DEF Init
  <1>3. job \in [Actors -> JobType] /\ \A a \in Actors : job[a].seen.fails <= UnhealthyAfter
    BY IdleIsJob DEF Init
  <1> QED BY <1>1, <1>2, <1>3 DEF Init, TypeInv

LEMMA EventTyped == TypeInv /\ Event => events' \in 0..MaxEvents
  BY BoundsAreNat DEF TypeInv, Event

LEMMA ReadResultTyped ==
    ASSUME TypeInv, NEW a \in Actors, ReadResult(a), events' \in 0..MaxEvents
    PROVE  TypeInv'
  <1> DEFINE j == [Idle EXCEPT !.step = "put", !.seen = acc, !.ok = up]
  <1>1. j \in JobType /\ j.seen.fails <= UnhealthyAfter
    BY IdleIsJob DEF TypeInv, JobType, Steps
  <1>2. job' \in [Actors -> JobType] /\ \A b \in Actors : job'[b].seen.fails <= UnhealthyAfter
    BY <1>1, DoFits DEF ReadResult
  <1> QED BY <1>2 DEF ReadResult, TypeInv

LEMMA PutResultTyped ==
    ASSUME TypeInv, NEW a \in Actors, PutResult(a)
    PROVE  TypeInv'
  <1> DEFINE j == [Idle EXCEPT !.step = "reread"]
  <1>1. j \in JobType /\ j.seen.fails <= UnhealthyAfter
    BY IdleIsJob DEF JobType, Steps
  <1>2. job' \in [Actors -> JobType] /\ \A b \in Actors : job'[b].seen.fails <= UnhealthyAfter
    BY <1>1, DoFits DEF PutResult
  <1>3. job[a].seen.fails \in Nat /\ job[a].seen.fails <= UnhealthyAfter
    BY DEF TypeInv, JobType, AccountType
  <1>4. Fails(job[a]) \in 0..UnhealthyAfter
    BY <1>3, BumpFits, ThresholdPositive DEF Fails
  <1>5. Health(job[a]) \in Healths
    BY DEF Health, Healths
  <1>6. acc' \in AccountType /\ acc'.fails <= UnhealthyAfter
    <2>1. acc' = [acc EXCEPT !.fails = Fails(job[a]), !.health = Health(job[a])]
      BY DEF PutResult
    <2>2. Fails(job[a]) \in Nat /\ Fails(job[a]) <= UnhealthyAfter
      BY <1>4, ThresholdPositive
    <2>3. acc \in AccountType BY DEF TypeInv
    <2>4. acc' \in AccountType /\ acc'.fails = Fails(job[a])
      BY <1>5, <2>1, <2>2, <2>3, SetFails, Zenon
    <2> QED BY <2>2, <2>4
  <1> QED BY <1>2, <1>6 DEF PutResult, TypeInv

LEMMA PutCooldownTyped ==
    ASSUME TypeInv, NEW w \in Workers, PutCooldown(w)
    PROVE  TypeInv'
  <1> DEFINE j == [Idle EXCEPT !.step = "reread"]
  <1>1. j \in JobType /\ j.seen.fails <= UnhealthyAfter
    BY IdleIsJob DEF JobType, Steps
  <1>2. job' \in [Actors -> JobType] /\ \A b \in Actors : job'[b].seen.fails <= UnhealthyAfter
    BY <1>1, DoFits DEF PutCooldown, Actors
  <1>3. PICK k \in Cooldowns, d \in 1..MaxCool : acc' = [acc EXCEPT ![k] = now + d]
    BY DEF PutCooldown
  <1>4. now + d \in Nat
    BY BoundsAreNat, ThresholdPositive DEF TypeInv
  <1>5. acc' \in AccountType /\ acc'.fails <= UnhealthyAfter
    <2>1. CASE k = "rateUntil" BY <2>1, <1>3, <1>4 DEF TypeInv, AccountType
    <2>2. CASE k = "overUntil" BY <2>2, <1>3, <1>4 DEF TypeInv, AccountType
    <2>3. CASE k = "tempUntil" BY <2>3, <1>3, <1>4 DEF TypeInv, AccountType
    <2> QED BY <2>1, <2>2, <2>3, CooldownFields
  <1>6. events' \in 0..MaxEvents
    BY EventTyped DEF PutCooldown
  <1> QED BY <1>2, <1>5, <1>6 DEF PutCooldown, TypeInv

LEMMA RereadTyped ==
    ASSUME TypeInv, NEW a \in Actors, Reread(a)
    PROVE  TypeInv'
  <1> DEFINE j == [Idle EXCEPT !.step = "putState", !.next = scheduleStateOf(acc, now)]
  <1>1. j \in JobType /\ j.seen.fails <= UnhealthyAfter
    BY IdleIsJob, StateOfIsState DEF JobType, Steps
  <1>2. job' \in [Actors -> JobType] /\ \A b \in Actors : job'[b].seen.fails <= UnhealthyAfter
    BY <1>1, DoFits DEF Reread
  <1> QED BY <1>2 DEF Reread, TypeInv

LEMMA PutStateTyped ==
    ASSUME TypeInv, NEW a \in Actors, PutState(a)
    PROVE  TypeInv'
  <1>1. job' \in [Actors -> JobType] /\ \A b \in Actors : job'[b].seen.fails <= UnhealthyAfter
    BY IdleIsJob, DoFits DEF PutState
  <1>2. job[a].next \in States
    BY DEF TypeInv, JobType
  <1>3. acc' \in AccountType /\ acc'.fails <= UnhealthyAfter
    BY <1>2 DEF PutState, TypeInv, AccountType
  <1> QED BY <1>1, <1>3 DEF PutState, TypeInv

LEMMA ReadResetTyped ==
    ASSUME TypeInv, NEW w \in Workers, ReadReset(w)
    PROVE  TypeInv'
  <1> DEFINE j == [Idle EXCEPT !.step = "clear", !.seen = acc]
  <1>1. j \in JobType /\ j.seen.fails <= UnhealthyAfter
    BY IdleIsJob DEF TypeInv, JobType, Steps
  <1>2. job' \in [Actors -> JobType] /\ \A b \in Actors : job'[b].seen.fails <= UnhealthyAfter
    BY <1>1, DoFits DEF ReadReset, Actors
  <1>3. events' \in 0..MaxEvents
    BY EventTyped DEF ReadReset
  <1> QED BY <1>2, <1>3 DEF ReadReset, TypeInv

LEMMA ClearTyped ==
    ASSUME TypeInv, NEW w \in Workers, Clear(w)
    PROVE  TypeInv'
  <1> DEFINE next == scheduleStateOf(Patched(job[w].seen), now)
             j == [Idle EXCEPT !.step = "putState", !.next = next]
  <1>0. next \in States
    BY StateOfIsState
  <1>1. j \in JobType /\ j.seen.fails <= UnhealthyAfter
    <2> HIDE DEF next
    <2> QED BY <1>0, IdleIsJob DEF JobType, Steps
  <1>2. Do(w, j)
    BY DEF Clear
  <1>3. job' \in [Actors -> JobType] /\ \A b \in Actors : job'[b].seen.fails <= UnhealthyAfter
    <2> HIDE DEF j
    <2> QED BY <1>1, <1>2, DoFits DEF Actors
  <1>4. acc' \in AccountType /\ acc'.fails <= UnhealthyAfter
    BY ThresholdPositive, PatchedFits DEF Clear, TypeInv
  <1> QED BY <1>3, <1>4 DEF Clear, TypeInv

LEMMA RefreshTyped ==
    ASSUME TypeInv, Refresh
    PROVE  TypeInv'
  <1> DEFINE j == [Idle EXCEPT !.step = "putState", !.next = scheduleStateOf(acc, now)]
  <1>1. j \in JobType /\ j.seen.fails <= UnhealthyAfter
    BY IdleIsJob, StateOfIsState DEF JobType, Steps
  <1>2. job' \in [Actors -> JobType] /\ \A b \in Actors : job'[b].seen.fails <= UnhealthyAfter
    BY <1>1, DoFits DEF Refresh, Actors
  <1> QED BY <1>2 DEF Refresh, TypeInv

LEMMA OutsideTyped ==
    ASSUME TypeInv, Spend \/ Edit \/ BulkSchedule \/ Upstream \/ Tick
    PROVE  TypeInv'
  <1>1. CASE Spend
    <2>1. Used(acc.dayUsed, acc.dayMark, utcDay(now)) + 1 \in Nat
      BY DEF Used, TypeInv, AccountType
    <2>2. utcDay(now) \in Nat
      BY LengthsPositive, BoundsAreNat DEF utcDay, TypeInv
    <2>3. acc' \in AccountType /\ acc'.fails <= UnhealthyAfter
      BY <1>1, <2>1, <2>2 DEF Spend, TypeInv, AccountType
    <2> QED BY <1>1, <2>3, EventTyped DEF Spend, TypeInv
  <1>2. CASE Edit
    <2>1. acc' \in AccountType /\ acc'.fails <= UnhealthyAfter
      BY <1>2 DEF Edit, TypeInv, AccountType
    <2> QED BY <1>2, <2>1, EventTyped DEF Edit, TypeInv
  <1>3. CASE BulkSchedule
    <2>1. acc' \in AccountType /\ acc'.fails <= UnhealthyAfter
      <3>1. acc \in AccountType /\ acc.fails <= UnhealthyAfter BY DEF TypeInv
      <3>2. "schedulable" \in States /\ "manual" \in States BY DEF States
      <3>3. CASE acc' = [acc EXCEPT !.manual = FALSE, !.stored = "schedulable"]
        <4>1. acc' \in AccountType /\ acc'.fails = acc.fails
          BY <3>1, <3>2, <3>3, FALSE \in BOOLEAN, SetManual, Zenon
        <4> QED BY <3>1, <4>1
      <3>4. CASE acc' = [acc EXCEPT !.manual = TRUE, !.stored = "manual"]
        <4>1. acc' \in AccountType /\ acc'.fails = acc.fails
          BY <3>1, <3>2, <3>4, TRUE \in BOOLEAN, SetManual, Zenon
        <4> QED BY <3>1, <4>1
      <3> QED BY <1>3, <3>3, <3>4 DEF BulkSchedule
    <2> QED BY <1>3, <2>1, EventTyped DEF BulkSchedule, TypeInv
  <1>4. CASE Upstream
    BY <1>4, EventTyped DEF Upstream, TypeInv
  <1>5. CASE Tick
    BY <1>5, BoundsAreNat DEF Tick, TypeInv
  <1> QED BY <1>1, <1>2, <1>3, <1>4, <1>5

LEMMA NextTyped == TypeInv /\ [Next]_vars => TypeInv'
  <1> SUFFICES ASSUME TypeInv, [Next]_vars PROVE TypeInv' OBVIOUS
  <1>1. ASSUME NEW w \in Workers, WorkerResult(w) PROVE TypeInv'
    BY <1>1, EventTyped, ReadResultTyped DEF WorkerResult, Actors
  <1>2. ASSUME NEW w \in Workers, PutCooldown(w) \/ ReadReset(w) \/ Clear(w) PROVE TypeInv'
    BY <1>2, PutCooldownTyped, ReadResetTyped, ClearTyped
  <1>3. ASSUME NEW a \in Actors, Step(a) PROVE TypeInv'
    BY <1>3, PutResultTyped, RereadTyped, PutStateTyped DEF Step
  <1>4. CASE Probe
    <2>1. events' \in 0..MaxEvents BY <1>4 DEF Probe, TypeInv
    <2> QED BY <1>4, <2>1, ReadResultTyped DEF Probe, Actors
  <1>5. CASE Refresh BY <1>5, RefreshTyped
  <1>6. CASE Spend \/ Edit \/ BulkSchedule \/ Upstream \/ Tick BY <1>6, OutsideTyped
  <1>7. CASE UNCHANGED vars BY <1>7 DEF vars, TypeInv
  <1> QED BY <1>1, <1>2, <1>3, <1>4, <1>5, <1>6, <1>7 DEF Next

(* The record and the jobs are well typed, and a count of failures never    *)
(* passes the threshold, whichever writers overlap.                         *)
THEOREM TypeCorrect == Spec => []TypeInv
  BY InitTyped, NextTyped, PTL DEF Spec

(* What the list would show is what the gateway would do, at every moment   *)
(* of every behaviour.                                                      *)
THEOREM ListIsTheGateway == Spec => []ListAgreesWithGateway
  <1>1. TypeInv => ListAgreesWithGateway
    <2> SUFFICES ASSUME TypeInv PROVE ListAgreesWithGateway OBVIOUS
    <2>1. acc \in AccountType /\ now \in Nat BY BoundsAreNat DEF TypeInv
    <2> QED BY <2>1, SameCriterion DEF ListAgreesWithGateway
  <1> QED BY <1>1, TypeCorrect, PTL
-----------------------------------------------------------------------------
(* The cool-downs of the record stay as they are. *)
KeepsCooldowns ==
    /\ acc'.rateUntil = acc.rateUntil
    /\ acc'.overUntil = acc.overUntil
    /\ acc'.tempUntil = acc.tempUntil

LEMMA StepKeepsCooldowns ==
    ASSUME TypeInv, NEW a \in Actors, Step(a)
    PROVE  KeepsCooldowns
  <1>1. acc \in AccountType BY DEF TypeInv
  <1>2. CASE PutResult(a) BY <1>1, <1>2 DEF PutResult, KeepsCooldowns, AccountType
  <1>3. CASE Reread(a) BY <1>3 DEF Reread, KeepsCooldowns
  <1>4. CASE PutState(a) BY <1>1, <1>4 DEF PutState, KeepsCooldowns, AccountType
  <1> QED BY <1>2, <1>3, <1>4 DEF Step

LEMMA OutsideKeepsCooldowns ==
    ASSUME TypeInv, Spend \/ Edit \/ BulkSchedule \/ Upstream \/ Tick
    PROVE  KeepsCooldowns
  <1>1. acc \in AccountType BY DEF TypeInv
  <1>2. CASE Spend BY <1>1, <1>2 DEF Spend, KeepsCooldowns, AccountType
  <1>3. CASE Edit BY <1>1, <1>3 DEF Edit, KeepsCooldowns, AccountType
  <1>4. CASE BulkSchedule BY <1>1, <1>4 DEF BulkSchedule, KeepsCooldowns, AccountType
  <1>5. CASE Upstream \/ Tick BY <1>5 DEF Upstream, Tick, KeepsCooldowns
  <1> QED BY <1>2, <1>3, <1>4, <1>5

(* A new cool-down lies in the future, and the others stay. *)
LEMMA CooldownIsAhead ==
    ASSUME TypeInv, NEW w \in Workers, PutCooldown(w), NEW k \in Cooldowns
    PROVE  acc'[k] = acc[k] \/ acc'[k] > now
  <1>1. acc \in AccountType /\ now \in Nat BY BoundsAreNat DEF TypeInv
  <1>2. PICK i \in Cooldowns, d \in 1..MaxCool : acc' = [acc EXCEPT ![i] = now + d]
    BY DEF PutCooldown
  <1>3. now + d > now BY <1>1, ThresholdPositive
  <1>4. CASE k = i
    <2>1. acc'[k] = now + d BY <1>1, <1>2, <1>4, CooldownFields DEF AccountType
    <2> QED BY <1>3, <2>1
  <1>5. CASE k # i BY <1>1, <1>2, <1>5
  <1> QED BY <1>4, <1>5

(* A running cool-down is shortened or ended only by a reset by hand or by  *)
(* another cool-down of its kind, which replaces it whichever is longer     *)
(* (markRateLimited and its like), whatever results, edits, refreshes and   *)
(* bulk actions race with it.                                               *)
THEOREM CooldownsLast == Spec => NoCooldownLost
  <1> DEFINE Lasts == \A k \in Cooldowns :
                        acc[k] > now /\ acc'[k] < acc[k] =>
                           \/ Clearing
                           \/ acc'[k] > now /\ \E w \in Workers : PutCooldown(w)
  <1>1. TypeInv /\ KeepsCooldowns => Lasts
    <2>1. ASSUME TypeInv, KeepsCooldowns, NEW k \in Cooldowns
          PROVE  acc'[k] = acc[k] /\ acc[k] \in Int
      BY <2>1, CooldownFields DEF KeepsCooldowns, TypeInv, AccountType
    <2>2. QED
      BY <2>1
  <1>2. TypeInv /\ [Next]_vars => Lasts
    <2> SUFFICES ASSUME TypeInv, [Next]_vars PROVE Lasts OBVIOUS
    <2> HIDE DEF Lasts
    <2>1. ASSUME NEW w \in Workers, WorkerResult(w) \/ ReadReset(w) PROVE Lasts
      BY <1>1, <2>1 DEF WorkerResult, ReadResult, ReadReset, KeepsCooldowns
    <2>2. ASSUME NEW w \in Workers, PutCooldown(w) PROVE Lasts
      <3>1. \A k \in Cooldowns : acc'[k] = acc[k] \/ acc'[k] > now
        BY <2>2, CooldownIsAhead
      <3>2. \A k \in Cooldowns : acc[k] \in Int
        BY CooldownFields DEF TypeInv, AccountType
      <3>3. QED
        BY <2>2, <3>1, <3>2 DEF Lasts
    <2>3. ASSUME NEW w \in Workers, Clear(w) PROVE Lasts
      <3>1. job \in [Actors -> JobType] /\ w \in Actors BY DEF TypeInv, Actors
      <3>2. job'[w].step = "putState" BY <2>3, <3>1 DEF Clear, Do, JobType, Idle
      <3>3. Clearing BY <2>3, <3>2 DEF Clear, Clearing
      <3> QED BY <3>3 DEF Lasts
    <2>4. ASSUME NEW a \in Actors, Step(a) PROVE Lasts
      BY <1>1, <2>4, StepKeepsCooldowns
    <2>5. CASE Probe \/ Refresh
      BY <1>1, <2>5 DEF Probe, ReadResult, Refresh, KeepsCooldowns
    <2>6. CASE Spend \/ Edit \/ BulkSchedule \/ Upstream \/ Tick
      BY <1>1, <2>6, OutsideKeepsCooldowns
    <2>7. CASE UNCHANGED vars
      BY <1>1, <2>7 DEF vars, KeepsCooldowns
    <2> QED BY <2>1, <2>2, <2>3, <2>4, <2>5, <2>6, <2>7 DEF Next
  <1> QED BY <1>2, TypeCorrect, PTL DEF Spec, NoCooldownLost

(* The account of Recovery is the account of AiAccount.                    *)
THEOREM RecoveryHasTheAccount == RecoverySpec => Spec
  <1>1. RecoveryInit => Init BY DEF RecoveryInit
  <1>2. [RecoveryNext]_allVars => [Next]_vars
    BY DEF RecoveryNext, InAccount, InBody, InMail, allVars
  <1> QED BY <1>1, <1>2, PTL DEF RecoverySpec, Spec

(* So it keeps all that is shown above, whatever it is composed with.      *)
THEOREM AccountKept ==
    RecoverySpec => []TypeInv /\ []ListAgreesWithGateway /\ NoCooldownLost
  BY RecoveryHasTheAccount, TypeCorrect, ListIsTheGateway, CooldownsLast, PTL

-----------------------------------------------------------------------------
(* The bodies of notes (NoteBody).                                         *)
RowStates == {"", "saved", "none", "failed"}
RowType   == [rev : 0..MaxRev, hint : BOOLEAN, file : BOOLEAN, state : RowStates]
NoteType  == [rev : 1..MaxRev, has : Body!Attached]
GotType   == [rev : 0..MaxRev, has : Body!Attached]
KeptType  == [file : BOOLEAN, state : RowStates]
TaskSteps == {"rest", "next", "prev", "body", "audio", "failed"}
TaskType  == [at : TaskSteps, n : SUBSET Notes, todo : SUBSET Notes, got : GotType,
              kept : KeptType, blind : BOOLEAN, late : BOOLEAN, passed : BOOLEAN]

BodyTypes ==
    /\ note \in [Notes -> NoteType]
    /\ body \in [Notes -> RowType]
    /\ task \in [Body!Tasks -> TaskType]

RowFits(n) == (body[n].state = "saved" => body[n].file) /\ body[n].rev <= note[n].rev

(* What a task holds of a note fits it and its row: the task has fetched no *)
(* revision to come and, unless it was passed, none older than the stored   *)
(* one; and once it has read the row, it has the recording of the row,      *)
(* unless the reading failed or the recording came later.                   *)
FitsRow(z, f, r) ==
    /\ (z.at \in {"prev", "body"} => z.got.rev <= f.rev /\ (r.rev <= z.got.rev \/ z.passed))
    /\ (z.at = "body" /\ r.file => z.kept.file \/ z.blind \/ z.late)
Sound(z) == (z.kept.state = "saved" => z.kept.file) /\ \A n, m \in z.n : n = m
TaskFits(z) == Sound(z) /\ \A n \in z.n : FitsRow(z, note[n], body[n])

(* A task that is about to write no body fits any row.                     *)
Settled(z) == z \in TaskType /\ Sound(z) /\ z.at \notin {"prev", "body"}

BodyInv ==
    /\ BodyTypes
    /\ \A n \in Notes : RowFits(n)
    /\ \A s \in Body!Tasks : TaskFits(task[s])

LEMMA BodyConstants == MaxRev \in Nat /\ MaxRev > 0
  BY BodyAssumption DEF Body!BodyAssumption

(* What a row without a recording keeps, and a task at rest has fetched.    *)
Kept0 == Body!Audio(Body!NoRow)
Got0  == Body!Rest.got

LEMMA NothingKept == /\ Kept0 \in KeptType /\ Kept0.state = "" /\ Kept0.file = FALSE
                     /\ Got0 = [rev |-> 0, has |-> "nothing"] /\ Got0 \in GotType
  <1>1. Kept0 = [file |-> FALSE, state |-> ""] BY DEF Kept0, Body!Audio, Body!NoRow
  <1>2. Got0 = [rev |-> 0, has |-> "nothing"] BY DEF Got0, Body!Rest
  <1>3. Got0 \in GotType BY <1>2, BodyConstants DEF GotType, Body!Attached
  <1> QED BY <1>1, <1>2, <1>3 DEF KeptType, RowStates

LEMMA RestIs ==
    Body!Rest = [at |-> "rest", n |-> {}, todo |-> {}, got |-> Got0, kept |-> Kept0,
                 blind |-> FALSE, late |-> FALSE, passed |-> FALSE]
  BY NothingKept DEF Body!Rest, Kept0

LEMMA SettledFits ==
    ASSUME NEW z, Settled(z), NEW f, NEW r
    PROVE  z \in TaskType /\ Sound(z) /\ FitsRow(z, f, r)
  BY DEF Settled, FitsRow

LEMMA RestSettled == Settled(Body!Rest) /\ TaskFits(Body!Rest)
  <1>1. Body!Rest \in TaskType BY RestIs, NothingKept DEF TaskType, TaskSteps
  <1>2. Body!Rest.at = "rest" /\ Body!Rest.n = {} /\ Body!Rest.kept = Kept0 BY RestIs
  <1>3. Settled(Body!Rest) BY <1>1, <1>2, NothingKept DEF Settled, Sound
  <1> QED BY <1>2, <1>3, SettledFits DEF TaskFits

LEMMA BodyInit == Body!Init => BodyInv
  <1> SUFFICES ASSUME Body!Init PROVE BodyInv OBVIOUS
  <1>1. /\ note \in [Notes -> [rev : {1}, has : Body!Attached]]
        /\ body = [n \in Notes |-> Body!NoRow] /\ task = [t \in Body!Tasks |-> Body!Rest]
    BY DEF Body!Init
  <1> DEFINE r == Body!NoRow
  <1>2. r \in RowType /\ r.rev = 0 /\ r.state = ""
    BY BodyConstants DEF Body!NoRow, RowType, RowStates
  <1> HIDE DEF r
  <1>3. \A n \in Notes : note[n] \in NoteType /\ note[n].rev = 1
    BY <1>1, BodyConstants DEF NoteType
  <1>4. BodyTypes BY <1>1, <1>2, <1>3, RestSettled, SettledFits DEF BodyTypes, r
  <1>5. ASSUME NEW n \in Notes PROVE RowFits(n)
    <2>1. body[n] = r BY <1>1 DEF r
    <2>2. body[n].rev = 0 /\ note[n].rev = 1 BY <1>2, <1>3, <2>1
    <2>3. body[n].state = "" BY <1>2, <2>1
    <2>4. body[n].state # "saved" BY <2>3
    <2> QED BY <2>2, <2>4 DEF RowFits
  <1> QED BY <1>1, <1>4, <1>5, RestSettled, SettledFits DEF BodyInv

(* What a task or a row is, once its sets are known.                       *)
LEMMA TaskFields ==
    ASSUME NEW z \in TaskType
    PROVE  /\ z.at \in TaskSteps /\ z.n \subseteq Notes /\ z.todo \subseteq Notes
           /\ z.got \in GotType /\ z.got.rev \in Nat
           /\ z.kept \in KeptType /\ z.kept.file \in BOOLEAN /\ z.kept.state \in RowStates
           /\ z.blind \in BOOLEAN /\ z.late \in BOOLEAN /\ z.passed \in BOOLEAN
  BY BodyConstants DEF TaskType, GotType, KeptType


(* The records that the steps make of a task.                              *)
Fetched(ns, td, g) == [Body!Rest EXCEPT !.at = "prev", !.n = ns, !.got = g, !.todo = td]
Opened(ns, g)      == [Body!Rest EXCEPT !.at = "prev", !.n = ns, !.got = g]
Listing(td)        == [Body!Rest EXCEPT !.at = "next", !.todo = td]
Unfetched(ns, td)  == [Body!Rest EXCEPT !.at = "failed", !.n = ns, !.todo = td]
Hearing(ns, td, g) == [Body!Rest EXCEPT !.at = "audio", !.n = ns, !.todo = td, !.got = g]
At(z, a)        == [z EXCEPT !.at = a]
Read(z, k)      == [z EXCEPT !.at = "body", !.kept = k]
Blind(z)        == [z EXCEPT !.at = "body", !.blind = TRUE]
Passed(z, p, l) == [z EXCEPT !.passed = p, !.late = l]

LEMMA FreshTasks ==
    /\ \A ns, td \in SUBSET Notes, g \in GotType :
         /\ Fetched(ns, td, g) \in TaskType
         /\ Fetched(ns, td, g).at = "prev" /\ Fetched(ns, td, g).n = ns
         /\ Fetched(ns, td, g).got = g /\ Fetched(ns, td, g).kept = Kept0
    /\ \A ns \in SUBSET Notes, g \in GotType :
         /\ Opened(ns, g) \in TaskType
         /\ Opened(ns, g).at = "prev" /\ Opened(ns, g).n = ns
         /\ Opened(ns, g).got = g /\ Opened(ns, g).kept = Kept0
    /\ \A td \in SUBSET Notes :
         /\ Listing(td) \in TaskType
         /\ Listing(td).at = "next" /\ Listing(td).n = {} /\ Listing(td).kept = Kept0
    /\ \A ns, td \in SUBSET Notes :
         /\ Unfetched(ns, td) \in TaskType
         /\ Unfetched(ns, td).at = "failed" /\ Unfetched(ns, td).n = ns
         /\ Unfetched(ns, td).kept = Kept0
    /\ \A ns, td \in SUBSET Notes, g \in GotType :
         /\ Hearing(ns, td, g) \in TaskType
         /\ Hearing(ns, td, g).at = "audio" /\ Hearing(ns, td, g).n = ns
         /\ Hearing(ns, td, g).kept = Kept0
  <1> DEFINE A == TaskSteps
             S == SUBSET Notes
             G == GotType
             K == KeptType
             r == Body!Rest
  <1>1. TaskType = [at : A, n : S, todo : S, got : G, kept : K,
                    blind : BOOLEAN, late : BOOLEAN, passed : BOOLEAN]
    BY DEF TaskType
  <1>2. "prev" \in A /\ "next" \in A /\ "failed" \in A /\ "audio" \in A BY DEF TaskSteps
  <1>3. r \in TaskType /\ r.n = {} /\ r.got = Got0 /\ r.kept = Kept0
    BY RestIs, RestSettled DEF Settled
  <1> HIDE DEF A, S, G, K, r
  <1>4. \A ns, td \in S, g \in G :
          /\ Fetched(ns, td, g) \in TaskType
          /\ Fetched(ns, td, g).at = "prev" /\ Fetched(ns, td, g).n = ns
          /\ Fetched(ns, td, g).got = g /\ Fetched(ns, td, g).kept = Kept0
    <2> SUFFICES ASSUME NEW ns \in S, NEW td \in S, NEW g \in G
                 PROVE  /\ Fetched(ns, td, g) \in TaskType /\ Fetched(ns, td, g).at = "prev"
                        /\ Fetched(ns, td, g).n = ns /\ Fetched(ns, td, g).got = g /\ Fetched(ns, td, g).kept = Kept0
      OBVIOUS
    <2> DEFINE z == [r EXCEPT !.at = "prev", !.n = ns, !.got = g, !.todo = td]
    <2>1. z \in TaskType /\ z.at = "prev" /\ z.n = ns /\ z.got = g /\ z.kept = Kept0 BY <1>1, <1>2, <1>3
    <2>2. Fetched(ns, td, g) = z BY DEF Fetched, r
    <2> QED BY <2>1, <2>2
  <1>5. \A ns \in S, g \in G :
          /\ Opened(ns, g) \in TaskType
          /\ Opened(ns, g).at = "prev" /\ Opened(ns, g).n = ns
          /\ Opened(ns, g).got = g /\ Opened(ns, g).kept = Kept0
    <2> SUFFICES ASSUME NEW ns \in S, NEW g \in G
                 PROVE  /\ Opened(ns, g) \in TaskType /\ Opened(ns, g).at = "prev"
                        /\ Opened(ns, g).n = ns /\ Opened(ns, g).got = g /\ Opened(ns, g).kept = Kept0
      OBVIOUS
    <2> DEFINE z == [r EXCEPT !.at = "prev", !.n = ns, !.got = g]
    <2>1. z \in TaskType /\ z.at = "prev" /\ z.n = ns /\ z.got = g /\ z.kept = Kept0 BY <1>1, <1>2, <1>3
    <2>2. Opened(ns, g) = z BY DEF Opened, r
    <2> QED BY <2>1, <2>2
  <1>6. \A td \in S :
          /\ Listing(td) \in TaskType
          /\ Listing(td).at = "next" /\ Listing(td).n = {} /\ Listing(td).kept = Kept0
    <2> SUFFICES ASSUME NEW td \in S
                 PROVE  /\ Listing(td) \in TaskType /\ Listing(td).at = "next"
                        /\ Listing(td).n = {} /\ Listing(td).kept = Kept0
      OBVIOUS
    <2> DEFINE z == [r EXCEPT !.at = "next", !.todo = td]
    <2>1. z \in TaskType /\ z.at = "next" /\ z.n = {} /\ z.kept = Kept0 BY <1>1, <1>2, <1>3
    <2>2. Listing(td) = z BY DEF Listing, r
    <2> QED BY <2>1, <2>2
  <1>7. \A ns, td \in S :
          /\ Unfetched(ns, td) \in TaskType
          /\ Unfetched(ns, td).at = "failed" /\ Unfetched(ns, td).n = ns
          /\ Unfetched(ns, td).kept = Kept0
    <2> SUFFICES ASSUME NEW ns \in S, NEW td \in S
                 PROVE  /\ Unfetched(ns, td) \in TaskType /\ Unfetched(ns, td).at = "failed"
                        /\ Unfetched(ns, td).n = ns /\ Unfetched(ns, td).kept = Kept0
      OBVIOUS
    <2> DEFINE z == [r EXCEPT !.at = "failed", !.n = ns, !.todo = td]
    <2>1. z \in TaskType /\ z.at = "failed" /\ z.n = ns /\ z.kept = Kept0 BY <1>1, <1>2, <1>3
    <2>2. Unfetched(ns, td) = z BY DEF Unfetched, r
    <2> QED BY <2>1, <2>2
  <1>8. \A ns, td \in S, g \in G :
          /\ Hearing(ns, td, g) \in TaskType
          /\ Hearing(ns, td, g).at = "audio" /\ Hearing(ns, td, g).n = ns
          /\ Hearing(ns, td, g).kept = Kept0
    <2> SUFFICES ASSUME NEW ns \in S, NEW td \in S, NEW g \in G
                 PROVE  /\ Hearing(ns, td, g) \in TaskType /\ Hearing(ns, td, g).at = "audio"
                        /\ Hearing(ns, td, g).n = ns /\ Hearing(ns, td, g).kept = Kept0
      OBVIOUS
    <2> DEFINE z == [r EXCEPT !.at = "audio", !.n = ns, !.todo = td, !.got = g]
    <2>1. z \in TaskType /\ z.at = "audio" /\ z.n = ns /\ z.kept = Kept0 BY <1>1, <1>2, <1>3
    <2>2. Hearing(ns, td, g) = z BY DEF Hearing, r
    <2> QED BY <2>1, <2>2
  <1> QED BY <1>4, <1>5, <1>6, <1>7, <1>8 DEF S, G

LEMMA TaskEdits ==
    ASSUME NEW z \in TaskType
    PROVE  /\ \A a \in TaskSteps :
                /\ At(z, a) \in TaskType /\ At(z, a).at = a
                /\ At(z, a).n = z.n /\ At(z, a).kept = z.kept
           /\ \A k \in KeptType :
                /\ Read(z, k) \in TaskType /\ Read(z, k).at = "body" /\ Read(z, k).kept = k
                /\ Read(z, k).n = z.n /\ Read(z, k).got = z.got
                /\ Read(z, k).passed = z.passed
           /\ /\ Blind(z) \in TaskType /\ Blind(z).at = "body" /\ Blind(z).blind
              /\ Blind(z).n = z.n /\ Blind(z).got = z.got /\ Blind(z).kept = z.kept
              /\ Blind(z).passed = z.passed
  <1> DEFINE A == TaskSteps
             S == SUBSET Notes
             G == GotType
             K == KeptType
  <1>1. TaskType = [at : A, n : S, todo : S, got : G, kept : K,
                    blind : BOOLEAN, late : BOOLEAN, passed : BOOLEAN]
    BY DEF TaskType
  <1>2. "body" \in A BY DEF TaskSteps
  <1> HIDE DEF A, S, G, K
  <1>3. \A a \in A : /\ At(z, a) \in TaskType /\ At(z, a).at = a
                     /\ At(z, a).n = z.n /\ At(z, a).kept = z.kept
    BY <1>1 DEF At
  <1>4. \A k \in K :
          /\ Read(z, k) \in TaskType /\ Read(z, k).at = "body" /\ Read(z, k).kept = k
          /\ Read(z, k).n = z.n /\ Read(z, k).got = z.got
          /\ Read(z, k).passed = z.passed
    BY <1>1, <1>2 DEF Read
  <1>5. /\ Blind(z) \in TaskType /\ Blind(z).at = "body" /\ Blind(z).blind
        /\ Blind(z).n = z.n /\ Blind(z).got = z.got /\ Blind(z).kept = z.kept
        /\ Blind(z).passed = z.passed
    BY <1>1, <1>2 DEF Blind
  <1> QED BY <1>3, <1>4, <1>5 DEF A, K

LEMMA PassedIs ==
    ASSUME NEW z \in TaskType, NEW p \in BOOLEAN, NEW l \in BOOLEAN
    PROVE  /\ Passed(z, p, l) \in TaskType
           /\ Passed(z, p, l).passed = p /\ Passed(z, p, l).late = l
           /\ Passed(z, p, l).at = z.at /\ Passed(z, p, l).n = z.n
           /\ Passed(z, p, l).got = z.got /\ Passed(z, p, l).kept = z.kept
           /\ Passed(z, p, l).blind = z.blind
  <1> DEFINE A == TaskSteps
             S == SUBSET Notes
             G == GotType
             K == KeptType
  <1>1. TaskType = [at : A, n : S, todo : S, got : G, kept : K,
                    blind : BOOLEAN, late : BOOLEAN, passed : BOOLEAN]
    BY DEF TaskType
  <1> HIDE DEF A, S, G, K
  <1> QED BY <1>1 DEF Passed

(* The rows that a mark and a recording make.                              *)
Marked(r, s) == [r EXCEPT !.state = s]
Filed(r)     == [r EXCEPT !.state = "saved", !.file = TRUE]

LEMMA RowEdits ==
    ASSUME NEW r \in RowType
    PROVE  /\ \A s \in RowStates :
                /\ Marked(r, s) \in RowType /\ Marked(r, s).state = s
                /\ Marked(r, s).file = r.file /\ Marked(r, s).rev = r.rev
           /\ Filed(r) \in RowType /\ Filed(r).file /\ Filed(r).rev = r.rev
           /\ r.rev \in Nat /\ r.file \in BOOLEAN
           /\ Body!Audio(r) \in KeptType
           /\ Body!Audio(r).file = r.file /\ Body!Audio(r).state = r.state
  <1> DEFINE V == 0..MaxRev
             Q == RowStates
  <1>1. RowType = [rev : V, hint : BOOLEAN, file : BOOLEAN, state : Q] /\ V \subseteq Nat
    BY BodyConstants DEF RowType
  <1>2. "saved" \in Q /\ KeptType = [file : BOOLEAN, state : Q] BY DEF RowStates, KeptType
  <1> HIDE DEF V, Q
  <1>3. \A s \in Q : /\ Marked(r, s) \in RowType /\ Marked(r, s).state = s
                     /\ Marked(r, s).file = r.file /\ Marked(r, s).rev = r.rev
    BY <1>1 DEF Marked
  <1>4. Filed(r) \in RowType /\ Filed(r).file /\ Filed(r).rev = r.rev
    BY <1>1, <1>2 DEF Filed
  <1>5. r.rev \in Nat /\ r.file \in BOOLEAN /\ Body!Audio(r) \in KeptType
        /\ Body!Audio(r).file = r.file /\ Body!Audio(r).state = r.state
    BY <1>1, <1>2 DEF Body!Audio
  <1> QED BY <1>3, <1>4, <1>5 DEF Q

(* The invariant after a step, from what the step makes of each task.      *)
LEMMA BodyNext ==
    ASSUME note' \in [Notes -> NoteType], body' \in [Notes -> RowType],
           task' \in [Body!Tasks -> TaskType],
           \A n \in Notes : (body'[n].state = "saved" => body'[n].file)
                            /\ body'[n].rev <= note'[n].rev,
           \A s \in Body!Tasks :
             Sound(task'[s]) /\ \A n \in task'[s].n : FitsRow(task'[s], note'[n], body'[n])
    PROVE  BodyInv'
  <1>1. BodyTypes' BY DEF BodyTypes
  <1>2. \A n \in Notes : RowFits(n)' BY DEF RowFits
  <1>3. \A s \in Body!Tasks : TaskFits(task[s])' BY DEF TaskFits, Sound, FitsRow
  <1> QED BY <1>1, <1>2, <1>3 DEF BodyInv

(* A task that goes on: the rows and the notes stay as they are.           *)
LEMMA TaskMoves ==
    ASSUME BodyInv, NEW t \in Body!Tasks, NEW z \in TaskType, TaskFits(z),
           task' = [task EXCEPT ![t] = z], UNCHANGED <<note, body>>
    PROVE  BodyInv'
  <1>1. task' \in [Body!Tasks -> TaskType] BY DEF BodyInv, BodyTypes
  <1>2. \A s \in Body!Tasks : TaskFits(task'[s]) BY DEF BodyInv, BodyTypes
  <1>3. \A s \in Body!Tasks :
          Sound(task'[s]) /\ \A n \in task'[s].n : FitsRow(task'[s], note'[n], body'[n])
    BY <1>2 DEF TaskFits
  <1> QED BY <1>1, <1>3, BodyNext DEF BodyInv, BodyTypes, RowFits

(* What another task z becomes when the row r of a note n is written: it    *)
(* knows that it was passed, or that a recording came late.                *)
Follows(z, y, n, r) ==
    /\ y.at = z.at /\ y.n = z.n /\ y.got = z.got /\ y.kept = z.kept /\ y.blind = z.blind
    /\ (z.passed => y.passed) /\ (z.late => y.late)
    /\ n \in z.n =>
         /\ (z.at \in {"prev", "body"} => r.rev <= body[n].rev \/ y.passed)
         /\ (z.at = "body" /\ r.file => body[n].file \/ y.late)

(* A row that is written, and what it makes of the tasks.                  *)
LEMMA RowMoves ==
    ASSUME BodyInv, NEW t \in Body!Tasks, NEW n \in Notes, NEW r \in RowType,
           r.state = "saved" => r.file, r.rev <= note[n].rev,
           note' = note, body' = [body EXCEPT ![n] = r],
           task' \in [Body!Tasks -> TaskType], Settled(task'[t]),
           \A s \in Body!Tasks \ {t} : Follows(task[s], task'[s], n, r)
    PROVE  BodyInv'
  <1>1. /\ body' \in [Notes -> RowType] /\ body'[n] = r
        /\ \A m \in Notes : m # n => body'[m] = body[m]
    BY DEF BodyInv, BodyTypes
  <1>2. ASSUME NEW s \in Body!Tasks, s # t
        PROVE  Sound(task'[s]) /\ \A m \in task'[s].n : FitsRow(task'[s], note'[m], body'[m])
    <2> DEFINE z == task[s]
               y == task'[s]
    <2>1. z \in TaskType /\ y \in TaskType /\ Sound(z) BY DEF BodyInv, BodyTypes, TaskFits
    <2>2. \A m \in z.n : m \in Notes /\ FitsRow(z, note[m], body[m])
      BY <2>1, TaskFields DEF BodyInv, TaskFits
    <2>3. /\ y.at = z.at /\ y.n = z.n /\ y.got = z.got /\ y.kept = z.kept /\ y.blind = z.blind
          /\ (z.passed => y.passed) /\ (z.late => y.late)
          /\ n \in z.n => /\ (z.at \in {"prev", "body"} => r.rev <= body[n].rev \/ y.passed)
                          /\ (z.at = "body" /\ r.file => body[n].file \/ y.late)
      BY <1>2 DEF Follows
    <2>4. z.got.rev \in Nat /\ r.rev \in Nat /\ body[n].rev \in Nat
      BY <2>1, TaskFields, RowEdits DEF BodyInv, BodyTypes
    <2> HIDE DEF z, y
    <2>5. Sound(y) BY <2>1, <2>3 DEF Sound
    <2>6. ASSUME NEW m \in y.n, m # n PROVE FitsRow(y, note'[m], body'[m])
      BY <1>1, <2>2, <2>3, <2>6 DEF FitsRow
    <2>7. ASSUME n \in y.n PROVE FitsRow(y, note'[n], body'[n])
      <3>1. FitsRow(z, note[n], body[n]) BY <2>2, <2>3, <2>7
      <3>2. body'[n] = r /\ note'[n] = note[n] BY <1>1
      <3> QED BY <2>3, <2>4, <2>7, <3>1, <3>2 DEF FitsRow
    <2> QED BY <2>5, <2>6, <2>7 DEF y
  <1>3. Sound(task'[t]) /\ \A m \in task'[t].n : FitsRow(task'[t], note'[m], body'[m])
    BY SettledFits
  <1>4. \A m \in Notes : (body'[m].state = "saved" => body'[m].file)
                          /\ body'[m].rev <= note'[m].rev
    BY <1>1 DEF BodyInv, RowFits
  <1> QED BY <1>1, <1>2, <1>3, <1>4, BodyNext DEF BodyInv, BodyTypes

LEMMA TaskIs ==
    ASSUME BodyInv, NEW t \in Body!Tasks
    PROVE  /\ task[t] \in TaskType /\ TaskFits(task[t]) /\ Sound(task[t])
           /\ task[t].n \in SUBSET Notes /\ task[t].todo \in SUBSET Notes
           /\ task[t].got \in GotType
  <1>1. task[t] \in TaskType /\ TaskFits(task[t]) /\ Sound(task[t])
    BY DEF BodyInv, BodyTypes, TaskFits
  <1> QED BY <1>1, TaskFields

(* What a task does next, when it has stored or given up: no body.         *)
LEMMA NextSettled ==
    ASSUME BodyInv, NEW t \in Body!Tasks
    PROVE  /\ Settled(Body!Stored(t)) /\ Settled(Body!Onward(t))
           /\ Settled(At(task[t], "failed"))
  <1>1. Settled(Body!Stored(t))
    <2> DEFINE ns == task[t].n
               td == task[t].todo
               g == task[t].got
               z == Hearing(ns, td, g)
    <2>1. Body!Stored(t) = z \/ Body!Stored(t) = Body!Rest
      BY DEF Body!Stored, Hearing
    <2>2. /\ ns \in SUBSET Notes /\ td \in SUBSET Notes /\ g \in GotType
          /\ \A n, m \in ns : n = m
      BY TaskIs DEF Sound
    <2> HIDE DEF ns, td, g
    <2>3. z \in TaskType /\ z.at = "audio" /\ z.n = ns /\ z.kept = Kept0
      BY <2>2, FreshTasks
    <2> HIDE DEF z
    <2>4. Settled(z) BY <2>2, <2>3, NothingKept DEF Settled, Sound
    <2> QED BY <2>1, <2>4, RestSettled
  <1>2. Settled(Body!Onward(t))
    <2> DEFINE td == task[t].todo
               z == Listing(td)
    <2>1. Body!Onward(t) = z \/ Body!Onward(t) = Body!Rest
      BY DEF Body!Onward, Listing
    <2>2. td \in SUBSET Notes BY TaskIs
    <2> HIDE DEF td
    <2>3. z \in TaskType /\ z.at = "next" /\ z.n = {} /\ z.kept = Kept0
      BY <2>2, NothingKept, FreshTasks
    <2> HIDE DEF z
    <2>4. Settled(z) BY <2>3, NothingKept DEF Settled, Sound
    <2> QED BY <2>1, <2>4, RestSettled
  <1>3. Settled(At(task[t], "failed"))
    <2> DEFINE z == At(task[t], "failed")
    <2>1. "failed" \in TaskSteps BY DEF TaskSteps
    <2>2. z \in TaskType /\ z.at = "failed" /\ z.n = task[t].n /\ z.kept = task[t].kept
      BY <2>1, TaskIs, TaskEdits
    <2> HIDE DEF z
    <2>3. Settled(z) BY <2>2, TaskIs DEF Settled, Sound
    <2> QED BY <2>3 DEF z
  <1> QED BY <1>1, <1>2, <1>3

LEMMA NoteIs ==
    ASSUME BodyInv, NEW n \in Notes
    PROVE  /\ note[n] \in NoteType /\ note[n] \in GotType /\ note[n].rev \in Nat
           /\ body[n] \in RowType /\ RowFits(n)
  BY BodyConstants DEF BodyInv, BodyTypes, NoteType, GotType

(* The steps that write no row.                                            *)
LEMMA FetchesKeep ==
    ASSUME BodyInv, NEW t \in Body!Tasks,
           NEW n \in Notes, Body!Open(t, n) \/ Body!FetchNote(t, n) \/ Body!FetchFails(t, n)
                              \/ Body!FetchRefused(t, n)
    PROVE  BodyInv'
  <1> DEFINE g == note[n]
             td == task[t].todo \ {n}
  <1>1. {n} \in SUBSET Notes /\ td \in SUBSET Notes /\ g \in GotType
    BY TaskIs, NoteIs
  <1>2. ASSUME NEW z \in TaskType, z.at = "prev", z.n = {n}, z.got = g, z.kept = Kept0
        PROVE  TaskFits(z)
    <2>1. FitsRow(z, note[n], body[n]) BY <1>2, NoteIs DEF FitsRow, RowFits
    <2>2. Sound(z) BY <1>2, NothingKept DEF Sound
    <2> QED BY <1>2, <2>1, <2>2 DEF TaskFits
  <1>3. CASE Body!Open(t, n)
    <2> DEFINE z == Opened({n}, g)
    <2>1. task' = [task EXCEPT ![t] = z] /\ UNCHANGED <<note, body>>
      BY <1>3 DEF Body!Open, Body!Set, Opened
    <2>2. z \in TaskType /\ z.at = "prev" /\ z.n = {n} /\ z.got = g /\ z.kept = Kept0
      BY <1>1, FreshTasks
    <2> HIDE DEF z, g
    <2> QED BY <1>2, <2>1, <2>2, TaskMoves
  <1>4. CASE Body!FetchNote(t, n)
    <2> DEFINE z == Fetched({n}, td, g)
    <2>1. task' = [task EXCEPT ![t] = z] /\ UNCHANGED <<note, body>>
      BY <1>4 DEF Body!FetchNote, Body!Set, Fetched
    <2> HIDE DEF td
    <2>2. z \in TaskType /\ z.at = "prev" /\ z.n = {n} /\ z.got = g /\ z.kept = Kept0
      BY <1>1, FreshTasks
    <2> HIDE DEF z, g
    <2> QED BY <1>2, <2>1, <2>2, TaskMoves
  <1>5. CASE Body!FetchFails(t, n) \/ Body!FetchRefused(t, n)
    <2> DEFINE z == Unfetched({n}, td)
    <2>1. task' = [task EXCEPT ![t] = z] /\ UNCHANGED <<note, body>>
      BY <1>5 DEF Body!FetchFails, Body!FetchRefused, Body!Set, Unfetched
    <2> HIDE DEF td
    <2>2. z \in TaskType /\ z.at = "failed" /\ z.n = {n} /\ z.kept = Kept0
      BY <1>1, FreshTasks
    <2> HIDE DEF z
    <2>3. Settled(z) BY <2>2, NothingKept DEF Settled, Sound
    <2>4. TaskFits(z) BY <2>3, SettledFits DEF TaskFits
    <2> QED BY <2>1, <2>2, <2>4, TaskMoves
  <1> QED BY <1>3, <1>4, <1>5

LEMMA TasksKeep ==
    ASSUME BodyInv, NEW t \in Body!Tasks,
           Body!Run(t) \/ Body!ReadPrevFails(t) \/ Body!WriteBodyFails(t)
             \/ Body!AudioFails(t) \/ Body!MarkFailedFails(t)
             \/ \E n \in Notes : Body!ReadPrev(t, n)
    PROVE  BodyInv'
  <1> DEFINE w == task[t]
  <1>0. w \in TaskType /\ TaskFits(w) /\ Sound(w) BY TaskIs
  <1>1. ASSUME NEW z, Settled(z), task' = [task EXCEPT ![t] = z], UNCHANGED <<note, body>>
        PROVE  BodyInv'
    <2>1. z \in TaskType /\ TaskFits(z) BY <1>1, SettledFits DEF TaskFits
    <2> QED BY <1>1, <2>1, TaskMoves
  <1>2. CASE Body!Run(t)
    <2>1. PICK skipped : /\ task' = [task EXCEPT ![t] =
                                      Listing({n \in Notes : Body!Wanted(n)} \ skipped)]
                         /\ UNCHANGED <<note, body>>
      BY <1>2 DEF Body!Run, Body!Set, Listing
    <2> DEFINE td == {n \in Notes : Body!Wanted(n)} \ skipped
               z == Listing(td)
    <2>2. td \in SUBSET Notes /\ task' = [task EXCEPT ![t] = z] BY <2>1
    <2> HIDE DEF td
    <2>3. z \in TaskType /\ z.at = "next" /\ z.n = {} /\ z.kept = Kept0
      BY <2>2, NothingKept, FreshTasks
    <2> HIDE DEF z
    <2>4. Settled(z) BY <2>3, NothingKept DEF Settled, Sound
    <2> QED BY <1>1, <2>1, <2>2, <2>4
  <1>3. CASE Body!WriteBodyFails(t)
    BY <1>1, <1>3, NextSettled DEF Body!WriteBodyFails, Body!Set
  <1>4. CASE Body!AudioFails(t)
    BY <1>1, <1>4, NextSettled DEF Body!AudioFails, Body!Set, At
  <1>5. CASE Body!MarkFailedFails(t)
    BY <1>1, <1>5, NextSettled DEF Body!MarkFailedFails, Body!Set
  <1>6. CASE Body!ReadPrevFails(t)
    <2> DEFINE z == Blind(w)
    <2>1. task' = [task EXCEPT ![t] = z] /\ UNCHANGED <<note, body>> /\ w.at = "prev"
      BY <1>6 DEF Body!ReadPrevFails, Body!Set, Blind
    <2>2. /\ z \in TaskType /\ z.at = "body" /\ z.blind /\ z.n = w.n /\ z.got = w.got
          /\ z.kept = w.kept /\ z.passed = w.passed
      BY <1>0, TaskEdits
    <2> HIDE DEF z, w
    <2>3. TaskFits(z) BY <1>0, <2>1, <2>2 DEF TaskFits, Sound, FitsRow
    <2> QED BY <2>1, <2>2, <2>3, TaskMoves
  <1>7. ASSUME NEW n \in Notes, Body!ReadPrev(t, n) PROVE BodyInv'
    <2> DEFINE k == Body!Audio(body[n])
               z == Read(w, k)
    <2>1. task' = [task EXCEPT ![t] = z] /\ UNCHANGED <<note, body>> /\ w.at = "prev" /\ n \in w.n
      BY <1>7 DEF Body!ReadPrev, Body!Set, Read
    <2>2. k \in KeptType /\ k.file = body[n].file /\ k.state = body[n].state
      BY NoteIs, RowEdits
    <2> HIDE DEF k
    <2>3. /\ z \in TaskType /\ z.at = "body" /\ z.n = w.n /\ z.got = w.got
          /\ z.kept = k /\ z.passed = w.passed
      BY <1>0, <2>2, TaskEdits
    <2> HIDE DEF z, w
    <2>4. Sound(z) BY <1>0, <2>2, <2>3, NoteIs DEF Sound, RowFits
    <2>5. ASSUME NEW m \in z.n PROVE FitsRow(z, note[m], body[m])
      <3>1. m = n /\ FitsRow(w, note[m], body[m]) BY <1>0, <2>1, <2>3 DEF TaskFits, Sound
      <3> QED BY <2>1, <2>2, <2>3, <3>1 DEF FitsRow
    <2>6. TaskFits(z) BY <2>4, <2>5 DEF TaskFits
    <2> QED BY <2>1, <2>3, <2>6, TaskMoves
  <1> QED BY <1>2, <1>3, <1>4, <1>5, <1>6, <1>7

(* A mark: the row is there or stays away, and no other task moves.        *)
LEMMA MarksKeep ==
    ASSUME BodyInv, NEW t \in Body!Tasks, NEW n \in Notes,
           Body!MarkNone(t, n) \/ Body!MarkFailed(t, n)
    PROVE  BodyInv'
  <1> DEFINE z == Body!Onward(t)
  <1>1. Settled(z) BY NextSettled
  <1>2. PICK c \in RowStates :
          /\ c # "saved"
          /\ body' = IF Body!Exists(n) THEN [body EXCEPT ![n] = Marked(body[n], c)] ELSE body
          /\ task' = [task EXCEPT ![t] = z] /\ note' = note
    <2>1. "none" \in RowStates /\ "failed" \in RowStates BY DEF RowStates
    <2> QED BY <2>1 DEF Body!MarkNone, Body!MarkFailed, Body!Set, Marked
  <1> HIDE DEF z
  <1>3. task' \in [Body!Tasks -> TaskType] /\ task'[t] = z
        /\ \A s \in Body!Tasks \ {t} : task'[s] = task[s]
    BY <1>1, <1>2 DEF BodyInv, BodyTypes, Settled
  <1> DEFINE r == IF Body!Exists(n) THEN Marked(body[n], c) ELSE body[n]
  <1>4. body' = [body EXCEPT ![n] = r] BY <1>2 DEF BodyInv, BodyTypes
  <1>5. /\ r \in RowType /\ (r.state = "saved" => r.file) /\ r.rev <= note[n].rev
        /\ r.rev = body[n].rev /\ r.file = body[n].file
    <2>1. body[n] \in RowType /\ RowFits(n) BY NoteIs
    <2>2. /\ Marked(body[n], c) \in RowType /\ Marked(body[n], c).state = c
          /\ Marked(body[n], c).file = body[n].file /\ Marked(body[n], c).rev = body[n].rev
      BY <1>2, <2>1, RowEdits
    <2> QED BY <1>2, <2>1, <2>2 DEF RowFits
  <1>6. body[n].rev \in Nat BY NoteIs, RowEdits
  <1> HIDE DEF r
  <1>7. \A s \in Body!Tasks \ {t} : Follows(task[s], task'[s], n, r)
    BY <1>3, <1>5, <1>6 DEF Follows
  <1> QED BY <1>1, <1>2, <1>3, <1>4, <1>5, <1>7, RowMoves

LEMMA SaveKeeps ==
    ASSUME BodyInv, NEW t \in Body!Tasks, NEW n \in Notes,
           Body!Save(t, n) \/ Body!SaveUnanswered(t, n)
    PROVE  BodyInv'
  <1>1. PICK z : Settled(z) /\ Body!Saved(t, n, z) /\ note' = note
    BY NextSettled DEF Body!Save, Body!SaveUnanswered, At
  <1>2. /\ body' = IF Body!Exists(n) THEN [body EXCEPT ![n] = Filed(body[n])] ELSE body
        /\ task' = [s \in Body!Tasks |->
                      IF s = t THEN z
                      ELSE [task[s] EXCEPT !.late = @ \/ (task[s].at = "body" /\ n \in task[s].n)]]
    BY <1>1 DEF Body!Saved, Filed
  <1>3. ASSUME NEW s \in Body!Tasks, s # t
        PROVE  /\ task'[s] \in TaskType /\ task'[s].at = task[s].at /\ task'[s].n = task[s].n
               /\ task'[s].got = task[s].got /\ task'[s].kept = task[s].kept
               /\ task'[s].blind = task[s].blind /\ task'[s].passed = task[s].passed
               /\ (task[s].late => task'[s].late)
               /\ (task[s].at = "body" /\ n \in task[s].n => task'[s].late)
    <2> DEFINE w == task[s]
               l == w.late \/ (w.at = "body" /\ n \in w.n)
    <2>1. w \in TaskType BY TaskIs
    <2>2. task'[s] = [w EXCEPT !.late = l] BY <1>2, <1>3
    <2>3. l \in BOOLEAN OBVIOUS
    <2> HIDE DEF w, l
    <2>4. /\ [w EXCEPT !.late = l] \in TaskType
          /\ [w EXCEPT !.late = l].at = w.at /\ [w EXCEPT !.late = l].n = w.n
          /\ [w EXCEPT !.late = l].got = w.got /\ [w EXCEPT !.late = l].kept = w.kept
          /\ [w EXCEPT !.late = l].blind = w.blind /\ [w EXCEPT !.late = l].passed = w.passed
          /\ [w EXCEPT !.late = l].late = l
      <3> DEFINE A == TaskSteps
                 S == SUBSET Notes
                 G == GotType
                 K == KeptType
      <3>1. TaskType = [at : A, n : S, todo : S, got : G, kept : K,
                        blind : BOOLEAN, late : BOOLEAN, passed : BOOLEAN]
        BY DEF TaskType
      <3> HIDE DEF A, S, G, K
      <3> QED BY <2>1, <2>3, <3>1
    <2> QED BY <2>2, <2>4 DEF w, l
  <1>4. task' \in [Body!Tasks -> TaskType] /\ task'[t] = z
    <2>1. task'[t] = z /\ z \in TaskType BY <1>1, <1>2 DEF Settled
    <2>2. \A s \in Body!Tasks : task'[s] \in TaskType BY <1>3, <2>1
    <2> QED BY <1>2, <2>1, <2>2
  <1> DEFINE r == IF Body!Exists(n) THEN Filed(body[n]) ELSE body[n]
  <1>5. body' = [body EXCEPT ![n] = r] BY <1>2 DEF BodyInv, BodyTypes
  <1>6. /\ r \in RowType /\ (r.state = "saved" => r.file) /\ r.rev <= note[n].rev
        /\ r.rev = body[n].rev
    <2>1. body[n] \in RowType /\ RowFits(n) BY NoteIs
    <2>2. Filed(body[n]) \in RowType /\ Filed(body[n]).file /\ Filed(body[n]).rev = body[n].rev
      BY <2>1, RowEdits
    <2> QED BY <2>1, <2>2 DEF RowFits
  <1>7. body[n].rev \in Nat BY NoteIs, RowEdits
  <1> HIDE DEF r
  <1>8. \A s \in Body!Tasks \ {t} : Follows(task[s], task'[s], n, r)
    BY <1>3, <1>6, <1>7 DEF Follows
  <1> QED BY <1>1, <1>4, <1>5, <1>6, <1>8, RowMoves

(* What is written of a task that has read the row.                        *)
LEMMA WritesKeep ==
    ASSUME BodyInv, NEW t \in Body!Tasks, NEW n \in Notes, Body!WriteBody(t, n)
    PROVE  BodyInv'
  <1> DEFINE w == task[t]
             h == (w.got.has # "nothing")
             r == [rev |-> w.got.rev, hint |-> h, file |-> w.kept.file, state |-> w.kept.state]
             z == Body!Stored(t)
  <1>1. /\ w.at = "body" /\ n \in w.n /\ body' = [body EXCEPT ![n] = r] /\ note' = note
        /\ task' = [s \in Body!Tasks |->
                      IF s = t THEN z
                      ELSE IF n \notin task[s].n THEN task[s]
                      ELSE [task[s] EXCEPT !.passed = @ \/ task[s].at \in {"prev", "body"},
                                           !.late = @ \/ (task[t].kept.file /\ task[s].at = "body")]]
    BY DEF Body!WriteBody, Body!Passing
  <1>2. Settled(z) BY NextSettled
  <1>3. /\ r \in RowType /\ (r.state = "saved" => r.file) /\ r.rev <= note[n].rev
        /\ r.file = w.kept.file
    <2>1. w \in TaskType /\ Sound(w) /\ FitsRow(w, note[n], body[n])
      BY <1>1, TaskIs DEF TaskFits
    <2>2. w.got.rev <= note[n].rev BY <1>1, <2>1 DEF FitsRow
    <2>3. w.got.rev \in 0..MaxRev /\ w.kept.file \in BOOLEAN /\ w.kept.state \in RowStates
      BY <2>1, TaskFields DEF GotType
    <2>4. h \in BOOLEAN OBVIOUS
    <2>5. w.kept.state = "saved" => w.kept.file BY <2>1 DEF Sound
    <2> HIDE DEF w, h
    <2> QED BY <2>2, <2>3, <2>4, <2>5 DEF RowType
  <1> HIDE DEF r, z
  <1>4. ASSUME NEW s \in Body!Tasks, s # t
        PROVE  /\ task'[s] \in TaskType
               /\ task'[s].at = task[s].at /\ task'[s].n = task[s].n
               /\ task'[s].got = task[s].got /\ task'[s].kept = task[s].kept
               /\ task'[s].blind = task[s].blind
               /\ (task[s].passed => task'[s].passed) /\ (task[s].late => task'[s].late)
               /\ n \in task[s].n =>
                    /\ (task[s].at \in {"prev", "body"} => task'[s].passed)
                    /\ (task[s].at = "body" /\ w.kept.file => task'[s].late)
    <2>1. CASE n \notin task[s].n
      <3>1. task'[s] = task[s] BY <1>1, <1>4, <2>1
      <3> QED BY <2>1, <3>1, TaskIs
    <2>2. CASE n \in task[s].n
      <3> DEFINE x == task[s]
                 p == x.passed \/ x.at \in {"prev", "body"}
                 l == x.late \/ (w.kept.file /\ x.at = "body")
      <3>1. task'[s] = Passed(x, p, l) BY <1>1, <1>4, <2>2 DEF Passed
      <3>2. p \in BOOLEAN /\ l \in BOOLEAN /\ x \in TaskType BY TaskIs
      <3> HIDE DEF p, l, x
      <3>3. /\ Passed(x, p, l) \in TaskType
            /\ Passed(x, p, l).passed = p /\ Passed(x, p, l).late = l
            /\ Passed(x, p, l).at = x.at /\ Passed(x, p, l).n = x.n
            /\ Passed(x, p, l).got = x.got /\ Passed(x, p, l).kept = x.kept
            /\ Passed(x, p, l).blind = x.blind
        BY <3>2, PassedIs
      <3> QED BY <3>1, <3>3 DEF p, l, x
    <2> QED BY <2>1, <2>2
  <1>5. task' \in [Body!Tasks -> TaskType] /\ task'[t] = z
    <2>1. task'[t] = z /\ z \in TaskType BY <1>1, <1>2 DEF Settled
    <2>2. \A s \in Body!Tasks : task'[s] \in TaskType BY <1>4, <2>1
    <2> QED BY <1>1, <2>1, <2>2
  <1>6. \A s \in Body!Tasks \ {t} : Follows(task[s], task'[s], n, r)
    BY <1>3, <1>4 DEF Follows
  <1> QED BY <1>1, <1>2, <1>3, <1>5, <1>6, RowMoves

LEMMA BodyKeeps == ASSUME BodyInv, [Body!Next]_bodyVars PROVE BodyInv'
  <1>1. CASE Body!Crash
    <2>1. task' = [t \in Body!Tasks |-> Body!Rest] /\ UNCHANGED <<note, body>>
      BY <1>1 DEF Body!Crash
    <2>2. \A s \in Body!Tasks : task'[s] = Body!Rest BY <2>1
    <2>3. task' \in [Body!Tasks -> TaskType] BY <2>1, RestSettled, SettledFits
    <2>4. \A s \in Body!Tasks :
            Sound(task'[s]) /\ \A n \in task'[s].n : FitsRow(task'[s], note'[n], body'[n])
      BY <2>2, RestSettled, SettledFits
    <2> QED BY <2>1, <2>3, <2>4, BodyNext DEF BodyInv, BodyTypes, RowFits
  <1>2. ASSUME NEW m \in Notes, Body!Revise(m) PROVE BodyInv'
    <2>1. PICK has \in Body!Attached : note' = [note EXCEPT ![m] = [rev |-> note[m].rev + 1, has |-> has]]
      BY <1>2 DEF Body!Revise
    <2>2. note[m].rev < MaxRev /\ UNCHANGED <<body, task>> BY <1>2 DEF Body!Revise
    <2>3. note[m] \in NoteType /\ note[m].rev \in Nat /\ note[m].rev >= 1
      BY NoteIs, BodyConstants DEF NoteType
    <2>4. [rev |-> note[m].rev + 1, has |-> has] \in NoteType
      BY <2>2, <2>3, BodyConstants DEF NoteType
    <2>5. note' \in [Notes -> NoteType] BY <2>1, <2>4 DEF BodyInv, BodyTypes
    <2>6. \A n \in Notes : note[n].rev \in Nat /\ note'[n].rev \in Nat /\ note[n].rev <= note'[n].rev
      <3> SUFFICES ASSUME NEW n \in Notes
                   PROVE  note[n].rev \in Nat /\ note'[n].rev \in Nat /\ note[n].rev <= note'[n].rev
        OBVIOUS
      <3>1. CASE n = m BY <2>1, <2>3, <3>1 DEF BodyInv, BodyTypes
      <3>2. CASE n # m
        <4>1. note'[n] = note[n] BY <2>1, <3>2 DEF BodyInv, BodyTypes
        <4> QED BY <4>1, NoteIs
      <3> QED BY <3>1, <3>2
    <2>7. \A n \in Notes : (body'[n].state = "saved" => body'[n].file)
                            /\ body'[n].rev <= note'[n].rev
      <3> SUFFICES ASSUME NEW n \in Notes
                   PROVE  (body[n].state = "saved" => body[n].file) /\ body[n].rev <= note'[n].rev
        BY <2>2
      <3>1. body[n].rev \in Nat /\ RowFits(n) BY NoteIs, RowEdits
      <3> QED BY <2>6, <3>1 DEF RowFits
    <2>8. ASSUME NEW s \in Body!Tasks
          PROVE  Sound(task'[s]) /\ \A n \in task'[s].n : FitsRow(task'[s], note'[n], body'[n])
      <3> DEFINE z == task[s]
      <3>1. z \in TaskType /\ TaskFits(z) /\ z.got.rev \in Nat /\ z.n \subseteq Notes
        BY TaskIs, TaskFields
      <3> HIDE DEF z
      <3>2. ASSUME NEW n \in z.n PROVE FitsRow(z, note'[n], body[n])
        BY <2>6, <3>1 DEF TaskFits, FitsRow
      <3> QED BY <2>2, <3>1, <3>2 DEF TaskFits, z
    <2> QED BY <2>2, <2>5, <2>7, <2>8, BodyNext DEF BodyInv, BodyTypes
  <1>3. CASE UNCHANGED <<note, body, task>>
    BY <1>3 DEF BodyInv, BodyTypes, RowFits, TaskFits
  <1>4. ASSUME NEW m \in Notes, Body!Rekey(m) PROVE BodyInv' BY <1>3, <1>4 DEF Body!Rekey
  <1>5. CASE UNCHANGED bodyVars BY <1>3, <1>5 DEF bodyVars
  <1> QED BY <1>1, <1>2, <1>4, <1>5, FetchesKeep, TasksKeep, MarksKeep, SaveKeeps, WritesKeep
          DEF Body!Next, Body!Works

(* The notes without a credential are notes.                               *)
KeysFit == keyless \subseteq Notes

LEMMA KeysKeep == ASSUME KeysFit, [Body!Next]_bodyVars PROVE KeysFit'
  <1>1. CASE UNCHANGED keyless BY <1>1 DEF KeysFit
  <1>2. ASSUME NEW n \in Notes, Body!Rekey(n) PROVE KeysFit' BY <1>2 DEF Body!Rekey, KeysFit
  <1>3. ASSUME NEW t \in Body!Tasks, NEW n \in Notes, Body!Save(t, n) \/ Body!SaveUnanswered(t, n)
        PROVE  UNCHANGED keyless
    BY <1>3 DEF Body!Save, Body!SaveUnanswered
  <1>4. ASSUME NEW t \in Body!Tasks, Body!Run(t) PROVE UNCHANGED keyless BY <1>4 DEF Body!Run
  <1>5. CASE UNCHANGED bodyVars BY <1>1, <1>5 DEF bodyVars
  <1> QED BY <1>1, <1>2, <1>3, <1>4, <1>5
          DEF Body!Next, Body!Works, Body!ReadPrevFails, Body!WriteBodyFails, Body!AudioFails,
              Body!MarkFailedFails, Body!Open, Body!FetchFails, Body!FetchRefused, Body!FetchNote,
              Body!ReadPrev, Body!WriteBody, Body!MarkNone, Body!MarkFailed, Body!Crash, Body!Revise

LEMMA BodySafe == BodyInv /\ KeysFit => Body!TypeInv /\ Body!SavedHasFile
  <1> SUFFICES ASSUME BodyInv, KeysFit PROVE Body!TypeInv /\ Body!SavedHasFile OBVIOUS
  <1>1. \A t \in Body!Tasks : task[t].todo \subseteq Notes BY TaskIs
  <1>2. Body!TypeInv
    BY <1>1 DEF Body!TypeInv, BodyInv, BodyTypes, KeysFit, NoteType, RowType, RowStates
  <1>3. Body!SavedHasFile BY DEF Body!SavedHasFile, BodyInv, RowFits
  <1> QED BY <1>2, <1>3

(* A recording is lost, and a body goes back, by a writer that missed it.   *)
RecordingsDropped ==
    \A n \in Notes : body[n].file /\ ~ body'[n].file =>
       \E t \in Body!Tasks : Body!Writer(t, n) /\ (task[t].blind \/ task[t].late)
BodiesGoBack ==
    \A n \in Notes : body'[n].rev < body[n].rev =>
       \E t \in Body!Tasks : Body!Writer(t, n) /\ task[t].passed

LEMMA WriteSteps ==
    ASSUME BodyInv, NEW t \in Body!Tasks, NEW n \in Notes, Body!WriteBody(t, n)
    PROVE  RecordingsDropped /\ BodiesGoBack
  <1> DEFINE w == task[t]
             h == (w.got.has # "nothing")
             r == [rev |-> w.got.rev, hint |-> h, file |-> w.kept.file, state |-> w.kept.state]
  <1>1. /\ w.at = "body" /\ n \in w.n /\ body' = [body EXCEPT ![n] = r]
        /\ task'[t] = Body!Stored(t)
    BY DEF Body!WriteBody, Body!Passing
  <1>2. task'[t] # w BY <1>1, NextSettled DEF Settled
  <1>3. /\ body'[n].file = w.kept.file /\ body'[n].rev = w.got.rev
        /\ \A m \in Notes : m # n => body'[m] = body[m]
    BY <1>1 DEF BodyInv, BodyTypes
  <1>4. w \in TaskType /\ FitsRow(w, note[n], body[n]) BY <1>1, TaskIs DEF TaskFits
  <1>5. w.got.rev \in Nat /\ \A m \in Notes : body[m].rev \in Nat
    BY <1>4, TaskFields, NoteIs, RowEdits
  <1>6. Body!Writer(t, n) BY <1>1, <1>2 DEF Body!Writer
  <1> HIDE DEF w
  <1>7. body[n].file /\ ~ body'[n].file => w.blind \/ w.late
    BY <1>1, <1>3, <1>4 DEF FitsRow
  <1>8. body'[n].rev < body[n].rev => w.passed
    BY <1>1, <1>3, <1>4, <1>5 DEF FitsRow
  <1>9. RecordingsDropped
    BY <1>3, <1>6, <1>7 DEF RecordingsDropped, w
  <1>10. \A m \in Notes : ~ (body[m].rev < body[m].rev) BY <1>5
  <1>11. BodiesGoBack
    BY <1>3, <1>6, <1>8, <1>10 DEF BodiesGoBack, w
  <1> QED BY <1>9, <1>11

LEMMA BodySteps == ASSUME BodyInv, [Body!Next]_bodyVars PROVE RecordingsDropped /\ BodiesGoBack
  <1>1. \A n \in Notes : body[n].rev \in Nat /\ body[n] \in RowType BY NoteIs, RowEdits
  <1>2. ASSUME \A n \in Notes : (body[n].file => body'[n].file) /\ body'[n].rev = body[n].rev
        PROVE  RecordingsDropped /\ BodiesGoBack
    BY <1>1, <1>2 DEF RecordingsDropped, BodiesGoBack
  <1>3. CASE UNCHANGED body BY <1>2, <1>3
  <1>4. ASSUME NEW n \in Notes, NEW r \in RowType, body' = [body EXCEPT ![n] = r],
               body[n].file => r.file, r.rev = body[n].rev
        PROVE  RecordingsDropped /\ BodiesGoBack
    BY <1>2, <1>4 DEF BodyInv, BodyTypes
  <1>5. ASSUME NEW t \in Body!Tasks, NEW n \in Notes,
               Body!MarkNone(t, n) \/ Body!MarkFailed(t, n)
                 \/ Body!Save(t, n) \/ Body!SaveUnanswered(t, n)
        PROVE  RecordingsDropped /\ BodiesGoBack
    <2>1. \/ body' = body
          \/ \E c \in RowStates : body' = [body EXCEPT ![n] = Marked(body[n], c)]
          \/ body' = [body EXCEPT ![n] = Filed(body[n])]
      BY <1>5 DEF Body!MarkNone, Body!MarkFailed, Body!Save, Body!SaveUnanswered, Body!Saved,
                  Marked, Filed, RowStates
    <2>2. ASSUME NEW c \in RowStates, body' = [body EXCEPT ![n] = Marked(body[n], c)]
          PROVE  RecordingsDropped /\ BodiesGoBack
      <3>1. /\ Marked(body[n], c) \in RowType /\ Marked(body[n], c).file = body[n].file
            /\ Marked(body[n], c).rev = body[n].rev
        BY <1>1, RowEdits
      <3> QED BY <1>4, <2>2, <3>1
    <2>3. CASE body' = [body EXCEPT ![n] = Filed(body[n])]
      <3>1. Filed(body[n]) \in RowType /\ Filed(body[n]).file /\ Filed(body[n]).rev = body[n].rev
        BY <1>1, RowEdits
      <3> QED BY <1>4, <2>3, <3>1
    <2> QED BY <1>3, <2>1, <2>2, <2>3
  <1>6. CASE UNCHANGED bodyVars BY <1>3, <1>6 DEF bodyVars
  <1> QED BY <1>3, <1>5, <1>6, WriteSteps
          DEF Body!Next, Body!Works, Body!Run, Body!ReadPrevFails, Body!WriteBodyFails,
              Body!AudioFails, Body!MarkFailedFails, Body!Open, Body!FetchFails, Body!FetchNote,
              Body!ReadPrev, Body!Crash, Body!Revise, Body!Rekey, Body!FetchRefused

(* A stored recording is dropped only by a writer that missed it, and an    *)
(* older body written only over a newer one that its writer did not see.    *)
THEOREM BodiesAreKept == RecoverySpec => Body!BodyKept
  <1>1. RecoveryInit => BodyInv BY BodyInit DEF RecoveryInit
  <1>2. [RecoveryNext]_allVars => [Body!Next]_bodyVars
    BY DEF RecoveryNext, InAccount, InBody, InMail, allVars
  <1>3. BodyInv /\ [RecoveryNext]_allVars => BodyInv' BY <1>2, BodyKeeps
  <1>4. BodyInv /\ [RecoveryNext]_allVars =>
          [\A n \in Notes : body[n].file /\ ~body'[n].file =>
             \E t \in Body!Tasks : Body!Writer(t, n) /\ (task[t].blind \/ task[t].late)]_(Body!bodyVars)
    BY <1>2, BodySteps DEF RecordingsDropped, bodyVars, Body!bodyVars
  <1>5. BodyInv /\ [RecoveryNext]_allVars =>
          [\A n \in Notes : body'[n].rev < body[n].rev =>
             \E t \in Body!Tasks : Body!Writer(t, n) /\ task[t].passed]_(Body!bodyVars)
    BY <1>2, BodySteps DEF BodiesGoBack, bodyVars, Body!bodyVars
  <1>6. BodyInv /\ KeysFit => Body!TypeInv /\ Body!SavedHasFile BY BodySafe
  <1>7. RecoveryInit => KeysFit BY DEF RecoveryInit, Body!Init, KeysFit
  <1>8. KeysFit /\ [RecoveryNext]_allVars => KeysFit' BY <1>2, KeysKeep
  <1> QED BY <1>1, <1>3, <1>4, <1>5, <1>6, <1>7, <1>8, PTL
          DEF RecoverySpec, Body!BodyKept, Body!FileKept, Body!BodyForward

-----------------------------------------------------------------------------
(* The archive of a mail account (MailArchive).                            *)
LEMMA MailConstants == MaxMails \in Nat /\ MaxFaults \in Nat /\ MaxButtons \in Nat
  BY MailAssumption DEF Mail!MailAssumption

Most == Cardinality(Mail!Syncs)

LEMMA SyncsCounted == IsFiniteSet(Mail!Syncs) /\ Most \in Nat /\ Most = Mail!Cardinality(Mail!Syncs)
  <1>1. IsFiniteSet(Rounds) = Mail!IsFiniteSet(Rounds) BY DEF IsFiniteSet, Mail!IsFiniteSet
  <1>2. IsFiniteSet(Rounds) BY <1>1, MailAssumption DEF Mail!MailAssumption
  <1>3. IsFiniteSet(Rounds \cup {"button"}) BY <1>2, FS_AddElement
  <1>4. Mail!Syncs = Rounds \cup {"button"} BY DEF Mail!Syncs
  <1>5. Mail!Cardinality(Mail!Syncs) = Cardinality(Mail!Syncs)
    BY DEF Mail!Cardinality, Cardinality
  <1> QED BY <1>3, <1>4, <1>5, FS_CardinalityType DEF Most

(* A part of some syncs is no more than they are, and less without one.     *)
LEMMA Fewer ==
    \A S \in SUBSET Mail!Syncs : \A T \in SUBSET S :
        /\ Cardinality(S) \in Nat /\ Cardinality(T) \in Nat
        /\ Cardinality(T) <= Cardinality(S) /\ Cardinality(S) <= Most
        /\ \A x \in S \ T : Cardinality(T) <= Cardinality(S) - 1
  <1> SUFFICES ASSUME NEW S \in SUBSET Mail!Syncs, NEW T \in SUBSET S
               PROVE  /\ Cardinality(S) \in Nat /\ Cardinality(T) \in Nat
                      /\ Cardinality(T) <= Cardinality(S) /\ Cardinality(S) <= Most
                      /\ \A x \in S \ T : Cardinality(T) <= Cardinality(S) - 1
    OBVIOUS
  <1>1. IsFiniteSet(S) /\ Cardinality(S) <= Most BY SyncsCounted, FS_Subset DEF Most
  <1>2. IsFiniteSet(T) /\ Cardinality(T) <= Cardinality(S) BY <1>1, FS_Subset
  <1>3. Cardinality(S) \in Nat /\ Cardinality(T) \in Nat BY <1>1, <1>2, FS_CardinalityType
  <1>4. ASSUME NEW x \in S \ T PROVE Cardinality(T) <= Cardinality(S) - 1
    <2>1. IsFiniteSet(S \ {x}) /\ Cardinality(S \ {x}) = Cardinality(S) - 1
      BY <1>1, FS_RemoveElement
    <2>2. T \subseteq S \ {x} OBVIOUS
    <2> QED BY <2>1, <2>2, FS_Subset
  <1> QED BY <1>1, <1>2, <1>3, <1>4

SyncType == [at : {"off", "load", "open", "mails"}, existing : SUBSET Mail!Mails,
             folder : Mail!Folders, uid : 1..(MaxMails + 1), last : 0..MaxMails, shared : BOOLEAN]

MailTypes ==
    /\ box \in [Mail!Folders -> 0..MaxMails] /\ box["INBOX"] + box["sent"] <= MaxMails
    /\ bad \cup filtered \subseteq Mail!Mails
    /\ rows \in [Mail!Mails -> Nat]
    /\ sync \in [Mail!Syncs -> SyncType]

(* A sync that has loaded the set of mails archived, and what it lacks.     *)
Loaded(s)   == sync[s].at \in {"open", "mails"}
Lacks(s, m) == Loaded(s) /\ m \notin sync[s].existing
Lacking(m)  == {s \in Mail!Syncs : Lacks(s, m)}

(* Who loads while another is under way knows it, and a mail stored since   *)
(* the set was loaded was stored by company.                               *)
Company ==
    /\ \A s, r \in Mail!Syncs : s # r /\ Loaded(s) /\ Loaded(r) => sync[s].shared
    /\ \A s \in Mail!Syncs, m \in Mail!Mails : Lacks(s, m) /\ rows[m] > 0 => sync[s].shared

(* What has been stored of a mail, and what may be yet.                     *)
CopiesFit == \A m \in Mail!Mails : rows[m] + Cardinality(Lacking(m)) <= Most

MailInv == MailTypes /\ Company /\ CopiesFit

LEMMA SyncFields ==
    ASSUME NEW z \in SyncType
    PROVE  /\ z.at \in {"off", "load", "open", "mails"} /\ z.existing \subseteq Mail!Mails
           /\ z.folder \in Mail!Folders /\ z.uid \in Nat /\ z.uid >= 1 /\ z.uid <= MaxMails + 1
           /\ z.last \in Nat /\ z.last <= MaxMails /\ z.shared \in BOOLEAN
           /\ \A a \in {"off", "load", "open", "mails"}, e \in SUBSET Mail!Mails, f \in Mail!Folders,
                u \in 1..(MaxMails + 1), l \in 0..MaxMails, b \in BOOLEAN :
                [at |-> a, existing |-> e, folder |-> f, uid |-> u, last |-> l, shared |-> b] \in SyncType
  BY MailConstants DEF SyncType

LEMMA OffIsSync == Mail!Off \in SyncType /\ Mail!Off.at = "off"
  BY MailConstants DEF Mail!Off, SyncType, Mail!Folders

LEMMA MailInit == Mail!Init => MailInv
  <1> SUFFICES ASSUME Mail!Init PROVE MailInv OBVIOUS
  <1> USE DEF Mail!Init
  <1>1. MailTypes
    <2>1. box["INBOX"] = 0 /\ box["sent"] = 0 BY DEF Mail!Folders
    <2> QED BY <2>1, MailConstants, OffIsSync DEF MailTypes
  <1>2. \A s \in Mail!Syncs : ~ Loaded(s) BY OffIsSync DEF Loaded
  <1>3. Company BY <1>2 DEF Company, Lacks
  <1>4. ASSUME NEW m \in Mail!Mails PROVE rows[m] + Cardinality(Lacking(m)) <= Most
    <2>1. rows[m] = 0 /\ Lacking(m) = {} BY <1>2 DEF Lacking, Lacks
    <2> QED BY <2>1, SyncsCounted, FS_EmptySet
  <1> QED BY <1>1, <1>3, <1>4 DEF MailInv, CopiesFit

(* The copies of a mail fit as long as its lackers grow fewer.              *)
LEMMA FewerLack ==
    ASSUME MailInv, UNCHANGED rows,
           \A r \in Mail!Syncs, m \in Mail!Mails : Lacks(r, m)' => Lacks(r, m) \/ rows[m] = 0
    PROVE  CopiesFit'
  <1> SUFFICES ASSUME NEW m \in Mail!Mails PROVE rows[m] + Cardinality(Lacking(m)') <= Most
    BY DEF CopiesFit
  <1> DEFINE S == Lacking(m)
             T == Lacking(m)'
  <1>1. rows[m] \in Nat /\ rows[m] + Cardinality(S) <= Most
    BY DEF MailInv, MailTypes, CopiesFit
  <1>2. S \in SUBSET Mail!Syncs /\ T \in SUBSET Mail!Syncs /\ (rows[m] # 0 => T \in SUBSET S)
    BY DEF Lacking
  <1> HIDE DEF S, T
  <1>3. CASE rows[m] = 0
    <2>1. Cardinality(T) \in Nat /\ Cardinality(T) <= Most BY <1>2, Fewer
    <2> QED BY <1>3, <2>1 DEF T
  <1>4. CASE rows[m] # 0
    <2>1. /\ Cardinality(T) \in Nat /\ Cardinality(S) \in Nat
          /\ Cardinality(T) <= Cardinality(S)
      BY <1>2, <1>4, Fewer
    <2> QED BY <1>1, <2>1, SyncsCounted DEF T
  <1> QED BY <1>3, <1>4

LEMMA SyncMoves ==
    ASSUME MailInv, NEW s \in Mail!Syncs, NEW z \in SyncType, sync' = [sync EXCEPT ![s] = z],
           UNCHANGED <<box, bad, filtered, rows>>,
           z.at \in {"open", "mails"} =>
             Loaded(s) /\ z.existing = sync[s].existing /\ z.shared = sync[s].shared
    PROVE  MailInv'
  <1>1. MailTypes' BY DEF MailInv, MailTypes
  <1>2. /\ sync'[s] = z
        /\ \A r \in Mail!Syncs : r # s => sync'[r] = sync[r]
    BY DEF MailInv, MailTypes
  <1>3. \A r \in Mail!Syncs : Loaded(r)' => /\ Loaded(r) /\ sync'[r].existing = sync[r].existing
                                            /\ sync'[r].shared = sync[r].shared
    BY <1>2 DEF Loaded
  <1>4. \A r \in Mail!Syncs, m \in Mail!Mails : Lacks(r, m)' => Lacks(r, m)
    BY <1>3 DEF Lacks
  <1>5. Company' BY <1>3, <1>4 DEF MailInv, Company, Lacks
  <1>6. CopiesFit' BY <1>4, FewerLack
  <1> QED BY <1>1, <1>5, <1>6 DEF MailInv

LEMMA SyncIs ==
    ASSUME MailInv, NEW s \in Mail!Syncs
    PROVE  /\ sync[s] \in SyncType
           /\ \A z : [sync EXCEPT ![s] = z][s] = z
           /\ \A m : Mail!HasMail(s) /\ m = Mail!Mail(s) => m \in Mail!Mails
  <1>1. sync[s] \in SyncType BY DEF MailInv, MailTypes
  <1>2. Mail!HasMail(s) => Mail!Mail(s) \in Mail!Mails
    <2> DEFINE f == sync[s].folder
               u == sync[s].uid
               l == sync[s].last
    <2>1. f \in Mail!Folders /\ u \in Nat /\ u >= 1 /\ l \in Nat /\ l <= MaxMails
      BY <1>1, SyncFields
    <2>2. Mail!HasMail(s) => u <= l BY DEF Mail!HasMail
    <2>3. Mail!Mail(s) = <<f, u>> BY DEF Mail!Mail, Mail!Folder
    <2> HIDE DEF f, u, l
    <2>4. Mail!HasMail(s) => u \in 1..MaxMails BY <2>1, <2>2, MailConstants
    <2> QED BY <2>1, <2>3, <2>4 DEF Mail!Mails
  <1> QED BY <1>1, <1>2 DEF MailInv, MailTypes

(* A mail is stored, after which the sync goes on or ends.                  *)
LEMMA StoreKeeps ==
    ASSUME MailInv, NEW s \in Mail!Syncs, Mail!ToArchive(s), NEW z \in SyncType,
           sync' = [sync EXCEPT ![s] = z], rows' = [rows EXCEPT ![Mail!Mail(s)] = @ + 1],
           UNCHANGED <<box, bad, filtered>>,
           z.at \in {"open", "mails"} =>
             /\ z.existing = sync[s].existing \cup {Mail!Mail(s)} /\ z.shared = sync[s].shared
    PROVE  MailInv'
  <1> DEFINE o == Mail!Mail(s)
  <1>1. /\ sync[s] \in SyncType /\ o \in Mail!Mails /\ Loaded(s) /\ Lacks(s, o)
    BY SyncIs DEF Mail!ToArchive, Mail!HasMail, Loaded, Lacks
  <1>2. /\ sync'[s] = z
        /\ \A r \in Mail!Syncs : r # s => sync'[r] = sync[r]
    BY DEF MailInv, MailTypes
  <1>3. \A m \in Mail!Mails : rows'[m] = (IF m = o THEN rows[m] + 1 ELSE rows[m]) /\ rows[m] \in Nat
    BY DEF MailInv, MailTypes
  <1>4. MailTypes'
    <2>1. rows \in [Mail!Mails -> Nat] /\ rows' = [rows EXCEPT ![o] = rows[o] + 1]
      BY DEF MailInv, MailTypes
    <2>2. rows' \in [Mail!Mails -> Nat]
      <3> HIDE DEF o
      <3> QED BY <1>1, <2>1
    <2> QED BY <2>2 DEF MailInv, MailTypes
  <1> HIDE DEF o
  <1>5. \A r \in Mail!Syncs : Loaded(r)' => Loaded(r) /\ sync'[r].shared = sync[r].shared
    BY <1>1, <1>2 DEF Loaded
  <1>6. \A r \in Mail!Syncs, m \in Mail!Mails :
          Lacks(r, m)' => Lacks(r, m) /\ ~ (r = s /\ m = o)
    BY <1>1, <1>2, <1>5 DEF Lacks, Loaded, o
  <1>7. Company'
    <2>1. \A r, t \in Mail!Syncs : r # t /\ Loaded(r)' /\ Loaded(t)' => sync'[r].shared
      BY <1>5 DEF MailInv, Company
    <2>2. ASSUME NEW r \in Mail!Syncs, NEW m \in Mail!Mails, Lacks(r, m)', rows'[m] > 0
          PROVE  sync'[r].shared
      <3>1. Lacks(r, m) /\ ~ (r = s /\ m = o) /\ sync'[r].shared = sync[r].shared /\ Loaded(r)
        BY <1>5, <1>6, <2>2 DEF Lacks
      <3>2. CASE r # s BY <1>1, <3>1, <3>2 DEF MailInv, Company
      <3>3. CASE r = s
        <4>1. rows[m] > 0 BY <1>3, <2>2, <3>1, <3>3
        <4> QED BY <3>1, <4>1 DEF MailInv, Company
      <3> QED BY <3>2, <3>3
    <2> QED BY <2>1, <2>2 DEF Company
  <1>8. CopiesFit'
    <2> SUFFICES ASSUME NEW m \in Mail!Mails PROVE rows'[m] + Cardinality(Lacking(m)') <= Most
      BY DEF CopiesFit
    <2> DEFINE S == Lacking(m)
               T == Lacking(m)'
    <2>1. rows[m] \in Nat /\ rows[m] + Cardinality(S) <= Most
      BY DEF MailInv, MailTypes, CopiesFit
    <2>2. S \in SUBSET Mail!Syncs /\ T \in SUBSET S BY <1>6 DEF Lacking
    <2>3. m = o => s \in S \ T BY <1>1, <1>6 DEF Lacking
    <2>4. rows'[m] = IF m = o THEN rows[m] + 1 ELSE rows[m] BY <1>3
    <2> HIDE DEF S, T
    <2>5. /\ Cardinality(T) \in Nat /\ Cardinality(S) \in Nat /\ Cardinality(T) <= Cardinality(S)
          /\ m = o => Cardinality(T) <= Cardinality(S) - 1
      BY <2>2, <2>3, Fewer
    <2>6. rows'[m] + Cardinality(T) <= Most BY <2>1, <2>4, <2>5, SyncsCounted
    <2> QED BY <2>6 DEF T
  <1> QED BY <1>4, <1>7, <1>8 DEF MailInv

(* How loading and opening edit the record of a sync.                      *)
WithSet(z, e, b) == [z EXCEPT !.at = "open", !.shared = b, !.existing = e]
WithLast(z, l)   == [z EXCEPT !.at = "mails", !.uid = 1, !.last = l]

LEMMA SyncEdited ==
    ASSUME NEW z \in SyncType
    PROVE  /\ \A e \in SUBSET Mail!Mails, b \in BOOLEAN :
                /\ WithSet(z, e, b) \in SyncType /\ WithSet(z, e, b).at = "open"
                /\ WithSet(z, e, b).shared = b /\ WithSet(z, e, b).existing = e
           /\ \A l \in 0..MaxMails :
                /\ WithLast(z, l) \in SyncType /\ WithLast(z, l).at = "mails"
                /\ WithLast(z, l).shared = z.shared /\ WithLast(z, l).existing = z.existing
  <1> DEFINE A == {"off", "load", "open", "mails"}
             E == SUBSET Mail!Mails
             U == 1..(MaxMails + 1)
             L == 0..MaxMails
  <1>1. SyncType = [at : A, existing : E, folder : Mail!Folders, uid : U, last : L, shared : BOOLEAN]
    BY DEF SyncType
  <1>2. "open" \in A /\ "mails" \in A /\ 1 \in U BY MailConstants
  <1> HIDE DEF A, E, U, L
  <1>3. ASSUME NEW e \in E, NEW b \in BOOLEAN
        PROVE  LET x == [z EXCEPT !.at = "open", !.shared = b, !.existing = e]
               IN  x \in SyncType /\ x.at = "open" /\ x.shared = b /\ x.existing = e
    BY <1>1, <1>2
  <1>4. ASSUME NEW l \in L
        PROVE  LET y == [z EXCEPT !.at = "mails", !.uid = 1, !.last = l]
               IN  /\ y \in SyncType /\ y.at = "mails"
                   /\ y.shared = z.shared /\ y.existing = z.existing
    BY <1>1, <1>2
  <1>5. \A e \in E, b \in BOOLEAN :
          /\ WithSet(z, e, b) \in SyncType /\ WithSet(z, e, b).at = "open"
          /\ WithSet(z, e, b).shared = b /\ WithSet(z, e, b).existing = e
    BY <1>3 DEF WithSet
  <1>6. \A l \in L :
          /\ WithLast(z, l) \in SyncType /\ WithLast(z, l).at = "mails"
          /\ WithLast(z, l).shared = z.shared /\ WithLast(z, l).existing = z.existing
    BY <1>4 DEF WithLast
  <1> QED BY <1>5, <1>6 DEF E, L

LEMMA LoadKeeps == ASSUME MailInv, NEW s \in Mail!Syncs, Mail!Load(s) PROVE MailInv'
  <1> DEFINE known == {m \in Mail!Mails : rows[m] > 0}
             z == WithSet(Mail!Off, known, Mail!OtherOn(s))
  <1>1. /\ sync' = [r \in Mail!Syncs |->
                      IF r = s THEN z ELSE [sync[r] EXCEPT !.shared = @ \/ sync[r].at # "off"]]
        /\ UNCHANGED <<box, bad, filtered, rows>>
    BY DEF Mail!Load, WithSet
  <1>2. z \in SyncType /\ z.at = "open" /\ z.shared = Mail!OtherOn(s) /\ z.existing = known
    <2>1. Mail!OtherOn(s) \in BOOLEAN BY DEF Mail!OtherOn
    <2>2. known \in SUBSET Mail!Mails OBVIOUS
    <2> HIDE DEF known
    <2> QED BY <2>1, <2>2, OffIsSync, SyncEdited
  <1> HIDE DEF z
  <1>3. ASSUME NEW r \in Mail!Syncs, r # s
        PROVE  /\ sync'[r] \in SyncType /\ sync'[r].at = sync[r].at
               /\ sync'[r].existing = sync[r].existing
               /\ sync'[r].shared = (sync[r].shared \/ sync[r].at # "off")
    <2>1. sync[r] \in SyncType BY DEF MailInv, MailTypes
    <2>2. sync'[r] = [sync[r] EXCEPT !.shared = @ \/ sync[r].at # "off"] BY <1>1, <1>3
    <2> QED BY <2>1, <2>2 DEF SyncType
  <1>4. sync'[s] = z BY <1>1
  <1>5. MailTypes'
    <2>1. \A r \in Mail!Syncs : sync'[r] \in SyncType BY <1>2, <1>3, <1>4
    <2>2. sync' \in [Mail!Syncs -> SyncType] BY <1>1, <2>1
    <2> QED BY <1>1, <2>2 DEF MailInv, MailTypes
  <1>6. \A m \in Mail!Mails : Lacks(s, m)' => rows[m] = 0
    <2>1. \A m \in Mail!Mails : rows[m] \in Nat BY DEF MailInv, MailTypes
    <2> QED BY <1>2, <1>4, <2>1 DEF Lacks
  <1>7. \A r \in Mail!Syncs, m \in Mail!Mails : r # s /\ Lacks(r, m)' => Lacks(r, m)
    BY <1>3 DEF Lacks, Loaded
  <1>8. Company'
    <2>1. ASSUME NEW r \in Mail!Syncs, NEW t \in Mail!Syncs, r # t, Loaded(r)', Loaded(t)'
          PROVE  sync'[r].shared
      <3>1. CASE r = s
        <4>1. sync[t].at # "off" BY <1>3, <2>1, <3>1 DEF Loaded
        <4> QED BY <1>2, <1>4, <2>1, <3>1, <4>1 DEF Mail!OtherOn
      <3>2. CASE r # s
        <4>1. sync[r].at # "off" BY <1>3, <2>1, <3>2 DEF Loaded
        <4> QED BY <1>3, <3>2, <4>1
      <3> QED BY <3>1, <3>2
    <2>2. ASSUME NEW r \in Mail!Syncs, NEW m \in Mail!Mails, Lacks(r, m)', rows'[m] > 0
          PROVE  sync'[r].shared
      <3>1. rows[m] \in Nat /\ rows'[m] = rows[m] BY <1>1 DEF MailInv, MailTypes
      <3>2. r # s BY <1>6, <2>2, <3>1
      <3>3. sync[r].shared BY <1>7, <2>2, <3>1, <3>2 DEF MailInv, Company
      <3> QED BY <1>3, <3>2, <3>3
    <2> QED BY <2>1, <2>2 DEF Company
  <1>9. CopiesFit' BY <1>1, <1>6, <1>7, FewerLack
  <1> QED BY <1>5, <1>8, <1>9 DEF MailInv

LEMMA SyncKeeps ==
    ASSUME MailInv, NEW s \in Mail!Syncs,
           Mail!Start(s) \/ Mail!Open(s) \/ Mail!OpenFails(s) \/ Mail!Skip(s)
             \/ Mail!Unparsable(s) \/ Mail!Close(s)
    PROVE  MailInv'
  <1> DEFINE w == sync[s]
  <1>0. w \in SyncType BY SyncIs
  <1>1. UNCHANGED <<box, bad, filtered, rows>>
    BY DEF Mail!Start, Mail!Open, Mail!OpenFails, Mail!Skip, Mail!Unparsable, Mail!Close
  <1>2. CASE Mail!Start(s)
    <2> DEFINE z == [w EXCEPT !.at = "load"]
    <2>1. sync' = [sync EXCEPT ![s] = z] BY <1>2 DEF Mail!Start, MailInv, MailTypes
    <2>2. z \in SyncType /\ z.at = "load" BY <1>0 DEF SyncType
    <2> HIDE DEF z
    <2> QED BY <1>1, <2>1, <2>2, SyncMoves
  <1>3. CASE Mail!Open(s)
    <2> DEFINE l == box[w.folder]
               z == WithLast(w, l)
    <2>1. sync' = [sync EXCEPT ![s] = z] /\ w.at = "open"
      BY <1>3 DEF Mail!Open, Mail!Folder, MailInv, MailTypes, WithLast
    <2>2. l \in 0..MaxMails BY <1>0, SyncFields DEF MailInv, MailTypes
    <2> HIDE DEF l
    <2>3. z \in SyncType /\ z.existing = w.existing /\ z.shared = w.shared
      BY <1>0, <2>2, SyncEdited
    <2> HIDE DEF z
    <2> QED BY <1>1, <2>1, <2>3, SyncMoves DEF Loaded
  <1>4. ASSUME sync' = [sync EXCEPT ![s] = Mail!Closed(s)], w.at \in {"open", "mails"}
        PROVE  MailInv'
    <2> DEFINE z == Mail!Closed(s)
    <2>1. z = Mail!Off \/ z = [w EXCEPT !.at = "open", !.folder = "sent"]
      BY DEF Mail!Closed
    <2>2. z \in SyncType BY <1>0, <2>1, OffIsSync DEF SyncType, Mail!Folders
    <2>3. z.at \in {"open", "mails"} => z.existing = w.existing /\ z.shared = w.shared
      BY <1>0, <2>1, OffIsSync DEF SyncType
    <2> HIDE DEF z
    <2> QED BY <1>1, <1>4, <2>2, <2>3, SyncMoves DEF z, Loaded
  <1>5. CASE Mail!OpenFails(s) BY <1>4, <1>5 DEF Mail!OpenFails
  <1>6. CASE Mail!Close(s) BY <1>4, <1>6 DEF Mail!Close
  <1>7. CASE Mail!Unparsable(s)
    BY <1>1, <1>7, OffIsSync, SyncMoves DEF Mail!Unparsable
  <1>8. CASE Mail!Skip(s)
    <2> DEFINE z == [w EXCEPT !.uid = @ + 1]
    <2>1. sync' = [sync EXCEPT ![s] = z] /\ w.at = "mails" /\ w.uid <= w.last
      BY <1>8 DEF Mail!Skip, Mail!Advance, Mail!HasMail, MailInv, MailTypes
    <2>2. w.uid + 1 \in 1..(MaxMails + 1) BY <1>0, <2>1, SyncFields, MailConstants
    <2>3. z \in SyncType /\ z.existing = w.existing /\ z.shared = w.shared
      BY <1>0, <2>2 DEF SyncType
    <2> HIDE DEF z
    <2> QED BY <1>1, <2>1, <2>3, SyncMoves DEF Loaded
  <1> QED BY <1>2, <1>3, <1>5, <1>6, <1>7, <1>8

LEMMA StoresKeep ==
    ASSUME MailInv, NEW s \in Mail!Syncs, Mail!archiveOne(s) \/ Mail!archiveOneFails(s)
    PROVE  MailInv'
  <1> DEFINE w == sync[s]
             o == Mail!Mail(s)
  <1>0. w \in SyncType BY SyncIs
  <1>1. CASE Mail!archiveOne(s)
    <2> DEFINE z == [w EXCEPT !.uid = @ + 1, !.existing = @ \cup {o}]
    <2>1. sync' = [sync EXCEPT ![s] = z] /\ Mail!ToArchive(s)
      BY <1>1 DEF Mail!archiveOne, MailInv, MailTypes
    <2>2. w.uid <= w.last /\ o \in Mail!Mails BY <2>1, SyncIs DEF Mail!ToArchive, Mail!HasMail
    <2>3. w.uid + 1 \in 1..(MaxMails + 1) BY <1>0, <2>2, SyncFields, MailConstants
    <2>4. w.existing \cup {o} \in SUBSET Mail!Mails BY <1>0, <2>2, SyncFields
    <2> HIDE DEF o
    <2>5. z \in SyncType /\ z.existing = w.existing \cup {o} /\ z.shared = w.shared
      BY <1>0, <2>3, <2>4 DEF SyncType
    <2> HIDE DEF z
    <2> QED BY <1>1, <2>1, <2>5, StoreKeeps DEF Mail!archiveOne, o
  <1>2. CASE Mail!archiveOneFails(s)
    <2>1. /\ sync' = [sync EXCEPT ![s] = Mail!Off] /\ Mail!ToArchive(s)
          /\ UNCHANGED <<box, bad, filtered>>
          /\ rows' = [rows EXCEPT ![o] = @ + 1] \/ rows' = rows
      BY <1>2 DEF Mail!archiveOneFails
    <2>2. CASE rows' = [rows EXCEPT ![o] = @ + 1] BY <2>1, <2>2, OffIsSync, StoreKeeps
    <2>3. CASE rows' = rows BY <2>1, <2>3, OffIsSync, SyncMoves
    <2> QED BY <2>1, <2>2, <2>3
  <1> QED BY <1>1, <1>2

LEMMA MailKeeps == ASSUME MailInv, [Mail!Next]_mailVars PROVE MailInv'
  <1>1. CASE Mail!Crash
    <2>1. /\ sync' = [s \in Mail!Syncs |-> Mail!Off] /\ UNCHANGED <<box, bad, filtered, rows>>
      BY <1>1 DEF Mail!Crash
    <2>2. \A s \in Mail!Syncs : ~ Loaded(s)' BY <2>1, OffIsSync DEF Loaded
    <2>3. MailTypes' BY <2>1, OffIsSync DEF MailInv, MailTypes
    <2>4. Company' BY <2>2 DEF Company, Lacks
    <2>5. CopiesFit' BY <2>1, <2>2, FewerLack DEF Lacks
    <2> QED BY <2>3, <2>4, <2>5 DEF MailInv
  <1>2. ASSUME NEW f \in Mail!Folders, Mail!Arrive(f) PROVE MailInv'
    <2> DEFINE o == <<f, box[f] + 1>>
    <2>1. /\ box \in [Mail!Folders -> 0..MaxMails] /\ box["INBOX"] + box["sent"] < MaxMails
          /\ box' = [box EXCEPT ![f] = box[f] + 1]
          /\ bad' \subseteq bad \cup {o} /\ filtered' \subseteq filtered \cup {o}
          /\ UNCHANGED <<rows, sync>>
      BY <1>2 DEF Mail!Arrive, MailInv, MailTypes
    <2>2. /\ f = "INBOX" \/ f = "sent"
          /\ box["INBOX"] \in Nat /\ box["sent"] \in Nat /\ box[f] + 1 \in 1..MaxMails
      BY <2>1, MailConstants DEF Mail!Folders
    <2>3. /\ box' \in [Mail!Folders -> 0..MaxMails]
          /\ box'["INBOX"] + box'["sent"] = box["INBOX"] + box["sent"] + 1
      BY <2>1, <2>2, MailConstants DEF Mail!Folders
    <2>4. o \in Mail!Mails BY <2>2 DEF Mail!Mails
    <2>5. MailTypes'
      <3>1. bad' \cup filtered' \subseteq Mail!Mails
        BY <2>1, <2>4 DEF MailInv, MailTypes
      <3>2. box'["INBOX"] + box'["sent"] <= MaxMails BY <2>1, <2>2, <2>3, MailConstants
      <3> QED BY <2>1, <2>3, <3>1, <3>2 DEF MailInv, MailTypes
    <2>6. Company' /\ CopiesFit'
      BY <2>1, FewerLack DEF MailInv, Company, Lacks, Loaded
    <2> QED BY <2>5, <2>6 DEF MailInv
  <1>3. CASE UNCHANGED mailVars
    BY <1>3, FewerLack DEF mailVars, MailInv, MailTypes, Company, Lacks, Loaded
  <1> QED BY <1>1, <1>2, <1>3, LoadKeeps, SyncKeeps, StoresKeep DEF Mail!Next, Mail!Works

LEMMA MailSafe == MailInv => Mail!TypeInv /\ Mail!CopiesBounded
  <1> SUFFICES ASSUME MailInv PROVE Mail!TypeInv /\ Mail!CopiesBounded OBVIOUS
  <1>1. \A s \in Mail!Syncs : sync[s].existing \subseteq Mail!Mails /\ sync[s].uid <= MaxMails + 1
    BY SyncIs, SyncFields
  <1>2. Mail!TypeInv BY <1>1 DEF MailInv, MailTypes, Mail!TypeInv
  <1>3. ASSUME NEW m \in Mail!Mails PROVE rows[m] <= Most
    <2>1. Lacking(m) \in SUBSET Mail!Syncs BY DEF Lacking
    <2>2. Cardinality(Lacking(m)) \in Nat BY <2>1, Fewer
    <2>3. rows[m] \in Nat /\ rows[m] + Cardinality(Lacking(m)) <= Most
      BY DEF MailInv, MailTypes, CopiesFit
    <2> QED BY <2>2, <2>3, SyncsCounted
  <1> QED BY <1>2, <1>3, SyncsCounted DEF Mail!CopiesBounded

SecondCopiesHaveCompany ==
    \A m \in Mail!Mails : rows'[m] > rows[m] /\ rows[m] > 0 =>
       \E s \in Mail!Syncs : Mail!Mail(s) = m /\ sync[s].shared /\ sync'[s] # sync[s]

LEMMA MailSteps == ASSUME MailInv, Mail!Next PROVE SecondCopiesHaveCompany
  <1>1. ASSUME NEW s \in Mail!Syncs, Mail!archiveOne(s) \/ Mail!archiveOneFails(s)
        PROVE  SecondCopiesHaveCompany
    <2> DEFINE o == Mail!Mail(s)
    <2>0. sync[s] \in SyncType /\ (Mail!HasMail(s) => o \in Mail!Mails) BY SyncIs
    <2>1. /\ sync[s].at = "mails" /\ o \in Mail!Mails /\ Lacks(s, o)
      BY <1>1, <2>0 DEF Mail!archiveOne, Mail!archiveOneFails, Mail!ToArchive, Mail!HasMail,
                        Lacks, Loaded
    <2>2. rows' = [rows EXCEPT ![o] = @ + 1] \/ rows' = rows
      BY <1>1 DEF Mail!archiveOne, Mail!archiveOneFails
    <2>3. \A m \in Mail!Mails : m # o => rows'[m] = rows[m]
      BY <2>2 DEF MailInv, MailTypes
    <2>4. sync'[s] # sync[s]
      <3>1. CASE Mail!archiveOne(s)
        <4>1. sync'[s].uid = sync[s].uid + 1
          BY <2>0, <3>1 DEF Mail!archiveOne, MailInv, MailTypes, SyncType
        <4>2. sync[s].uid \in Nat BY <2>0, SyncFields
        <4> QED BY <4>1, <4>2
      <3>2. CASE Mail!archiveOneFails(s)
        BY <2>1, <3>2, OffIsSync DEF Mail!archiveOneFails, MailInv, MailTypes
      <3> QED BY <1>1, <3>1, <3>2
    <2>5. rows[o] > 0 => sync[s].shared BY <2>1 DEF MailInv, Company
    <2>6. \A m \in Mail!Mails : rows[m] \in Nat BY DEF MailInv, MailTypes
    <2> HIDE DEF o
    <2>7. ASSUME NEW m \in Mail!Mails, rows'[m] > rows[m], rows[m] > 0
          PROVE  m = o /\ sync[s].shared
      BY <2>3, <2>5, <2>6, <2>7
    <2> QED BY <2>4, <2>7 DEF SecondCopiesHaveCompany, o
  <1>2. ASSUME UNCHANGED rows PROVE SecondCopiesHaveCompany
    BY <1>2 DEF SecondCopiesHaveCompany, MailInv, MailTypes
  <1> QED BY <1>1, <1>2 DEF Mail!Next, Mail!Works, Mail!Start, Mail!Load, Mail!Open, Mail!Skip,
            Mail!Unparsable, Mail!Close, Mail!OpenFails, Mail!Arrive, Mail!Crash

(* A mail is archived again only by a sync that met another, and no more    *)
(* often than syncs can be under way together.                              *)
THEOREM MailIsKept == RecoverySpec => Mail!MailKept
  <1>1. RecoveryInit => MailInv BY MailInit DEF RecoveryInit
  <1>2. [RecoveryNext]_allVars => [Mail!Next]_mailVars
    BY DEF RecoveryNext, InAccount, InBody, InMail, allVars
  <1>3. MailInv /\ [RecoveryNext]_allVars => MailInv' BY <1>2, MailKeeps
  <1>4. MailInv /\ [RecoveryNext]_allVars =>
          [\A m \in Mail!Mails : rows'[m] > rows[m] /\ rows[m] > 0 =>
             \E s \in Mail!Syncs : Mail!Mail(s) = m /\ sync[s].shared /\ sync'[s] # sync[s]]_(Mail!mailVars)
    BY <1>2, MailSteps DEF SecondCopiesHaveCompany, mailVars, Mail!mailVars
  <1>5. MailInv => Mail!TypeInv /\ Mail!CopiesBounded BY MailSafe
  <1> QED BY <1>1, <1>3, <1>4, <1>5, PTL DEF RecoverySpec, Mail!MailKept, Mail!StoredTwiceOnlyInCompany

(* Both, which are the property of Recovery.                               *)
THEOREM StoresAreKept == RecoverySpec => StoresKept
  BY BodiesAreKept, MailIsKept, PTL DEF StoresKept
=============================================================================
