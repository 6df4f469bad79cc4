--------------------------- MODULE ScheduledTasks ---------------------------
(***************************************************************************)
(* The scheduler of the tasks (scheduled-tasks.runner.ts) over the hours   *)
(* around a midnight, minute by minute: a timer fires about once a minute, *)
(* a tick reads the clock, then the table of jobs, and starts what is due  *)
(* and has not run in its slot.  What has run is kept in memory, and lost  *)
(* when the process is replaced.  One job; ticks treat jobs one by one.    *)
(***************************************************************************)
EXTENDS Integers, Sequences, FiniteSets

(***************************************************************************)
(* When a task is due (packages/contracts/src/note-archive.ts): the pure   *)
(* functions that the scheduler and the tests share.  A time of day is in  *)
(* minutes.  A job is a record:                                            *)
(*   enabled, freq, at (hour*60 + minute), times (the extra times of       *)
(*   "several a day", ascending), days (empty: every day), catchUp (hours) *)
(***************************************************************************)
Freqs == {"quarter", "hourly", "daily", "several"}

NotDue == -1

(* jobRunMinutes: an empty list falls back to the single time.              *)
jobRunMinutes(job) ==
    IF job.freq = "several" /\ job.times # <<>> THEN job.times ELSE <<job.at>>

jobRunsOnWeekday(job, weekday) == job.days = {} \/ weekday \in job.days

(* The first time of day whose window holds the minute.                     *)
FirstOpen(job, minute) ==
    LET ts == jobRunMinutes(job)
        open == {i \in DOMAIN ts : ts[i] <= minute /\ minute <= ts[i] + job.catchUp * 60}
    IN  IF open = {} THEN NotDue ELSE (CHOOSE i \in open : \A k \in open : i <= k) - 1

(* Mutant: the windows of a day are not limited to the time they catch up.  *)
dueJobSlot_AllDay(job, minute) ==
    CASE job.freq = "quarter" -> minute \div 15
      [] job.freq = "hourly"  -> IF minute >= job.at THEN minute \div 60 ELSE NotDue
      [] job.freq \in {"daily", "several"} -> IF minute >= job.at THEN 0 ELSE NotDue

dueJobSlot(job, minute) ==
    CASE job.freq = "quarter" -> IF minute % 15 <= 6 THEN minute \div 15 ELSE NotDue
      [] job.freq = "hourly"  -> IF minute >= job.at /\ minute % 60 >= job.at % 60
                                 THEN minute \div 60 ELSE NotDue
      [] job.freq \in {"daily", "several"} -> FirstOpen(job, minute)

(* Mutant: the times of a day share one key.                                *)
jobSlotKey_PerDay(job, day, minute) ==
    CASE job.freq = "quarter" -> <<job.freq, day, minute \div 15>>
      [] job.freq = "hourly"  -> <<job.freq, day, minute \div 60>>
      [] job.freq \in {"daily", "several"} -> <<job.freq, day, 0>>

(* Mutant: every minute is a slot of its own.                               *)
jobSlotKey_PerMinute(job, day, minute) == <<job.freq, day, minute>>

(* What has run is remembered by this key, in the form of its frequency;    *)
(* "several a day" is at slot 0 as long as none is due.                     *)
jobSlotKey(job, day, minute) ==
    <<job.freq, day,
      CASE job.freq = "quarter" -> minute \div 15
        [] job.freq = "hourly"  -> minute \div 60
        [] job.freq = "several" -> IF dueJobSlot(job, minute) = NotDue THEN 0
                                   ELSE dueJobSlot(job, minute)
        [] job.freq = "daily"   -> 0>>

shouldRunArchiveJob(job, minute, ran, weekday) ==
    /\ job.enabled
    /\ ~ran
    /\ jobRunsOnWeekday(job, weekday)
    /\ dueJobSlot(job, minute) # NotDue

-----------------------------------------------------------------------------
CONSTANTS
    JobSet,      \* the settings a job may have
    FirstMinute, \* the clock at the beginning, on day 0
    Horizon,     \* bound: minutes that pass
    MaxStops     \* bound on stops, failed reads and edits

JobsAreJobs ==
    \A job \in JobSet :
      /\ job \in [enabled : BOOLEAN, freq : Freqs, at : 0..1439, times : Seq(0..1439),
                  days : SUBSET (0..6), catchUp : Nat]
      /\ \A i, k \in DOMAIN job.times : i < k => job.times[i] < job.times[k]
TimesAreNat == FirstMinute \in 0..1439 /\ Horizon \in Nat /\ MaxStops \in Nat

VARIABLES
    job,     \* the job's row
    now,     \* minutes since the beginning of day 0
    up,      \* the process runs
    since,   \* minutes since the timer fired
    tick,    \* the clock a running tick has read, or None
    ran,     \* ranSlots
    slotDay,
    stops,   \* stops, failed reads and edits so far
    steady,  \* history: the minute since when none of these happened
    edited,  \* history: the day of the last edit of the times, or None
    started, \* history: the slots started since the process came up
    lastRun  \* history: the minute of the clock of the last start

process == <<tick, ran, slotDay, started>>
vars == <<job, now, up, since, process, stops, steady, edited, lastRun>>

None  == -1
Day(t)    == t \div 1440
Minute(t) == t % 1440
Weekday(t) == Day(t) % 7

LastMinute == FirstMinute + Horizon

TypeInv ==
    /\ job.freq \in Freqs
    /\ now \in FirstMinute..LastMinute
    /\ up \in BOOLEAN /\ since \in 0..2
    /\ tick \in {None} \cup FirstMinute..now
    /\ ran \subseteq started /\ started \subseteq Freqs \X (0..Day(now)) \X Nat
    /\ {slotDay, edited} \subseteq {None} \cup 0..Day(now)
    /\ stops \in 0..MaxStops
    /\ steady \in FirstMinute..now /\ lastRun \in {None} \cup FirstMinute..now

Init ==
    /\ job \in JobSet
    /\ now = FirstMinute
    /\ up = TRUE
    /\ since = 0
    /\ tick = None
    /\ ran = {}
    /\ slotDay = None
    /\ stops = 0
    /\ steady = now
    /\ edited = None
    /\ started = {}
    /\ lastRun = None

Disturbed ==
    /\ stops < MaxStops
    /\ stops' = stops + 1
    /\ steady' = now

(* The timer is at most a minute late, and a tick reads the table within a  *)
(* minute.                                                                  *)
PassMinute ==
    /\ now < LastMinute
    /\ up => since < 2 /\ (tick = None \/ tick = now)
    /\ now' = now + 1
    /\ since' = IF up THEN since + 1 ELSE 0
    /\ UNCHANGED <<job, up, process, stops, steady, edited, lastRun>>

(* The timer fires; a tick under way makes this one return at once.         *)
Fire ==
    /\ up /\ tick = None
    /\ since' = 0
    /\ tick' = now
    /\ slotDay' = Day(now)
    /\ ran' = IF slotDay = Day(now) THEN ran ELSE {}
    /\ UNCHANGED <<job, now, up, started, stops, steady, edited, lastRun>>

FireInVain ==
    /\ up /\ tick # None
    /\ since' = 0
    /\ UNCHANGED <<job, now, up, process, stops, steady, edited, lastRun>>

(* Mutant: the slot is remembered when the task is over, here never.        *)
Check_Forgets ==
    /\ up /\ tick # None
    /\ tick' = None
    /\ LET slot == jobSlotKey(job, Day(tick), Minute(tick)) IN
       IF shouldRunArchiveJob(job, Minute(tick), slot \in ran, Weekday(tick))
       THEN started' = started \cup {slot} /\ lastRun' = tick
       ELSE UNCHANGED <<started, lastRun>>
    /\ UNCHANGED <<job, now, up, since, ran, slotDay, stops, steady, edited>>

(* The table is there: the job is started if it is due by the clock read.   *)
Check ==
    /\ up /\ tick # None
    /\ tick' = None
    /\ LET slot == jobSlotKey(job, Day(tick), Minute(tick)) IN
       IF shouldRunArchiveJob(job, Minute(tick), slot \in ran, Weekday(tick))
       THEN /\ ran' = ran \cup {slot}
            /\ started' = started \cup {slot}
            /\ lastRun' = tick
       ELSE UNCHANGED <<ran, started, lastRun>>
    /\ UNCHANGED <<job, now, up, since, slotDay, stops, steady, edited>>

(* The table cannot be read: loadJobs answers with no jobs.                 *)
CheckFails ==
    /\ up /\ tick # None
    /\ tick' = None
    /\ Disturbed
    /\ UNCHANGED <<job, now, up, since, ran, slotDay, started, edited, lastRun>>

(* The process ends, and another comes up: what was in memory is gone.      *)
Stop ==
    /\ up
    /\ up' = FALSE
    /\ since' = 0
    /\ tick' = None /\ ran' = {} /\ slotDay' = None /\ started' = {}
    /\ Disturbed
    /\ UNCHANGED <<job, now, edited, lastRun>>

Boot ==
    /\ ~up
    /\ up' = TRUE
    /\ steady' = now
    /\ UNCHANGED <<job, now, since, process, stops, edited, lastRun>>

(* The row is edited on the page, its switch or anything else; the next     *)
(* read of the table sees it.                                               *)
Edit(j, on) ==
    /\ job' = [j EXCEPT !.enabled = on]
    /\ edited' = IF [j EXCEPT !.enabled = job.enabled] = job THEN edited ELSE Day(now)
    /\ Disturbed
    /\ UNCHANGED <<now, up, since, process, lastRun>>

Next ==
    \/ PassMinute \/ Fire \/ FireInVain \/ Check \/ CheckFails \/ Stop \/ Boot
    \/ \E j \in JobSet, on \in BOOLEAN : Edit(j, on)

Spec == Init /\ [][Next]_vars

-----------------------------------------------------------------------------
(* What the settings say, on their own: the times of day a job is to run at *)
(* and the last minute at which each may be made up for.                    *)
Times ==
    CASE job.freq = "quarter" -> {15 * i : i \in 0..95}
      [] job.freq = "hourly"  -> {job.at + 60 * i : i \in 0..23} \cap 0..1439
      [] job.freq \in {"daily", "several"} ->
           {jobRunMinutes(job)[i] : i \in DOMAIN jobRunMinutes(job)}

Until(t) ==
    CASE job.freq = "quarter" -> t + 6
      [] job.freq = "hourly"  -> t + 59 - (t % 60)
      [] OTHER -> IF t + job.catchUp * 60 > 1439 THEN 1439 ELSE t + job.catchUp * 60

(* The windows of two times of the job do not meet.                         *)
Spaced == job.freq = "several" => \A t, u \in Times : t < u => Until(t) < u

(* A tick every second minute, and a table read that takes another one.     *)
Grace == 4

Missed(t) ==
    LET at == 1440 * Day(now) + t
        from == IF at >= steady THEN at ELSE steady
    IN  /\ up /\ job.enabled /\ jobRunsOnWeekday(job, Weekday(now))
        /\ from + Grace <= now
        /\ from + Grace <= 1440 * Day(now) + Until(t)
        /\ lastRun < at

(* Every time of the day is run at, or made up for while its window is      *)
(* open, whatever stopped the process before.                               *)
EveryTimeRuns == \A t \in Times : ~Missed(t)

(* The same for the jobs whose windows do not meet, on a day before which   *)
(* their times were last edited: a key of before the edit, of the same      *)
(* form, stands for a new time too.                                         *)
SpacedTimesRun == EveryTimeRuns \/ ~Spaced \/ edited = Day(now)

(* A restart starts nothing outside the window of one of the job's times    *)
(* of that day of the week.                                                 *)
OnlyInWindow ==
    [][lastRun' # lastRun =>
         /\ job.enabled /\ jobRunsOnWeekday(job, Weekday(lastRun'))
         /\ \E t \in Times : t <= Minute(lastRun') /\ Minute(lastRun') <= Until(t)]_vars

(* While a process lives it starts no more runs than there are times, if    *)
(* the windows do not meet: a time whose window is open together with the   *)
(* one before it may run after that one was made up for.  An edit of the    *)
(* times may let it run again on that day.                                  *)
OncePerTime ==
    [][Spaced /\ edited < Day(lastRun') /\ lastRun' # lastRun /\ started # {} =>
         \E t \in Times : LET at == 1440 * Day(lastRun') + t
                          IN  lastRun < at /\ at <= lastRun']_vars

(* SpacedTimesRun, with the types of the variables.                         *)
NoTimeMissed == TypeInv /\ SpacedTimesRun

(* A run starts inside a window of the job, and, where these do not meet,   *)
(* once for each of its times while the process lives.                      *)
StartsAreDue == OnlyInWindow /\ OncePerTime
=============================================================================
