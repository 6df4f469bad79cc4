# Formal models of acms

acms is the management system of a school: a NestJS API over a SQL store of
generic records and a Redis, a web client, and a set of services that talk to
Feishu, WeChat and AI providers.  Most of it keeps records and draws lists.
What is hard about it is concentrated in few places, where requests that run
at the same time share counters, cached copies, sessions, files and records
through separate awaited calls.  Those places are modelled here in TLA+,
checked with TLC and, as far as the provers reach, proved with TLAPS.  Paths
are relative to `src/apps/api/src/` unless they begin with `src/`.

- [The system](#the-system): components, their state and what is hard
- [The plan](#the-plan): what is done and what is left
- [The modules](#the-modules): correspondence to the code, what is abstracted
- [The runs](#the-runs): what is checked, bounds, fairness
- [The proofs](#the-proofs): what is proved, from what, along which argument
- [What the models found](#what-the-models-found)
- [Not modelled](#not-modelled)

## The system

One API process (or several) serves every request; an `await` is where another
request may run.  State that is shared lives in the SQL store (records whose
fields an update merges, and an atomic `addNumber`), in Redis (counters, cached
copies, sessions, locks, each with a lifetime), in JSON files, and in the
memory of services (caches, timers, the slots of tasks that have run).  There
are no transactions around a reading and the writing that follows from it.

### The AI gateway (`ai-route/`)

`AiGatewayController.handle` verifies the key of a caller, checks the model and
the quota of the group, takes a slot of the key, ranks the upstream accounts
that can serve the model, tries up to three of them, records usage, and gives
the slots back.

| Part | State | Operations | Correct when | Module |
|---|---|---|---|---|
| Concurrency gates | a Redis integer with a lifetime of 300 s per key and account | `acquireSlot`, `releaseSlot`, `acquireAccountSlot`, `releaseAccountSlot` | no more callers inside than the limit; what is taken is given back; a crash does not block the gate for ever | `SlotGate`, `Semaphore` |
| Request pipeline | the request's own | `handle`, `forward`, `coolDown` | each request ends; its usage is written once, and says what the caller got; no second answer after bytes went out; slots balance | `AiGateway` |
| Scheduling state | the account's record: switches, cool-downs, quotas, failures, health, the listed state | `schedulableReason`, `scheduleStateOf`, `markUpstreamResult`, `mark…`, `resetAccountState`, `bulkAction`, `addAccountUsage`, `healthCheckAll`, `refreshScheduleStates` | the list shows what the gateway does; a cool-down lasts; an account that works again comes back | `ScheduleState`, `AiAccount` |
| Usage accounting | counters and period marks | `assertGroupQuota`, `addUsageToKey`, `addAccountUsage` | no cost lost or counted twice beyond a known bound | `UsageTier` |

Hard here: every Redis command and database call is a step of its own; any may
fail and the handlers then let the caller in; failover runs through nested
`finally` blocks; results of calls that started long ago are written to a
record somebody else has changed.

### Authentication (`auth/`, `impersonate/`)

| Part | State | Operations | Correct when | Module |
|---|---|---|---|---|
| API tokens | the token's record; a copy in Redis for 60 s | `loadToken`, `verify`, `update`, `revoke`, `invalidate` | a revoked token is refused; a copy does not outlive its record by more than its lifetime | `ApiToken` |
| Use counter of tokens | a Redis counter, a flush key, a field of the record | `touch` | no use counted twice or lost but by a known cause | `UseCount` |
| Sessions, impersonation | sessions (1 h, sliding; 30 min), the reverse index `openid:`, the way back | `create`, `get`, `refresh`, `update`, `destroy`, `destroyByOpenid`, `enter`, `exit` | an ended session stays ended; the index names the right session; there is a way back | `Sessions` |
| Login limits | two counters with lifetimes | `rate-limit.guard.ts` | attempts are limited, and the limit ends | `LoginLimit` |
| Second password | failures, lock, unlock, three keys with lifetimes | `high-risk-gate.ts` | guesses are limited; locks end; an unlock was earned | `HighRiskGate` |

### Records (`sql-store/` and the services on it)

| Part | State | Operations | Correct when | Module |
|---|---|---|---|---|
| Fields and options | list of options in the database, a cache without lifetime | `fields`, `ensureOptions`, `syncRoleOptions`, `removeRoleOption` | no option lost; the cache is true | `FieldOptions` |
| Search by pages | a table that changes | `search`, the loops over it | a scan misses and repeats no more than what changed | `TableScan` |
| Student numbers (`student/`, `code-rules/`) | numbers, accounts keyed by them | create, update, remove, batch fill | numbers are unique; nobody gets another's account | `StudentNo` |
| Roles (`role-management/`) | one JSON value, a copy in the permission engine | load, create, update, remove | the engine has what is stored; the administrator stays whole | `RoleConfig` |
| Weiling contacts (`weiling/`) | links of contacts to students, teachers of students | `syncAll`, the matching run, unlink, relink, enrol | staff win over runs | `WeilingLink` |

### Notes and mails

| Part | State | Operations | Correct when | Module |
|---|---|---|---|---|
| Note archive (`note-archive/`) | records per note and job, caches of folders, names and contents, the drive | a run of a job, clearing of records | what is recorded is there; nothing is stored twice; everything is archived in the end | `NoteArchive` |
| Bodies and recordings (`getnote/`) | a row per note | opening, refetching, the recording jobs | a recording that was stored stays; each that has a credential is fetched in the end | `NoteBody` |
| Mail archive (`mail-archive/`) | the archived mails of an account | the sync by button and by timer | no mail twice but where syncs meet; every mail in the end | `MailArchive` |
| Links of mails | students and contacts of a mail, an index cached for a minute | update, the completion by the service | the service only adds | `MailLinks` |

### Services of the school

| Part | State | Operations | Correct when | Module |
|---|---|---|---|---|
| Automations (`ai/lib/automation/`) | one JSON file, timers, a pending list, runs | store, scheduler, runner, healing of stuck runs | whole edits, undone by overtaken calls only; timers and records as the page shows them | `Automations` |
| Scheduled tasks (`scheduled-tasks/`) | the slots that have run, in memory | the tick; `dueJobSlot`, `jobSlotKey` | each time once, inside its window | `ScheduledTasks` |
| Meeting rooms (`meeting-room/`) | rooms, what is taken with a cache, a shared fetch and two sources | sync, busy, find a free room | no room is called free on no answer or an old one | `RoomBusy` |
| Term grades (`exam-grade/`) | a row per pupil | roll, confirm, adjust, restore, comment | what a teacher decided stays | `TermGrade` |
| Student support (`student-support/`) | rows of a student | save, resolve, dismiss | one open row; ended stays ended | `SupportCase` |
| Lessons (`schedule/`) | status, slot and resources of lessons | create, update, archive, transition | confirmed lessons do not clash | `SessionBooking` |
| Tables of statuses (`enrollment/`, `teaching/`, `notification/`, `adjustment/`) | a status | transition, update, archive | a status follows its table; duties stay apart | `Workflow` |
| Billing (`attendance/`, `billing/`, `settlement/`) | attendance, bills, settlement | transitions, generate, aggregate | what is billed was reviewed; submitted totals are frozen | `Billing` |
| Signing in (`attendance/sign.service.ts`) | the rows of a day | `sign` | one arrival a day | `SignIn` |

The remaining directories are record keeping, reports and I/O with remote
services; `PROJECT.json` lists them all with a reason.

## The plan

Done: gates, pipeline, accounts, accounting, tokens, sessions, limits, the
archive of notes, bodies and recordings, mails and their links, automations,
tasks, rooms, grades, support, lessons, statuses, billing, signing in, numbers,
options, scans, roles, contacts.

Left, in this order:

1. proofs of the action properties that are still only model-checked (see
   [Only model-checked](#only-model-checked));
2. permission rules (`src/packages/domain/src/permission.ts`) and access limits
   (`auth/access-limit.ts`) as operators against a reference definition;
3. the rate bucket of tokens and the requests-per-minute window of the gateway;
4. keys of the gateway, whose late write of the expired status has the shape of
   `ApiToken`.

## The modules

Names follow the code.  A comment before each action says which call it is;
`PROJECT.json` maps every definition to its lines.  Definitions named
`<Action>_<Bug>` are plausible bugs: each property is shown to fail when the
action is replaced by one of them.  One action is what happens between two
awaits; a call is a sequence of actions with the step and what it has read in
its own record, so that everybody else may come between.

### Composition

Models that share no state are checked in one run: `Counters`, `Access`,
`Records`, `Services`, `Teaching` and `Recovery` each hold several components
and a variable `active`, chosen in the initial state, that says which of them a
behaviour exercises, while the others keep one initial state.  The reachable
states are the *sum* of those of the components, every property is checked on
every component's full state space, and the theorems are about the same
composition.  A property of a composition (`LinksKept`, `TokensKept`, ...) is
the conjunction of the properties stated in the component's module.

`AiGateway` is a composition of the other kind: it puts the key's gate, the
gates of the accounts and the pipeline together and instantiates `Semaphore`
for each gate.  `Redis` gives the commands on one key with a lifetime to all
that use one.

### Redis, Semaphore, SlotGate

`key` is the Redis counter with its lifetime.  A client is `out`, `counted` or
`over` after its `INCR`, `in` or about to `undo` after its `EXPIRE`, or `open`
when an error let it in.  `acquireSlot` and `acquireAccountSlot` are the same
sequence, so one module stands for both.  Errors of each command, and a crash
that takes all clients and leaves the counter, are actions.  Time passes
whenever it likes (`Tick`): the timeout of the upstream covers the headers
only, so nothing limits how long a slot is held, and the counter's lifetime may
run out under callers that are still there.  `forgotten` counts them; it is the
price of a long stream, and every promise of the gate names it.

`Semaphore` is the abstract gate: at most `Limit` inside, plus one for each
fault and each client forgotten.  `SlotGate` implements it with
`inside <- Admitted, extra <- opened + forgotten`.

### AiGateway

A request is at one step of `handle`; `keyCount` and `accCount` are the Redis
counters, without lifetimes, errors and crashes, which are the subject of
`SlotGate`.  `forward` is what can come of it: a whole answer, a failure of one
of three kinds before the first byte, or a stream that is cut.  `Select` ranks
the schedulable accounts as the code sorts them (priority, then load, ties at
random); which accounts serve a model is configuration, so any subset may.
Abstracted: the requests-per-minute window, the whitelist and the quota are one
refusal; one key; the load factor of an account is left out; cool-downs end at
any time; the counter of an unlimited account saturates at `-Floor`.

### ScheduleState, AiAccount, UsageTier

`ScheduleState` translates the two functions that decide whether an account may
be used: `schedulableReason`, which the gateway obeys, and `scheduleStateOf`,
which is stored and listed.  `AiAccount` is one record and its writers.  A
writer is a *job*: it has read the record (`seen`), it writes fields (`put`,
`clear`), reads again (`reread`), stores the state (`putState`).  `UsageTier`
is one counter with its mark: a call reads the clock, then the mark, then either
adds or starts the period anew.

### Access: Sessions, ApiToken

`Sessions` has the sessions, the reverse index and the ways back, one Redis
command per step.  A tick is half an hour; a request may straddle one tick.  A
session id is never used twice, so the number of ids bounds the sessions ever
made.  `ApiToken` is one token: the record, the cached copy, requests in
`verify` and administrators in `update` and `revoke`; any call may fail or be cut
off, so that a copy outlives a change whose invalidation failed; refusals that
change nothing (hash lookup, IP lists, permissions) are left out.

### Counters: LoginLimit, HighRiskGate, UseCount

`LoginLimit` counts attempts by address and for all; a caller may die between
`INCR` and `EXPIRE`.  `HighRiskGate` has failures, lock and unlock as one
address and one administrator see them; `unlock` looks at the lock, compares,
and writes.  `UseCount` has the counter, the flush key (`SET NX EX`), and
`GET`, `addNumber`, `DEL` as steps, each of which may fail.

### Records: StudentNo, FieldOptions, TableScan, WeilingLink, RoleConfig

A request reads, works on what it read, and writes.  Each module marks a
request that was overtaken between the two (`over`, `late`, `touched`): the
properties say that what goes wrong goes wrong there only.  `StudentNo` has the
rule that gives numbers and the records it refuses, the batch with rows that
cannot be written, the form, and the two ways to a password account: by name
and either kind of number (a student's record number is fixed, and `Coded` says
who has one among the numbers of the model), and by an administrator who types
any number.  In `FieldOptions` the cache has no lifetime, so a list put there
late stays (`sticky`).  `TableScan` reads a count, then a page, until the count
says there is no more; a row is its place in the order of the listing, so new
rows come anywhere and rows move; `WeilingLink` abstracts the matching to a hint per contact;
`RoleConfig` has the JSON value with its versions, the reading that wrongly
answers with nothing (`blank`), and restarts.

### NoteArchive, NoteBody, MailArchive

`NoteArchive` is a run from the reading of the records to the last note: the
folder is looked for and made, a name is asked for, a content index saves a
second copy, the file is uploaded and the record written, with caches that
belong to the service and are emptied at the start of any job's run.  Events
(`MaxEvents`) are failed calls, a crash, and records cleared by hand.  The body
of a note is read when its turn comes; a failed reading, or a body that is not
stored yet, is taken for an empty text (`unread`, `partial`), and the record of
success that follows holds no hash of it (`Hashed`).  `EveryNoteArchived` asks
for a record of success of every candidate and for every text in the folder
that it names, but for such a body and, where runs overlapped, for a text whose
upload failed after another run had taken it for uploaded (`dropped`, the case
of `archive_true`).
`NoteBody` is the row of a note, replaced by openings and refetches and merged
into by the recording jobs.  A note whose source names no credential (`keyless`,
which changes as sources are enabled) is skipped by the nightly job, and by a
job started by an administrator without a credential of their own; one who has
such a credential tries it, and may be refused.  `MailArchive` is the sync of
one account over its two folders, with a mail that cannot be parsed, one that is
filtered, faults and crashes.  The button starts one sync at a time; the rounds
over all accounts (`Rounds`: the timer's and those started by hand, which look
for nothing) may meet it and each other.

### Services: Automations, TermGrade, SupportCase, RoomBusy, MailLinks

`Automations` has the file with its torn state during a write, the timers, the
list of what waits for the night, and the healing of stuck runs at start.  Any
save may fail, and a form may leave an automation without a time that croner
takes (`timed`).  `late` is the history of a call that another one overtook,
`clash` that two calls met since the last start.
`TermGrade` has `roll` for a class, whose `bulkInsert` replaces rows, and the
calls that merge fields.  `SupportCase` lets each call choose its row by the
rule the code has for it.  In `RoomBusy` one room stands for a batch, `time` is
in lifetimes of the cache, and a fetch is shared by those who wait for it; its
callers are the page, which shows a degraded answer in grey, and `findFree`.
`MailLinks` has the two lists of a mail and the completion from one reading.

### Teaching: ScheduledTasks, SessionBooking, Workflow, Billing, SignIn

`ScheduledTasks` holds the pure functions of `src/packages/contracts` that say
when a job is due and runs them over the hours around a midnight, minute by
minute, with late ticks, restarts, unreadable tables and edits of any setting; on
a day on which its times were edited a job may run again or leave a new time
out, because the keys of `ranSlots` do not tell the settings they were made under.
`SessionBooking` translates `conflict.ts` and the search over one page of
lessons.  `Workflow` holds the tables of statuses of five services, which share
one shape, and the forms, which write the status (of an adjustment also the
reviewer) past the table.  `Billing` goes from an attendance to a settlement; the
forms of both write their status, too.  `SignIn` has both stores:
PostgreSQL, where the search for the day's rows finds nothing, and the Feishu
table.

## The runs

`MC*` modules and the sections "For TLC" give values that a configuration
cannot write.  Mutants under `PROJECT.json` show that each property of each run
can fail.

| Run | Asks | Bounds, and why they are enough | States |
|---|---|---|---|
| `gateway_slots` | `SlotsBalance`; the key gate and the account gates are semaphores | 3 clients, key limit 2, one account with one slot and one without limit: refusals at both gates, failover in both directions | 879k |
| `gateway_answers` | `AnswersOnRecord`, `NoSecondAnswer`, `EveryRequestEnds` | 2 clients, threshold 2 (liveness, so no symmetry) | 269k |
| `counters` | the gate with its refinement of `Semaphore`, `TierSafe`, `LoginSafe`, `GateSafe`, `UsesSafe`, `CountersSettle` | 3 clients for 2 slots, a lifetime of 3 ticks, holds of any length, two errors, two leaks and two callers forgotten; 3 requests with 5 admissions over two turns of a period; 2 callers from 2 addresses against limits of 1 and 3; 2 wrong guesses, 2 scopes; 5 calls of a token over 2 flushes; one fault | 379k |
| `access` | `IndexNamesOwnSession`, `SessionsKept`, `TokensKept` | an administrator and a parent, 3 sessions (both logged in and an impersonation), 2 requests; 2 administrators of a token with 2 changes, a copy that lives 2 ticks | 454k |
| `recovery` | `ListAgreesWithGateway`, `NoCooldownLost`, `AccountsRecover`, `StoresKept`, `StoresComplete` | three writers of an account, threshold 2, cool-downs of up to 2 ticks, a quota of 1, an expiry, 3 events; one note with 2 revisions, with or without a credential, an opening viewer and 2 jobs, one failure; 2 mails, one fault, three syncs that may meet (button, timer, by hand) | 943k |
| `archive_runs` | `ArchiveSafe`, `EveryNoteArchived` | 2 overlapping jobs, 2 notes of which one is in both jobs and a text is in both notes, one kind from the snapshot and one from the body, 3 folders, one event | 859k |
| `archive_true` (violation) | are records of success true? | as above | 24k |
| `records` | `NumbersKept`, `OptionsKept`, `ScanBounded`, `LinksKept`, `RolesKept` | 2 requests in each: 2 students and 2 numbers, of which one is also a record number; 2 options; pages of 2, 5 rows made or moved; one contact and 2 students; a built-in and a custom role, 2 edits, one wrongly empty answer, one restart | 1.73M |
| `services` | `AutomationsKept`, `GradesKept`, `SupportKept`, `RoomsKept`, `MailLinksKept` | 2 requests in each: 2 automations, one run, one edit, 2 stops or failed saves; 2 pupils, 4 calls, 2 marks; 4 support calls; 2 rooms over 4 lifetimes, a sync and a fault; 2 contacts, one edit of links, 2 readings of the index | 1.17M |
| `teaching` | `TasksKept`, `BookingsKept`, `LedgersKept` | 8 jobs at the boundaries of their kinds, two of them without a list of times or with windows that meet, 40 minutes around midnight, a restart, a failed read or an edit; 3 lessons of which a page shows 2, 2 transitions; 3 users, 5 writes; 2 bills of which a page shows one, 3 calls; 4 rows of a day | 2.58M |
| `room_retry` (violation) | is the better source tried again? | the visitors alone, 6 ticks | 15k |
| `sign_once` (violation) | is an arrival recorded once? | one phone: two calls one after the other | 26 |

Larger instances were run by hand without an error: `services` with two edits of
the file (2.66M), `StudentNo` with three
students (6.2M), `RoleConfig` with three edits (444k), `MailLinks` with two
edits (490k),
`SessionBooking` with three transitions (1.5M), `Automations` with two runs and
one edit (7.1M) and with two administrators and two edits (4.7M).

Symmetry is used in `gateway_slots`, `access`, `records`, `services` and
`teaching` only, where nothing but invariants and action properties is checked
and no definition tells the symmetric values apart.
`CHECK_DEADLOCK FALSE` stands where clocks, events and calls are bounded, so
that a behaviour ends when the bounds are reached; in `gateway_slots`,
`gateway_answers` and the two runs of the archive a deadlock would be an error.

### Fairness

- `AiGateway!FairSpec`: a request that has begun goes on.  Redis and the
  database answer, the upstream's headers have a timeout; that the body of a
  stream ends is an assumption (the code has no limit).
- `Recovery`: jobs of an account that have begun go on, the health check and
  the refresh run again and again (`ai-route.module.ts` sets both timers), time
  passes; calls about notes and syncs of mails go on, the nightly job and a
  round of syncs start again and again.  Nothing is assumed of administrators,
  callers, viewers or the button.
- `Counters`: attempts that have begun go on, and when none is under way time
  passes.
- `NoteArchive!FairSpec`: a run that has begun goes on, each job is started again
  and again by its schedule (weak fairness) and a run that keeps being able to
  begin its work (the loading of its records) does not give up for ever (strong
  fairness); failures are bounded by `MaxEvents`.


## The proofs

TLAPS proves the following for every value of the constants that the named
assumptions of the modules allow: any finite set of clients, any limits and
lifetimes, any number of notes, rows, roles or faults.  What a run checks on an
instance is the same formula.

| Module | Theorems | States |
|---|---|---|
| `AiGateway_proofs` | `SlotsAreBalanced`, `AnswersAreOnRecord`, `NoSecondAnswerEver`, `GatesAreSemaphoresAlways` | the pipeline of the gateway, with both gates as semaphores |
| `Recovery_proofs` | `TypeCorrect`, `ListIsTheGateway`, `CooldownsLast` (and `AccountKept` with `RecoveryHasTheAccount`: the same where the account is composed with the stores) | the record of an account |
| `Recovery_proofs` | `BodiesAreKept`, `MailIsKept`, together `StoresAreKept` | the bodies and recordings of notes, the archive of a mail account |
| `Counters_proofs` | `TypeCorrect`, `CounterFollowsHolders`, `GateBound`, `RefusalsAreJustified`, `GateIsSemaphore` | the gate of slots, and that it implements `Semaphore` |
| `Counters_proofs` | `SpendingIsBounded`, `LoginIsLimited`, `GateIsSafe`, `UsesAreAccounted`, `TurnSettles` | the other counters of Redis and of the records |
| `Access_proofs` | `TypeCorrect`, `IndexIsOwn`, `SessionsAreKept`, `TokensAreKept` | sessions, impersonations, tokens |
| `Records_proofs` | `ScanIsBounded`, `NumbersAreKept`, `OptionsAreKept`, `RolesAreKept`, `LinksAreKept` | scans, student numbers, lists of options, roles, contacts |
| `NoteArchive_proofs` | `ArchiveIsSafe` | the archive of notes |
| `Services_proofs` | `MailLinksAreKept`, `SupportIsKept`, `GradesAreKept`, `RoomsAreKept`, `AutomationsAreKept` | links of mails, support cases, term grades, free rooms, automations |
| `Teaching_proofs` | `TasksAreKept`, `BookingsAreKept`, `LedgersAreKept` | scheduled tasks, lessons, statuses and duties, bills and settlements, sign-ins |

Each proof has the same layout: an inductive invariant, stated in parts with
the reason for each; one lemma per action that it is kept; and for an action
property one lemma that a step from a state of the invariant obeys it.  The
strengthenings were checked with TLC on the instances of the runs before they
were proved.

### SlotGate

(In `Counters_proofs`, at its end.)  The inductive invariant `IInv` is the
conjunction of the type invariant, `CounterDrift`, the bound on admissions, and
a fact the code relies on silently: the clients let in by an error are no more
than the errors so far.  That admissions are bounded needs the counter to be no
lower than the holders less the errors and the forgotten: then an `INCR` within
the limit finds fewer than `Limit + opened + forgotten` admitted.  When the
lifetime runs out the counter reads 0, its holders become forgotten, and
`TickStep` shows the count right again.  `LifetimeCovers`, a part of
`CounterDrift`, says who cannot be forgotten: whoever is within a lifetime of
its own `EXPIRE`, whatever others do.  No assumption is made on how long slots
are held.  Sets of clients move by one element per step; `AtMove` and
`MoveCounts` say what this does to their cardinalities.

`GateIsSemaphore` is a step simulation on that invariant: `INCR` within the
limit is `Acquire`, an error on the way in is `Fault`, a lifetime that runs out
under callers is `Forget`, a release or a crash is `Release`, everything else
stutters.

### AiGateway

`Counted` and `Using(a)` are the clients that, by the step they are at, have
counted on the key and on account `a`.  The invariant says that the counters
are their cardinalities (for an unlimited account as far as the `Floor` of the
model), that a list of candidates is not empty where one is taken from it, and
what outcome and answer a request can have at each step; `AnswersOnRecord`
follows from the last part.  That the gates are semaphores is then a step
simulation with `inside` the clients behind the gate.

### AiAccount

The type invariant is inductive; the work is in the updates of a record with
eighteen fields, one lemma per kind of update.  `SameCriterion` says that the
two criteria agree on *every* record at *every* time, so their agreement on
reachable ones needs the types only.  `CooldownsLast` looks at each writer:
those that merge fields leave the cool-downs alone, a new cool-down lies in the
future, and the one writer that removes them is the reset.

### NoteBody and MailArchive

Both are proved about `RecoverySpec`, whose steps are steps of each module or
leave its variables alone.

- `BodyInv`: what a task holds of a note fits the note and its row (`FitsRow`).
  It has fetched no revision to come and, unless its history says that it was
  passed, none older than the stored one; and once it has read the row it has
  the recording of the row, unless the reading failed or the recording came
  late.  A row that is written moves every other task of that note
  (`Follows`), which is where the histories are needed: `RowMoves` is one lemma
  for the five ways in which a row changes.
  The notes without a credential are followed by an invariant of their own.
- `MailInv`: a sync that has loaded the set of archived mails knows of company
  if another has loaded too, and if a mail that it lacks has been stored since
  (`Company`); and of each mail the stored copies and the syncs that still lack
  it (`Lacking`) are together no more than there are syncs (`CopiesFit`).  That
  the copies are bounded is not inductive without the syncs that may yet store.

### Counters

`CountersInv` joins four invariants.

- `TierInv`: what is in flight is what will still be added to the counter and
  what will be added to a period that has ended (`WillAdd`, `Strays`); the
  counter, the records of the period and these three stay in balance.
- `LoginInv`: each counter lives as long as the window, its count is bounded
  by its limit and the callers between `INCR` and `EXPIRE`, and a window of the
  whole touches at most two windows of an address.
- `GateInv`: wrong guesses are those counted, those about to be, and those
  that overtook the lock; a lock and an unlock go back to a count and a right
  password of the same scope.
- `UsesInv`: calls are in the record, in the counter, or came while a flush
  was between `GET` and `DEL`.

`TurnSettles` is the step part of `CountersSettle`; that a turn does settle is
liveness.

### Access

`SessionInv` says what a request knows of its session at each step (a request
that is about to write the index holds the session its own login made; one that
is about to save has found it), that a live session is somebody's, and
`WaysBack`: the session at the other end of a way back is a staff session that
outlives it, or has ended, or is about to be renewed by a request that has seen
this tick pass.  The last case is what makes the property true: the way back
and the staff session are renewed by different commands.

`TokenInv` says that a revocation that stands is in the record; that a request
which still holds an older reading to fill the copy with has read it in this
tick; and that a copy of such a reading is at least as old as the revocation.
`StaleHasCause` is inductive next to it, and `RevokedWithinTTL` is then a
matter of one step: a hit needs a copy that lives, a fill happens in the tick of
the revocation.

### Records

- `TableInv`: the rows not yet returned that lie before the offset are no more
  than the deletions and moves; a place already returned is within the offset
  plus insertions and moves less repetitions; and the places of rows (`PlaceIn`)
  change by one at most with each insertion, deletion and move, which is one
  lemma (`TableChanges`) for the three.
- `NumberInv`: what a request that nobody overtook has read of the table still
  holds when it writes.  The numbers of a batch are computed by a function over
  the students; `PlanFits`, by well-founded induction on that function, says that
  each plan gives each student one number, no two the same and none on record.
- `FieldInv`: a reading that nobody overtook is current, the options of a list
  keep the order of their kinds, and one option per name.
- `RoleInv`: the administrator is in every reading and every write, each id
  once; a role missing from the store is missing because of the request that
  removed it; what is read at a start precedes what is written.
- `LinkInv`: what a run has in hand is what the page said when it was read, as
  far as staff have not acted since, and a teacher cleared in quiet is in no
  run's hands.

### NoteArchive

`IInv` is `TInv` (types and what a run holds at each step), `AloneInv` (before
any overlap at most one run is under way), `CopiesInv` (no file more often than
there are runs that could have missed it), `TruthInv` (without overlap: records
of success are true, caches are fresh, the index points at files that exist)
and `OnceInv` (without overlap and events: each text once).  The parts need each
other: that a record is true rests on the index being true, that on the cache of
names being fresh, and that on being alone.  `DoneIsThere` is what makes a new
record true: the kinds a run is done with are in the folder, but for the text of
a body it could not read, of which the record holds no hash.

### Services

In all of them a call reads, and writes later what it has computed from the
reading; the invariant says what a call that nobody overtook still knows.

- `MailInv`: the lists a caller is about to write from are those of the mail.
  `GrowsOnce` says that one round of the completion leaves nothing for the next,
  so the three rounds of the code are as good as any number.
- `SupportInv`: the row a call has chosen is still one of those it chose from,
  and there is one if there was; `LatestIsOne` and `NewestIsOne` (by well-founded
  induction) say that the search finds one.
- `GradeInv`: what a call has read of a pupil's row still holds unless the call
  is late for that pupil; and a row carries the total last rolled, or keeps it
  to go back to from an adjustment (`KeepsRolled`).
- `RoomInv`: a list of rooms read since the last sync that cleared the cache
  lacks only rooms that a sync has written since, and the rooms a fetch was
  asked about are those left, those read and those the source did not know.
- `FileInv` holds whatever calls meet: every store, in the file or in a caller's
  hand, is whole (`Whole`); whoever has not been overtaken has one edit of what is
  in the file, or writes it alone.  To the file every step leaves it alone
  (`Still`), reads (`Calls`), begins to write or leaves (`Leaves`), and so
  `WholeEditsOnly` follows from it.
- `AutomInv` is `AutomTypes` and, until two calls meet on the file, `QuietInv`:
  the file is torn exactly while somebody writes it; it is whole (`StoreFits`) and
  a record that says "running" is excused (`FileFits`); what a caller has in hand
  is whole too and closes its own record (`CopyFits`), is one edit away from the
  file until the write begins (`SaveFits`) and one timer away from the timers
  during it (`WriteFits`).  A start forgets the meetings: all that is left of them
  then is the file, which `FileInv` says is whole.  That runs begin, move and end
  meanwhile does not disturb this, since a record is of a run that has begun and
  a run keeps its automation (`RunMoves`, `EditStays`).  The proof needs that the
  actors have different names and that a torn file is not a store
  (`NamesAreApart`).

### Teaching

- `BookInv`: what a transition has read still holds, unless its history says
  that the lesson was written since (`FreshReads`); and a lesson is *sure* when
  it was confirmed with a full view of the others, or a call that had one is
  about to confirm it: no two sure lessons clash (`SureApart`).  The second half
  of "sure" is what makes this inductive, since two searches may both end before
  either writes.  `SharedMinuteOverlaps` says that the comparison of spans misses
  no pair that shares a minute, `PageIsAll` that a search sees every lesson when
  they fit into a page.
- `FlowInv`: a call that nobody overtook, another call or the form, is about to
  go along the table; of an adjustment, whoever is about to review it did not
  begin it.
- `BillsInv`: what a call has read of an attendance or a settlement still holds
  unless it is late (`ClerkFits`), one predicate for the six kinds of calls; and
  as long as no review was taken back, whatever was or is being generated comes
  from an attendance that may be billed.
- `SignInv`: a call that nobody overtook writes a direction that is not there
  yet, and a departure after an arrival; over PostgreSQL every call arrives.

- `TasksInv`: what is remembered was due when it was started, and the last start
  is remembered for its day (`RunsFit`); and from the minute on at which a time
  is owed a run, the timer is due at once or a tick has begun at most two minutes
  later (`OnTime`).  Both rest on `WindowIsSlot`: where windows do not meet, the
  minutes in the window of a time are those whose slot is the slot of the time,
  so a remembered slot is the time, run.  The remembered slots speak of the
  settings in force from the day after the last edit of the times.  It is where the arithmetic of the four
  kinds of jobs is, and `dueJobSlot`, `jobSlotKey` and the times of the settings
  meet.

The proofs found four things wrong in the models, all beyond the instances that
had been checked.  Two cancellations that had read the lessons before they were
confirmed let two other confirmations through that clash: a transition whose
lesson was written since is now unsure like one that overlapped, and
`NoDoubleBooking` says so.  Where windows of times meet, one time may run twice
in a life of the process (`OncePerTime` now asks that they do not).  The times
of a job without a list are its single time, in `Times` too.  Rates must exist
(`Rates # {}`).

### Only model-checked

Out of reach for this prover:

- everything that eventually happens: `EveryRequestEnds`, `AccountsRecover`,
  `EveryNoteArchived`, `StoresComplete`, and in
  `CountersSettle` that the turn of a period settles and that a gate without
  callers opens.

## What the models found

Three runs show that the code does not do what a line of its own says; each is
quoted under `findings` in `PROJECT.json`:

- `archive_true`: a name that is not found is put into the cache of the folder
  before the file is uploaded; when the upload fails, or another run works on
  the folder, the note is recorded as archived though it is not there.
- `room_retry`: a lookup that skips the better source renews the mark of when
  that was last tried, so lookups that come often enough keep it from being
  tried again, whatever was permitted meanwhile.
- `sign_once`: over PostgreSQL the search for the rows of the day finds
  nothing, so every touch of the sign-in button records an arrival.

What follows was seen in models that check a property with an exception, or by
hand on variants of them.  The exceptions are named in the properties.

Gateway.  A leaked count is kept alive by the callers it blocks, since every
attempt renews the counter's lifetime before it is refused (`LeakHeals` of
`SlotGate` fails).  A 4xx of the upstream is retried on other accounts and
counted against each (`NoFailoverOn4xx`).  The counter of an account without a
limit goes down with each call (`LoadIsACount`).  At the turn of a period costs
of calls that overlap with it may be lost.

Access.  An edit that overlaps with a revocation enables the token again
(`RevokedIsFinal`); a revocation whose invalidation fails leaves the token in use
for up to a minute, which the comment at `api-token.service.ts:270` calls an
incident (`RevokedWithinTTL` bounds it by that minute).  The reverse index runs out an hour after the login however
active the session is, and forcing the person out then does nothing
(`KickFindsSession`).  A session that ended may be brought back by an update
under way.  An impersonation gets the lifetime of a login with its first
request, since the guard renews every session alike.  A crash between `INCR`
and `EXPIRE` of a login counter refuses for ever once the limit is reached.

Automations and tasks.  Two calls that meet on the file lose one of the changes,
and a reading of a file half written loses all.  Stuck runs are healed only at a
start, and only if they are older than a minute then; a run whose record cannot
be saved stays "running" until then.  An automation whose cron is empty, or has
five fields that croner refuses, is shown as enabled and never runs
(`scheduler.ts:66-72`).  Windows of times that
meet hide one of the times.

Notes and mails.  A note whose body cannot be read, or is not stored yet, when
its turn comes is recorded as archived without that text, once and for all and
without an alert (a comment at `note-archive.service.ts:690` calls archiving that
stops in silence the worst failure).  Enrolment of a contact is overwritten by a matching run that
had read it before.  A note whose source names no credential is skipped
every night.  A recording marked "none" is final, and two recording jobs
that overlap can undo each other.  One mail that cannot be parsed keeps the
mails after it, and the folder of sent mails, from being archived; the sync of
all accounts ignores that one is running, so a mail is archived once for each
sync that meets; mails deleted from the archive come
back; a change of UIDVALIDITY is not noticed; renaming an account archives all
again; filtered mails are downloaded in every round.

Rooms.  A room that freebusy has no answer for is only a warning, and `findFree`
drops that too: its result has no warnings, so the room is among the free ones
(`meeting-room.service.ts:517-532`, against the comments at `:10-13` and
`:351-353`); a fetch under way when
rooms are synced answers without the new ones; rooms that are gone upstream are
never removed.

Grades and support.  Adjusting twice stores the adjusted value as the automatic
one; the roll drops state, source and manual adjustment of a row it replaces.
Resolving for a student without an open row makes a closed one; two calls that
overlap make two open rows; what a dismissal hid comes back by `restore` only
where there is one row (`student-support.service.ts:743`).

Lessons and money.  Bills can be edited, amounts included, in every status,
though `billing.dto.ts:49` calls settled amounts locked; generating bills for
the same attendance again makes them again; a settlement adds up the first 100
bills only, and the same bills go into every settlement; the `perm` fields of
the tables of transitions are checked nowhere.  Two pending lessons that clash
block each other; a lesson that was moved still blocks its old slot; only the
first 200 lessons are looked at; setting the status by the form skips the
search.  Reviewing can take a final attendance back.  A sign-in dated back
behind 100 rows is recorded twice.

## Not modelled

`PROJECT.json` gives the reason for each component.  The models cover few of the
lines of the repository because most of them are pages of the web client, lists
and reports over records, adapters to remote services, and scripts, which keep
no state that several actors share.  Of the services that do, these are left
out: keys of the gateway (the shape of `ApiToken`), the request rates of tokens
and of the gateway (counters of the shape of `LoginLimit`), permission rules and
access limits (pure functions, planned), timetable, curriculum, behaviour,
markbook and IDP (records with computed views), the assistant and meeting
minutes (conversations with remote services), and the generic CRUD.
