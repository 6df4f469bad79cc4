----------------------------- MODULE Automations ----------------------------
(***************************************************************************)
(* The automations of the assistant: a JSON file (automation/store.ts), a  *)
(* timer for each enabled one and a list of runs put off to the night      *)
(* (scheduler.ts), and the runs themselves (runner.ts), with the calls of  *)
(* the administration page (ai.service.ts).                                *)
(*                                                                         *)
(* Every change of the file is a call that reads the whole file, changes   *)
(* the copy and writes it whole, with no lock: a write first empties the   *)
(* file, and a file that cannot be parsed is read as an empty store.       *)
(***************************************************************************)
EXTENDS Integers, FiniteSets

CONSTANTS
    Autos,
    First,      \* the automations there are at the beginning, all enabled
    IdleOnly,   \* the automations that only run between 0 and 6
    Runs,       \* bound on the runs: each identifier is used once
    Admins,
    Heal,       \* the call that closes the runs a dead process left behind
    Torn,       \* a file that does not parse
    None,
    MaxEdits,   \* bound on calls of the administration page
    MaxStops    \* bound on stops of the process and failed saves

SetsOfAutos  == First \subseteq Autos /\ IdleOnly \subseteq Autos
BoundsAreNat == MaxEdits \in Nat /\ MaxStops \in Nat

VARIABLES
    file,    \* automations.json
    call,    \* the store call each actor is in
    admin,   \* the edit an administrator's call is about
    run,     \* where each run stands
    cron,    \* the automations that have a timer
    pending, \* pendingIdle.json, which follows the list in memory
    swept,   \* taken off the list by the sweep, and not yet begun
    toHeal,  \* runs to be closed at the start of the process
    boot,    \* the process is down, has still to set its timers, or is up
    night,   \* the clock is between 0 and 6
    old,     \* runs that began a minute ago or more
    edits, stops,
    clash    \* history: since the process came up, a call read the file while
             \* another one was changing it, or one was cut off in its write;
             \* or the file did not parse then

process == <<call, admin, run, cron, swept, toHeal>>
bounds  == <<edits, stops>>
vars == <<file, process, pending, boot, night, old, bounds, clash>>

Actors == Admins \cup Runs \cup {Heal}

(* on are the enabled ones, timed those with a cron that croner takes: an   *)
(* edit may leave it empty, and five fields need not be a time.             *)
Store == [there : SUBSET Autos, on : SUBSET Autos, timed : SUBSET Autos,
          log : [Runs -> {"none", "running", "ended"}]]
EmptyStore == [there |-> {}, on |-> {}, timed |-> {}, log |-> [r \in Runs |-> "none"]]

(* late is history: another call has begun to write since this one read.    *)
NoCall == [step |-> "none", copy |-> EmptyStore, mixed |-> FALSE, late |-> FALSE]
NoRun  == [step |-> "free", auto |-> None]
NoEdit == [kind |-> "none", auto |-> None]

(* The names of the actors and of what is missing are names of nothing else. *)
NamesAreApart ==
    /\ Admins \cap Runs = {} /\ Heal \notin Admins \cup Runs
    /\ None \notin Autos /\ Torn \notin Store

(* A run that is left is over, and its record could not be saved.           *)
RunSteps == {"free", "append", "work", "update", "again", "done", "left", "dead"}

TypeInv ==
    /\ file \in Store \cup {Torn}
    /\ call \in [Actors -> [step : {"none", "save", "write"}, copy : Store,
                            mixed : BOOLEAN, late : BOOLEAN]]
    /\ admin \in [Admins -> [kind : {"none", "edit", "delete"}, auto : Autos \cup {None}]]
    /\ run \in [Runs -> [step : RunSteps, auto : Autos \cup {None}]]
    /\ cron \subseteq Autos /\ swept \subseteq Autos /\ toHeal \subseteq Runs /\ old \subseteq Runs
    /\ pending \in [Autos -> {"no", "wait", "due"}]
    /\ boot \in {"down", "starting", "up"}
    /\ night \in BOOLEAN /\ clash \in BOOLEAN
    /\ edits \in 0..MaxEdits /\ stops \in 0..MaxStops
    /\ \A c \in Admins : admin[c] = NoEdit <=> call[c].step = "none"
    /\ \A r \in Runs : call[r].step # "none" => run[r].step \in {"append", "update", "again"}

Init ==
    /\ file = [EmptyStore EXCEPT !.there = First, !.on = First, !.timed = First]
    /\ call = [c \in Actors |-> NoCall]
    /\ admin = [c \in Admins |-> NoEdit]
    /\ run = [r \in Runs |-> NoRun]
    /\ cron = First
    /\ pending = [a \in Autos |-> "no"]
    /\ swept = {}
    /\ toHeal = {}
    /\ boot = "up"
    /\ night = FALSE
    /\ old = {}
    /\ edits = 0 /\ stops = 0
    /\ clash = FALSE

-----------------------------------------------------------------------------
(* The store.  load and the change of the copy are one step: nothing is     *)
(* awaited between them.                                                    *)
Read == IF file = Torn THEN EmptyStore ELSE file

Peek  == clash' = (clash \/ file = Torn)
Clash == clash' = (clash \/ file = Torn \/ \E c \in Actors : call[c].step # "none")

Writing == {c \in Actors : call[c].step = "write"}

BeginCall(c, store) ==
    /\ call' = [call EXCEPT ![c] = [step |-> "save", copy |-> store, mixed |-> FALSE,
                                    late |-> Writing # {}]]
    /\ Clash

(* writeFile empties the file, ...                                          *)
BeginWrite(c) ==
    /\ call[c].step = "save"
    /\ file' = Torn
    /\ call' = [d \in Actors |->
                  IF d = c THEN [call[d] EXCEPT !.step = "write"]
                  ELSE [call[d] EXCEPT !.late = call[d].step # "none"]]
    /\ UNCHANGED <<admin, run, cron, swept, toHeal, pending, boot, night, old, bounds, clash>>

(* ... and fills it, and the caller goes on at once.  What another write    *)
(* has put there meanwhile and is longer is left behind as a tail.          *)
EndWrite(c) ==
    /\ call[c].step = "write"
    /\ file' \in IF call[c].mixed THEN {call[c].copy, Torn} ELSE {call[c].copy}
    /\ call' = [d \in Actors |->
                  IF d = c THEN NoCall
                  ELSE [call[d] EXCEPT !.mixed = @ \/ call[d].step = "write"]]
    /\ UNCHANGED <<swept, toHeal, boot, night, old, bounds, clash>>

(* mkdir or writeFile fails: the file is as it was, or cut off if it was    *)
(* being written.  Whoever called goes no further.                          *)
Fail(c) ==
    /\ call[c].step # "none" /\ stops < MaxStops
    /\ stops' = stops + 1
    /\ file' \in IF call[c].step = "write" THEN {file, Torn} ELSE {file}
    /\ clash' = (clash \/ call[c].step = "write")
    /\ call' = [call EXCEPT ![c] = NoCall]
    /\ UNCHANGED <<cron, swept, pending, boot, night, old, edits>>

-----------------------------------------------------------------------------
(* The administration page.                                                 *)
Edit(c) ==
    /\ boot = "up"
    /\ admin[c] = NoEdit
    /\ edits < MaxEdits
    /\ edits' = edits + 1
    /\ UNCHANGED <<file, run, cron, swept, toHeal, pending, boot, night, old, stops>>

(* What the form of an automation may set: whether it is enabled, and its   *)
(* times.                                                                   *)
Settings(store, a) ==
    {[store EXCEPT !.there = @ \cup {a}, !.on = on, !.timed = timed] :
        on \in {store.on \cup {a}, store.on \ {a}},
        timed \in {store.timed \cup {a}, store.timed \ {a}}}

Create(c, a) ==
    /\ Edit(c)
    /\ a \notin Read.there
    /\ \E store \in Settings(Read, a) : BeginCall(c, store)
    /\ admin' = [admin EXCEPT ![c] = [kind |-> "edit", auto |-> a]]

Change(c, a) ==
    /\ Edit(c)
    /\ a \in Read.there
    /\ \E store \in Settings(Read, a) : BeginCall(c, store)
    /\ admin' = [admin EXCEPT ![c] = [kind |-> "edit", auto |-> a]]

Without(store, a) ==
    [there |-> store.there \ {a}, on |-> store.on \ {a}, timed |-> store.timed \ {a},
     log |-> [r \in Runs |-> IF run[r].auto = a THEN "none" ELSE store.log[r]]]

Delete(c, a) ==
    /\ Edit(c)
    /\ a \in Read.there
    /\ BeginCall(c, Without(Read, a))
    /\ admin' = [admin EXCEPT ![c] = [kind |-> "delete", auto |-> a]]

(* Mutant: an edit sets a timer and never takes one away.                   *)
EndEdit_OnlySets(c) ==
    /\ EndWrite(c)
    /\ cron' = IF admin[c].kind = "edit" THEN cron \cup {admin[c].auto} ELSE cron
    /\ admin' = [admin EXCEPT ![c] = NoEdit]
    /\ UNCHANGED <<run, pending>>

(* scheduleOne sets a timer for what is enabled and has a time; it says     *)
(* nothing to the caller where there is none or croner refuses it.          *)
Timers(store) == store.on \cap store.timed

(* scheduleOne by what the call wrote, or unscheduleOne and removePending.  *)
EndEdit(c) ==
    /\ EndWrite(c)
    /\ LET a == admin[c].auto IN
       /\ cron' = IF a \in Timers(call[c].copy) THEN cron \cup {a} ELSE cron \ {a}
       /\ pending' = IF admin[c].kind = "delete" THEN [pending EXCEPT ![a] = "no"] ELSE pending
    /\ admin' = [admin EXCEPT ![c] = NoEdit]
    /\ UNCHANGED run

(* The page is told of the failure; the timers stay.                        *)
EditFails(c) ==
    /\ Fail(c)
    /\ admin' = [admin EXCEPT ![c] = NoEdit]
    /\ UNCHANGED <<run, toHeal>>

-----------------------------------------------------------------------------
(* Runs.                                                                    *)
Live(r) == run[r].step \in {"append", "work", "update", "again"}

Goto(r, step) == run' = [run EXCEPT ![r].step = step]

(* A free identifier, the least one.                                        *)
NextRun(r) == run[r] = NoRun /\ \A s \in Runs : run[s] = NoRun => r <= s

Begin(r, a) ==
    /\ NextRun(r)
    /\ run' = [run EXCEPT ![r] = [step |-> "append", auto |-> a]]

(* The timer: onFire reads the automation again, and an idle-only one is    *)
(* put on the list in the day time.                                         *)
Fire(r, a) ==
    /\ a \in cron
    /\ Peek
    /\ LET late == a \in IdleOnly /\ ~night IN
       /\ cron' = IF a \in Read.there THEN cron ELSE cron \ {a}
       /\ pending' = [pending EXCEPT ![a] =
                         IF a \notin Read.on THEN "no"
                         ELSE IF late /\ @ = "no" THEN "wait" ELSE @]
       /\ IF a \in Read.on /\ ~late THEN Begin(r, a) ELSE UNCHANGED run
    /\ UNCHANGED <<file, call, admin, swept, toHeal, boot, night, old, bounds>>

(* triggerNow: the button of the page.                                      *)
Trigger(r, a) ==
    /\ boot = "up"
    /\ a \in Read.there
    /\ Peek
    /\ Begin(r, a)
    /\ UNCHANGED <<file, call, admin, cron, swept, toHeal, pending, boot, night, old, bounds>>

SweepNext(r, a) ==
    /\ a \in swept
    /\ swept' = swept \ {a}
    /\ Peek
    /\ IF a \in Read.on THEN Begin(r, a) ELSE UNCHANGED run
    /\ UNCHANGED <<file, call, admin, cron, toHeal, pending, boot, night, old, bounds>>

RunStep(r, step) ==
    /\ run[r].step = step
    /\ UNCHANGED <<file, admin, cron, swept, toHeal, pending, boot, night, old, bounds>>

(* Mutant: the record is put into a store that was not read.                *)
Logged_Unread(r, status) == [EmptyStore EXCEPT !.there = {run[r].auto}, !.log[r] = status]

Logged(r, status) == [Read EXCEPT !.log[r] = status]

(* Neither the automation nor its first receiver has a model.               *)
Refuse(r) ==
    /\ RunStep(r, "append") /\ call[r].step = "none"
    /\ Goto(r, "again")
    /\ UNCHANGED <<call, clash>>

(* Mutant: the record is not waited for.                                    *)
Append_NoAwait(r) ==
    /\ RunStep(r, "append") /\ call[r].step = "none"
    /\ BeginCall(r, Logged(r, "running"))
    /\ Goto(r, "work")

(* appendRun: the record of a run under way.                                *)
Append(r) ==
    /\ RunStep(r, "append") /\ call[r].step = "none"
    /\ IF run[r].auto \in Read.there
       THEN BeginCall(r, Logged(r, "running")) /\ UNCHANGED run
       ELSE Goto(r, "work") /\ Peek /\ UNCHANGED call

(* The agent answers, and the answer is sent or remembered; or it fails.    *)
Work(r) ==
    /\ RunStep(r, "work")
    /\ Goto(r, "update")
    /\ UNCHANGED <<call, clash>>

(* Mutant: the record is only closed when there is an answer.               *)
Update_OnlyAnswered(r) ==
    /\ RunStep(r, "update") /\ call[r].step = "none"
    /\ \/ BeginCall(r, Logged(r, "ended")) /\ UNCHANGED run
       \/ Goto(r, "done") /\ UNCHANGED <<call, clash>>

(* updateRun; a record that is not found is appended.                       *)
Update(r) ==
    /\ RunStep(r, "update") /\ call[r].step = "none"
    /\ IF run[r].auto \in Read.there /\ Read.log[r] # "none"
       THEN BeginCall(r, Logged(r, "ended")) /\ UNCHANGED run
       ELSE Goto(r, "again") /\ Peek /\ UNCHANGED call

AppendFinal(r) ==
    /\ RunStep(r, "again") /\ call[r].step = "none"
    /\ IF run[r].auto \in Read.there
       THEN BeginCall(r, Logged(r, "ended")) /\ UNCHANGED run
       ELSE Goto(r, "done") /\ Peek /\ UNCHANGED call

Written(r) ==
    /\ EndWrite(r)
    /\ Goto(r, IF run[r].step = "append" THEN "work" ELSE "done")
    /\ UNCHANGED <<admin, cron, pending>>

(* The run is given up: a record under way stays.                           *)
RunFails(r) ==
    /\ Fail(r)
    /\ Goto(r, "left")
    /\ UNCHANGED <<admin, toHeal>>

-----------------------------------------------------------------------------
(* The list of what waits for the night, and the clock.                     *)
Due == {a \in Autos : pending[a] = "due"}

Taken == /\ swept' = swept \cup Due
         /\ pending' = [a \in Autos |-> IF a \in Due THEN "no" ELSE pending[a]]

Sweep ==
    /\ boot = "up" /\ Due # {}
    /\ Taken
    /\ UNCHANGED <<file, call, admin, run, cron, toHeal, boot, night, old, bounds, clash>>

Clock ==
    /\ night' = ~night
    /\ pending' = [a \in Autos |-> IF night' /\ pending[a] = "wait" THEN "due" ELSE pending[a]]
    /\ UNCHANGED <<file, process, boot, old, bounds, clash>>

(* A minute passes for a run; a dead one's age counts at the next start.    *)
Age(r) ==
    /\ Live(r) \/ (run[r].step = "dead" /\ boot = "down")
    /\ r \notin old
    /\ old' = old \cup {r}
    /\ UNCHANGED <<file, process, pending, boot, night, bounds, clash>>

(* The process stops; a write under way leaves an empty file.               *)
Stop ==
    /\ boot # "down" /\ stops < MaxStops
    /\ stops' = stops + 1
    /\ boot' = "down"
    /\ call' = [c \in Actors |-> NoCall]
    /\ admin' = [c \in Admins |-> NoEdit]
    /\ run' = [r \in Runs |-> IF run[r].step \in {"free", "done"} THEN run[r]
                               ELSE [run[r] EXCEPT !.step = "dead"]]
    /\ cron' = {} /\ swept' = {} /\ toHeal' = {}
    /\ clash' = (clash \/ \E c \in Actors : call[c].step = "write")
    /\ UNCHANGED <<file, pending, night, old, edits>>

(* initRunner lists the records to be closed, ...                           *)
Boot ==
    /\ boot = "down"
    /\ boot' = "starting"
    /\ toHeal' = {r \in old : Read.log[r] = "running"}
    /\ clash' = (file = Torn)
    /\ UNCHANGED <<file, call, admin, run, cron, swept, pending, night, old, bounds>>

(* ... and scheduleAll sets the timers and sweeps the list.                 *)
StartTimers ==
    /\ boot = "starting"
    /\ boot' = "up"
    /\ cron' = Timers(Read)
    /\ Taken
    /\ Peek
    /\ UNCHANGED <<file, call, admin, run, toHeal, night, old, bounds>>

HealOne(r) ==
    /\ r \in toHeal /\ call[Heal].step = "none"
    /\ toHeal' = toHeal \ {r}
    /\ IF run[r].auto \in Read.there /\ Read.log[r] # "none"
       THEN BeginCall(Heal, Logged(r, "ended"))
       ELSE Peek /\ UNCHANGED call
    /\ UNCHANGED <<file, admin, run, cron, swept, pending, boot, night, old, bounds>>

HealDone == EndWrite(Heal) /\ UNCHANGED <<admin, run, cron, pending>>

(* No record is healed after one that cannot be saved.                      *)
HealFails ==
    /\ Fail(Heal)
    /\ toHeal' = {}
    /\ run' = [r \in Runs |-> IF Live(r) \/ run[r] = NoRun THEN run[r]
                               ELSE [run[r] EXCEPT !.step = "left"]]
    /\ UNCHANGED admin

-----------------------------------------------------------------------------
Next ==
    \/ \E c \in Actors : BeginWrite(c)
    \/ \E c \in Admins : EndEdit(c) \/ EditFails(c)
    \/ \E c \in Admins, a \in Autos : Create(c, a) \/ Change(c, a) \/ Delete(c, a)
    \/ \E r \in Runs, a \in Autos : Fire(r, a) \/ Trigger(r, a) \/ SweepNext(r, a)
    \/ \E r \in Runs : \/ Refuse(r) \/ Append(r) \/ Work(r) \/ Update(r) \/ AppendFinal(r)
                      \/ Written(r) \/ RunFails(r) \/ Age(r) \/ HealOne(r)
    \/ HealDone \/ HealFails \/ Sweep \/ Clock \/ Stop \/ Boot \/ StartTimers

Spec == Init /\ [][Next]_vars

-----------------------------------------------------------------------------
Healing(r) == r \in toHeal \/ call[Heal].step # "none"

(* Since the last start, as long as no two calls met on the file: a record  *)
(* that says "running" is of a run that lives, of one that could not save   *)
(* its record, or of one that died less than a minute old before the start. *)
RunningIsLive ==
    \A r \in Runs :
        file # Torn /\ file.log[r] = "running" /\ ~clash =>
            \/ Live(r) \/ run[r].step = "left" \/ Healing(r)
            \/ boot = "down" \/ r \notin old

(* Since the last start, as long as no two calls met: once no edit is under *)
(* way the timers are those of the automations that are enabled and have a  *)
(* time that croner takes, failed saves included.  One without such a time  *)
(* is shown as enabled and never runs (scheduler.ts:66-72).                 *)
TimersFollow ==
    boot = "up" /\ (\A c \in Admins : admin[c] = NoEdit) /\ ~clash /\ file # Torn =>
        cron = Timers(file)

(* The content a reader of the file is meant to see.                        *)
Content ==
    IF Writing # {} THEN call[CHOOSE c \in Writing : TRUE].copy ELSE Read

(* What one call may change in the store.                                   *)
OneEdit(s, t) ==
    \/ \E a \in Autos : t \in Settings(s, a)
    \/ \E a \in s.there : t = Without(s, a)
    \/ \E r \in Runs : /\ run[r].auto \in s.there
                       /\ \/ t = [s EXCEPT !.log[r] = "ended"]
                          \/ s.log[r] = "none" /\ t = [s EXCEPT !.log[r] = "running"]

(* The store changes by one whole edit at a time: one automation is set or  *)
(* goes with its records, or one record is opened or closed.  What was      *)
(* written is only undone by a call that another one overtook between its   *)
(* reading and its end, and only lost when a write is cut off.              *)
WholeEditsOnly ==
    [][\/ OneEdit(Content, Content')
       \/ \E c \in Actors : call[c].late /\ call'[c] # call[c]
       \/ file' = Torn /\ Writing' = {}]_Content

(* What the page shows of runs and timers is so, restarts included.         *)
AutomationsSafe == TypeInv /\ RunningIsLive /\ TimersFollow
=============================================================================
